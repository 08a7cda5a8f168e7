-------------------------------- MODULE Hub --------------------------------
(***************************************************************************)
(* The WebSocket hub (internal/wsserver).  For every client Register runs  *)
(* a reader and a writer goroutine; Broadcast, called by any HTTP handler, *)
(* offers a message to each registered client under the read lock.         *)
(* A frame is two writes on the connection, its header and its payload.    *)
(***************************************************************************)
EXTENDS Naturals, Sequences

CONSTANTS
  Clients,
  Slow,         \* clients that may read nothing, so writes to them may block
  Messages,     \* one call of Broadcast each
  BufSize,      \* capacity of a client's send channel (32)
  MaxEvents,    \* bound on the pings, breaks and panics of all connections
  NoMsg

ASSUME HubAssumption ==
  /\ Slow \subseteq Clients
  /\ BufSize \in Nat \ {0}
  /\ MaxEvents \in Nat
  /\ NoMsg \notin Messages

VARIABLES
  reg,          \* where Register and readPump are for each client
  send,         \* buffered messages of each client
  writer,       \* where each writePump is
  frame,        \* the message it is writing
  received,     \* the messages written in full, in order
  up,           \* the connection is usable
  events,       \* pings received, connections broken and readers that panicked
  cast,         \* where each Broadcast is
  left,         \* the clients it has still to visit
  before        \* <<m, n>>: Broadcast(m) had returned when Broadcast(n) began

writerVars == <<writer, frame, received>>
castVars == <<cast, left, before>>
vars == <<reg, send, writerVars, up, events, castVars>>

Init ==
  /\ reg = [c \in Clients |-> "new"]
  /\ send = [c \in Clients |-> <<>>]
  /\ writer = [c \in Clients |-> "none"]
  /\ frame = [c \in Clients |-> NoMsg]
  /\ received = [c \in Clients |-> <<>>]
  /\ up = [c \in Clients |-> TRUE]
  /\ events = 0
  /\ cast = [m \in Messages |-> "idle"]
  /\ left = [m \in Messages |-> {}]
  /\ before = {}

-----------------------------------------------------------------------------
\* What the place of Register says of the map, the channels and the lock.

\* Mutation: the channel is closed before the client leaves the map.
RegisteredLonger(c) ==
  reg[c] \in {"reading", "pong", "left", "removed", "send_closed", "panicked"}

\* A client whose reader has panicked stays in the map.
Registered(c) == reg[c] \in {"reading", "pong", "left", "panicked"}

DoneClosed(c) == reg[c] \in {"left", "removed", "send_closed", "close_frame", "ended"}

SendClosed(c) == reg[c] \in {"send_closed", "close_frame", "ended"}

\* Broadcasts share the lock, Register excludes them for its short sections.
ReadLocked == \E m \in Messages : cast[m] = "visiting"

Step(c, from, to) == reg[c] = from /\ reg' = [reg EXCEPT ![c] = to]

-----------------------------------------------------------------------------
\* Register and readPump

\* The client enters the map and its writer starts.
Join(c) ==
  /\ Step(c, "new", "reading")
  /\ ~ReadLocked
  /\ writer' = [writer EXCEPT ![c] = "idle"]
  /\ UNCHANGED <<send, frame, received, up, events, castVars>>

Event == events < MaxEvents /\ events' = events + 1

\* A ping is answered from the reader's goroutine, in two writes.
PongHeader(c) ==
  /\ Step(c, "reading", "pong")
  /\ up[c]
  /\ Event
  /\ UNCHANGED <<send, writerVars, up, castVars>>

PongPayload(c) ==
  /\ Step(c, "pong", IF up[c] THEN "reading" ELSE "left")
  /\ UNCHANGED <<send, writerVars, up, events, castVars>>

\* readPump returns on a close frame or on a broken connection, and done is
\* closed.
Disconnect(c) ==
  /\ Step(c, "reading", "left")
  /\ UNCHANGED <<send, writerVars, up, events, castVars>>

\* readFrame panics on a length it cannot allocate; the middleware recovers, and
\* the teardown of Register, which is not deferred, never runs.
ReaderPanics(c) ==
  /\ Step(c, "reading", "panicked")
  /\ Event
  /\ UNCHANGED <<send, writerVars, up, castVars>>

\* The deletion from the map needs the lock; the rest follows by itself.
Teardown(c) ==
  /\ \/ Step(c, "left", "removed") /\ ~ReadLocked
     \/ Step(c, "removed", "send_closed")
     \/ Step(c, "send_closed", "close_frame")
  /\ UNCHANGED <<send, writerVars, up, events, castVars>>

\* The close frame has no payload and no deadline: the write may hang behind
\* the writer's if the client reads nothing.  Then the connection is closed.
CloseConn(c) ==
  /\ Step(c, "close_frame", "ended")
  /\ up' = [up EXCEPT ![c] = FALSE]
  /\ UNCHANGED <<send, writerVars, events, castVars>>

Register(c) == Teardown(c) \/ CloseConn(c)

\* The peer or the network goes away; reads fail from now on, and writes, those
\* that hang included.
Break(c) ==
  /\ up[c]
  /\ reg[c] \notin {"new", "ended"}
  /\ Event
  /\ up' = [up EXCEPT ![c] = FALSE]
  /\ UNCHANGED <<reg, send, writerVars, castVars>>

-----------------------------------------------------------------------------
\* writePump

\* The next message: its header is written, or the write fails and the writer
\* returns.
WriteHeader(c) ==
  /\ writer[c] = "idle"
  /\ send[c] # <<>>
  /\ send' = [send EXCEPT ![c] = Tail(@)]
  /\ IF up[c]
     THEN /\ frame' = [frame EXCEPT ![c] = Head(send[c])]
          /\ writer' = [writer EXCEPT ![c] = "payload"]
     ELSE /\ writer' = [writer EXCEPT ![c] = "exited"]
          /\ UNCHANGED frame
  /\ UNCHANGED <<reg, received, up, events, castVars>>

\* Mutation: a write that failed is tried again.
RetryPayload(c) ==
  /\ writer[c] = "payload"
  /\ up[c]
  /\ received' = [received EXCEPT ![c] = Append(@, frame[c])]
  /\ writer' = [writer EXCEPT ![c] = "idle"]
  /\ frame' = [frame EXCEPT ![c] = NoMsg]
  /\ UNCHANGED <<reg, send, up, events, castVars>>

\* Mutation: the writer writes one message and returns.
WriteOnce(c) ==
  /\ writer[c] = "payload"
  /\ received' = IF up[c] THEN [received EXCEPT ![c] = Append(@, frame[c])] ELSE received
  /\ writer' = [writer EXCEPT ![c] = "exited"]
  /\ frame' = [frame EXCEPT ![c] = NoMsg]
  /\ UNCHANGED <<reg, send, up, events, castVars>>

WritePayload(c) ==
  /\ writer[c] = "payload"
  /\ received' = IF up[c] THEN [received EXCEPT ![c] = Append(@, frame[c])] ELSE received
  /\ writer' = [writer EXCEPT ![c] = IF up[c] THEN "idle" ELSE "exited"]
  /\ frame' = [frame EXCEPT ![c] = NoMsg]
  /\ UNCHANGED <<reg, send, up, events, castVars>>

\* done is closed, or the send channel is closed and empty.
WriterExit(c) ==
  /\ writer[c] = "idle"
  /\ DoneClosed(c) \/ (SendClosed(c) /\ send[c] = <<>>)
  /\ writer' = [writer EXCEPT ![c] = "exited"]
  /\ UNCHANGED <<reg, send, frame, received, up, events, castVars>>

Writer(c) == WriteHeader(c) \/ WritePayload(c) \/ WriterExit(c)

-----------------------------------------------------------------------------
\* Broadcast

OutsideCast == <<reg, writerVars, up, events>>

CastBegin(m) ==
  /\ cast[m] = "idle"
  /\ cast' = [cast EXCEPT ![m] = "visiting"]
  /\ left' = [left EXCEPT ![m] = {c \in Clients : Registered(c)}]
  /\ before' = before \cup {<<n, m>> : n \in {k \in Messages : cast[k] = "returned"}}
  /\ UNCHANGED <<OutsideCast, send>>

Visit(m, c) ==
  /\ cast[m] = "visiting"
  /\ c \in left[m]
  /\ left' = [left EXCEPT ![m] = @ \ {c}]
  /\ UNCHANGED <<OutsideCast, before>>

\* Mutation: the buffer of a client is not bounded.
OfferUnbounded(m, c) ==
  /\ Visit(m, c)
  /\ send' = [send EXCEPT ![c] = Append(@, m)]
  /\ UNCHANGED cast

\* Mutation: the send waits for room (select without default).
OfferBlocking(m, c) ==
  /\ Visit(m, c)
  /\ Len(send[c]) < BufSize
  /\ send' = [send EXCEPT ![c] = Append(@, m)]
  /\ UNCHANGED cast

\* The non-blocking send to one client, in the map's arbitrary order.
Offer(m, c) ==
  /\ Visit(m, c)
  /\ cast' = IF SendClosed(c) THEN [cast EXCEPT ![m] = "panic"] ELSE cast
  /\ send' = IF SendClosed(c) \/ Len(send[c]) = BufSize THEN send
             ELSE [send EXCEPT ![c] = Append(@, m)]

\* Mutation: every send in a goroutine of its own, which may come late.
CastEndAtOnce(m) ==
  /\ \/ /\ cast[m] = "visiting"
        /\ cast' = [cast EXCEPT ![m] = "returned"]
        /\ UNCHANGED <<left, send>>
     \/ \E c \in left[m] :
          /\ left' = [left EXCEPT ![m] = @ \ {c}]
          /\ send' = [send EXCEPT ![c] = Append(@, m)]
          /\ UNCHANGED cast
  /\ UNCHANGED <<OutsideCast, before>>

CastEnd(m) ==
  /\ cast[m] = "visiting"
  /\ left[m] = {}
  /\ cast' = [cast EXCEPT ![m] = "returned"]
  /\ UNCHANGED <<OutsideCast, send, left, before>>

Cast(m) == CastEnd(m) \/ \E c \in Clients : Offer(m, c)

-----------------------------------------------------------------------------
\* Every broadcast has returned and every connection has ended, unless its
\* reader panicked; its writer then waits for messages.
Finished ==
  /\ \A m \in Messages : cast[m] = "returned"
  /\ \A c \in Clients :
       \/ reg[c] = "ended" /\ writer[c] = "exited"
       \/ reg[c] = "panicked" /\ (writer[c] = "exited" \/ (writer[c] = "idle" /\ send[c] = <<>>))
  /\ UNCHANGED vars

Next ==
  \/ \E c \in Clients :
       \/ Join(c) \/ PongHeader(c) \/ PongPayload(c) \/ Disconnect(c) \/ ReaderPanics(c)
       \/ Register(c) \/ Break(c) \/ Writer(c)
  \/ \E m \in Messages : CastBegin(m) \/ Cast(m)
  \/ Finished

Spec == Init /\ [][Next]_vars

\* Broadcasts and the teardown of Register run.  Writes to a client that is not
\* slow complete or fail, and its reader notices a broken connection.  A write
\* to a slow client ends for sure only when its connection breaks.
FairSpec ==
  /\ Spec
  /\ \A m \in Messages : WF_vars(Cast(m))
  /\ \A c \in Clients : WF_vars(Teardown(c) \/ ((c \notin Slow \/ ~up[c]) /\ CloseConn(c)))
  /\ \A c \in Clients \ Slow :
       /\ WF_vars(Writer(c))
       /\ WF_vars(PongPayload(c) \/ (~up[c] /\ Disconnect(c)))

-----------------------------------------------------------------------------
\* Properties

\* Every variable keeps its type; a buffer never holds more than its capacity,
\* and a writer has a frame in hand exactly between its two writes.
TypeOK ==
  /\ reg \in [Clients -> {"new", "reading", "pong", "left", "removed", "send_closed",
                          "close_frame", "ended", "panicked"}]
  /\ \A c \in Clients : send[c] \in Seq(Messages) /\ Len(send[c]) <= BufSize
  /\ writer \in [Clients -> {"none", "idle", "payload", "exited"}]
  /\ frame \in [Clients -> Messages \cup {NoMsg}]
  /\ \A c \in Clients : writer[c] = "payload" <=> frame[c] # NoMsg
  /\ \A c \in Clients : received[c] \in Seq(Messages)
  /\ up \in [Clients -> BOOLEAN]
  /\ events \in 0..MaxEvents
  /\ cast \in [Messages -> {"idle", "visiting", "returned", "panic"}]
  /\ left \in [Messages -> SUBSET Clients]
  /\ before \subseteq Messages \X Messages

\* A broadcast never meets a send channel that Register has closed.
NoSendOnClosed == \A m \in Messages : cast[m] # "panic"

\* A client never sees a later broadcast before an earlier one, nor one twice;
\* broadcasts that overlap may reach two clients in different orders.
OrderKept ==
  \A c \in Clients : \A i, j \in 1..Len(received[c]) :
    i < j => /\ <<received[c][j], received[c][i]>> \notin before
             /\ received[c][i] # received[c][j]

\* The dedicated writer keeps the writes of two frames from interleaving on a
\* connection (hub.go:8-14): while one goroutine is between the header and the
\* payload of a frame, no other has begun one.
FramesIntact ==
  \A c \in Clients :
    up[c] /\ writer[c] = "payload" => reg[c] \notin {"pong", "close_frame"}

\* One slow client does not block the broadcast to everyone else
\* (hub.go:12-14). Whoever leaves, slow or not, is taken out of the map and has
\* its channels closed; its connection is closed too, unless it still is up
\* and nobody reads what Close has to write.
NoneWaitsForSlow ==
  /\ \A m \in Messages : cast[m] = "visiting" ~> cast[m] = "returned"
  /\ \A c \in Clients :
       DoneClosed(c) ~> reg[c] = "ended" \/ (c \in Slow /\ up[c] /\ SendClosed(c))

\* Whatever other clients do, a message buffered for a client that reads is
\* written, unless its connection breaks or it leaves.
BufferedIsWritten ==
  \A c \in Clients \ Slow, m \in Messages :
    (\E i \in 1..Len(send[c]) : send[c][i] = m)
      ~> (\E i \in 1..Len(received[c]) : received[c][i] = m) \/ ~up[c] \/ DoneClosed(c)

\* No writer outlives its client.
WritersEnd == \A c \in Clients \ Slow : DoneClosed(c) ~> writer[c] = "exited"
=============================================================================
