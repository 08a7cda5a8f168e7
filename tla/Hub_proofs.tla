----------------------------- MODULE Hub_proofs -----------------------------
(***************************************************************************)
(* Proofs about Hub, for any clients, messages, buffers and events.        *)
(***************************************************************************)
EXTENDS Hub, TLAPS

\* A broadcast has still to visit registered clients only: neither Register nor
\* the deletion from the map happens while it holds the read lock.
Visiting ==
  /\ \A m \in Messages, c \in Clients : c \in left[m] => cast[m] = "visiting" /\ Registered(c)
  /\ \A c \in Clients : reg[c] = "new" => writer[c] = "none"

Written(c, m) == \E i \in 1..Len(received[c]) : received[c][i] = m
Buffered(c, m) == \E i \in 1..Len(send[c]) : send[c][i] = m
Offered(c, m) == Written(c, m) \/ frame[c] = m \/ Buffered(c, m)

\* x is on its way to c, or there, before y: what is written comes before the
\* frame in hand, and this before the buffer.
Ahead(c, x, y) ==
  \/ \E i, j \in 1..Len(received[c]) : i < j /\ received[c][i] = x /\ received[c][j] = y
  \/ Written(c, x) /\ (frame[c] = y \/ Buffered(c, y))
  \/ frame[c] = x /\ Buffered(c, y)
  \/ \E i, j \in 1..Len(send[c]) : i < j /\ send[c][i] = x /\ send[c][j] = y

\* A message that was offered to a client is not offered to it again, and what
\* is offered later does not belong before it.
Sequenced ==
  /\ \A c \in Clients, m \in Messages : Offered(c, m) => cast[m] # "idle" /\ c \notin left[m]
  /\ \A m, n \in Messages : <<m, n>> \in before => cast[m] = "returned" /\ cast[n] # "idle"
  /\ \A c \in Clients, x, y \in Messages : Ahead(c, x, y) => <<y, x>> \notin before /\ x # y

IInv ==
  /\ TypeOK
  /\ send \in [Clients -> Seq(Messages)] /\ received \in [Clients -> Seq(Messages)]
  /\ NoSendOnClosed /\ Visiting /\ Sequenced

-----------------------------------------------------------------------------
\* What a receive does to a buffer.
LEMMA TailFacts ==
  ASSUME NEW S, NEW q \in Seq(S), q # <<>>
  PROVE  /\ Head(q) = q[1] /\ Head(q) \in S /\ 1 \in 1..Len(q) /\ Len(q) \in Nat
         /\ Tail(q) \in Seq(S) /\ Len(Tail(q)) = Len(q) - 1
         /\ \A i \in 1..Len(Tail(q)) : i + 1 \in 1..Len(q) /\ Tail(q)[i] = q[i + 1]
<1>1. Len(q) \in Nat /\ Len(q) # 0
  OBVIOUS
<1>2. Len(Tail(q)) = Len(q) - 1 /\ Tail(q) \in Seq(S)
  BY <1>1
<1>3. Head(q) = q[1] /\ 1 \in 1..Len(q)
  BY <1>1
<1>4. \A i \in 1..Len(Tail(q)) : i + 1 \in 1..Len(q) /\ Tail(q)[i] = q[i + 1]
  BY <1>1, <1>2
<1> QED
  BY <1>1, <1>2, <1>3, <1>4

\* What a send does to it.
LEMMA AppendFacts ==
  ASSUME NEW S, NEW q \in Seq(S), NEW x \in S
  PROVE  /\ Append(q, x) \in Seq(S) /\ Len(Append(q, x)) = Len(q) + 1 /\ Len(q) \in Nat
         /\ \A i \in 1..Len(q) : i \in 1..Len(Append(q, x)) /\ Append(q, x)[i] = q[i]
         /\ Append(q, x)[Len(q) + 1] = x
         /\ \A i \in 1..Len(Append(q, x)) : i \in 1..Len(q) \/ i = Len(q) + 1
OBVIOUS

\* The invariant holds when the process has started.
LEMMA InitInv == Init => IInv
<1> SUFFICES ASSUME Init PROVE IInv
  OBVIOUS
<1>1. send \in [Clients -> Seq(Messages)] /\ received \in [Clients -> Seq(Messages)]
  BY DEF Init
<1>2. \A c \in Clients : Len(send[c]) = 0 /\ Len(received[c]) = 0
  BY DEF Init
<1>3. TypeOK
  <2>1. up \in [Clients -> BOOLEAN]
    BY DEF Init
  <2>2. events \in 0..MaxEvents /\ \A c \in Clients : Len(send[c]) <= BufSize
    BY <1>2, HubAssumption DEF Init
  <2> QED
    BY <1>1, <2>1, <2>2, HubAssumption DEF Init, TypeOK
<1>4. NoSendOnClosed /\ Visiting
  BY DEF Init, NoSendOnClosed, Visiting
<1>5. Sequenced
  <2>1. \A c \in Clients, m \in Messages : ~Written(c, m) /\ ~Buffered(c, m) /\ frame[c] # m
    BY <1>2, HubAssumption DEF Written, Buffered, Init
  <2>2. \A c \in Clients, x, y \in Messages : ~Ahead(c, x, y)
    BY <1>2, <2>1 DEF Ahead
  <2> QED
    BY <2>1, <2>2 DEF Init, Sequenced, Offered
<1> QED
  BY <1>1, <1>3, <1>4, <1>5 DEF IInv

\* Buffers, frames and broadcasts that stay what they are.
LEMMA SequencedKept ==
  ASSUME IInv, UNCHANGED <<send, frame, received, castVars>>
  PROVE  /\ Sequenced' /\ NoSendOnClosed'
         /\ send' \in [Clients -> Seq(Messages)] /\ received' \in [Clients -> Seq(Messages)]
BY DEF IInv, Sequenced, NoSendOnClosed, Offered, Ahead, Written, Buffered, castVars

-----------------------------------------------------------------------------
\* Register, readPump and the network

\* A step of Register: a client that leaves the map, or enters it, does so
\* while no broadcast is under way.
LEMMA RegisterStep ==
  ASSUME IInv, NEW c \in Clients,
         \/ Join(c) \/ PongHeader(c) \/ PongPayload(c) \/ Disconnect(c) \/ ReaderPanics(c)
         \/ Register(c) \/ Break(c)
  PROVE  IInv'
<1> USE DEF Join, PongHeader, PongPayload, Disconnect, ReaderPanics, Register, Teardown,
            CloseConn, Break, Step
<1>1. UNCHANGED <<send, frame, received, castVars>>
  BY DEF writerVars
<1>2. /\ reg \in [Clients -> {"new", "reading", "pong", "left", "removed", "send_closed",
                              "close_frame", "ended", "panicked"}]
      /\ writer \in [Clients -> {"none", "idle", "payload", "exited"}]
  BY DEF IInv, TypeOK
<1>3. PICK to \in {"new", "reading", "pong", "left", "removed", "send_closed", "close_frame",
                   "ended", "panicked"} :
        reg' = [reg EXCEPT ![c] = to]
  BY <1>2
<1>4. \/ writer' = writer /\ reg'[c] # "new"
      \/ writer' = writer /\ reg' = reg
      \/ reg[c] = "new" /\ reg'[c] = "reading" /\ writer' = [writer EXCEPT ![c] = "idle"]
  BY <1>2, <1>3 DEF writerVars
<1>5. up' \in [Clients -> BOOLEAN]
  <2>1. up \in [Clients -> BOOLEAN]
    BY DEF IInv, TypeOK
  <2>2. up' = up \/ up' = [up EXCEPT ![c] = FALSE]
    OBVIOUS
  <2> QED
    BY <2>1, <2>2
<1>6. events' \in 0..MaxEvents
  BY HubAssumption DEF IInv, TypeOK, Event
<1>7. TypeOK'
  <2>1. reg' \in [Clients -> {"new", "reading", "pong", "left", "removed", "send_closed",
                              "close_frame", "ended", "panicked"}]
    BY <1>2, <1>3
  <2>2. writer' \in [Clients -> {"none", "idle", "payload", "exited"}]
    BY <1>2, <1>4
  <2>3. \A k \in Clients : writer'[k] = "payload" <=> frame'[k] # NoMsg
    BY <1>1, <1>2, <1>4 DEF IInv, TypeOK, Visiting
  <2>4. \A k \in Clients : send'[k] \in Seq(Messages) /\ Len(send'[k]) <= BufSize
    BY <1>1 DEF IInv, TypeOK
  <2> QED
    BY <1>1, <1>5, <1>6, <2>1, <2>2, <2>3, <2>4 DEF IInv, TypeOK, castVars
<1>8. Visiting'
  <2>1. CASE ReadLocked
    <3>1. Registered(c) => Registered(c)'
      BY <1>2, <2>1 DEF Registered
    <3> QED
      BY <1>1, <1>2, <1>3, <1>4, <3>1 DEF IInv, Visiting, Registered, castVars
  <2>2. CASE ~ReadLocked
    BY <1>1, <1>2, <1>3, <1>4, <2>2 DEF IInv, Visiting, ReadLocked, castVars
  <2> QED
    BY <2>1, <2>2
<1> QED
  BY <1>1, <1>7, <1>8, SequencedKept DEF IInv

-----------------------------------------------------------------------------
\* writePump

\* The writer takes the oldest message from the buffer.
LEMMA WriteHeaderStep ==
  ASSUME IInv, NEW c \in Clients, WriteHeader(c)
  PROVE  IInv'
<1>1. /\ writer[c] = "idle" /\ send[c] # <<>> /\ send' = [send EXCEPT ![c] = Tail(send[c])]
      /\ UNCHANGED <<reg, received, up, events, castVars>>
  BY DEF WriteHeader
<1>2. /\ send \in [Clients -> Seq(Messages)] /\ frame \in [Clients -> Messages \cup {NoMsg}]
      /\ writer \in [Clients -> {"none", "idle", "payload", "exited"}]
      /\ frame[c] = NoMsg
  BY <1>1 DEF IInv, TypeOK
<1> PICK q \in Seq(Messages) : q = send[c] /\ q # <<>>
  BY <1>1, <1>2
<1>3. /\ Head(q) = q[1] /\ Head(q) \in Messages /\ 1 \in 1..Len(q) /\ Len(q) \in Nat
      /\ send'[c] = Tail(q) /\ Tail(q) \in Seq(Messages) /\ Len(send'[c]) = Len(q) - 1
      /\ \A i \in 1..Len(send'[c]) : i + 1 \in 1..Len(q) /\ send'[c][i] = q[i + 1]
  BY <1>1, <1>2, TailFacts
<1>4. \/ /\ frame' = [frame EXCEPT ![c] = q[1]] /\ q[1] # NoMsg
         /\ writer' = [writer EXCEPT ![c] = "payload"]
      \/ frame' = frame /\ writer' = [writer EXCEPT ![c] = "exited"]
  BY <1>3, HubAssumption DEF WriteHeader
<1>5. \A k \in Clients, m \in Messages : Offered(k, m)' => Offered(k, m)
  <2>1. ASSUME NEW m \in Messages, Offered(c, m)' PROVE Offered(c, m)
    BY <1>1, <1>2, <1>3, <1>4, <2>1 DEF Offered, Written, Buffered
  <2>2. ASSUME NEW k \in Clients, k # c, NEW m \in Messages, Offered(k, m)' PROVE Offered(k, m)
    BY <1>1, <1>2, <1>4, <2>2 DEF Offered, Written, Buffered
  <2> QED
    BY <2>1, <2>2
<1>6. \A k \in Clients, x, y \in Messages : Ahead(k, x, y)' => Ahead(k, x, y)
  <2>1. ASSUME NEW x \in Messages, NEW y \in Messages, Ahead(c, x, y)' PROVE Ahead(c, x, y)
    <3>1. received' = received
      BY <1>1
    <3>2. ASSUME Buffered(c, y)'
          PROVE  /\ Buffered(c, y)
                 /\ x = q[1] => \E i, j \in 1..Len(send[c]) : i < j /\ send[c][i] = x /\ send[c][j] = y
      <4>1. PICK j \in 1..Len(send'[c]) : send'[c][j] = y
        BY <3>2 DEF Buffered
      <4>2. j + 1 \in 1..Len(q) /\ q[j + 1] = y /\ 1 < j + 1
        BY <1>3, <4>1
      <4> QED
        BY <1>3, <4>2 DEF Buffered
    <3>3. CASE Written(c, x)' /\ (frame'[c] = y \/ Buffered(c, y)')
      <4>1. Written(c, x)
        BY <3>1, <3>3 DEF Written
      <4>2. Buffered(c, y) \/ frame[c] = y
        BY <1>2, <1>3, <1>4, <3>2, <3>3 DEF Buffered
      <4> QED
        BY <4>1, <4>2 DEF Ahead
    <3>4. CASE frame'[c] = x /\ Buffered(c, y)'
      <4>1. x = q[1]
        BY <1>2, <1>4, <3>4, HubAssumption
      <4> QED
        BY <3>2, <3>4, <4>1 DEF Ahead
    <3>5. CASE \E i, j \in 1..Len(send'[c]) : i < j /\ send'[c][i] = x /\ send'[c][j] = y
      <4>1. PICK i \in 1..Len(send'[c]), j \in 1..Len(send'[c]) :
              i < j /\ send'[c][i] = x /\ send'[c][j] = y
        BY <3>5
      <4>2. /\ i + 1 \in 1..Len(q) /\ j + 1 \in 1..Len(q) /\ i + 1 < j + 1
            /\ q[i + 1] = x /\ q[j + 1] = y
        BY <1>3, <4>1
      <4> QED
        BY <4>2 DEF Ahead
    <3> QED
      BY <2>1, <3>1, <3>3, <3>4, <3>5 DEF Ahead
  <2>2. ASSUME NEW k \in Clients, k # c, NEW x \in Messages, NEW y \in Messages, Ahead(k, x, y)'
        PROVE  Ahead(k, x, y)
    <3>1. send'[k] = send[k] /\ frame'[k] = frame[k] /\ received'[k] = received[k]
      BY <1>1, <1>2, <1>4, <2>2
    <3> QED
      BY <2>2, <3>1 DEF Ahead, Written, Buffered
  <2> QED
    BY <2>1, <2>2
<1>7. Sequenced'
  BY <1>1, <1>5, <1>6 DEF IInv, Sequenced, castVars
<1>8. TypeOK' /\ send' \in [Clients -> Seq(Messages)]
  <2>1. send' \in [Clients -> Seq(Messages)]
    BY <1>1, <1>2, <1>3
  <2>2. \A k \in Clients : Len(send'[k]) <= BufSize
    BY <1>1, <1>2, <1>3, HubAssumption DEF IInv, TypeOK
  <2>3. /\ frame' \in [Clients -> Messages \cup {NoMsg}]
        /\ writer' \in [Clients -> {"none", "idle", "payload", "exited"}]
    <3>1. q[1] \in Messages
      BY <1>3
    <3> QED
      BY <1>2, <1>4, <3>1
  <2>4. \A k \in Clients : writer'[k] = "payload" <=> frame'[k] # NoMsg
    <3>1. \A k \in Clients : writer[k] = "payload" <=> frame[k] # NoMsg
      BY DEF IInv, TypeOK
    <3>2. writer'[c] = "payload" <=> frame'[c] # NoMsg
      BY <1>2, <1>4
    <3>3. \A k \in Clients : k # c => writer'[k] = writer[k] /\ frame'[k] = frame[k]
      BY <1>2, <1>4
    <3> QED
      BY <3>1, <3>2, <3>3
  <2> QED
    BY <1>1, <2>1, <2>2, <2>3, <2>4 DEF IInv, TypeOK, castVars
<1>9. Visiting' /\ NoSendOnClosed' /\ received' \in [Clients -> Seq(Messages)]
  BY <1>1, <1>2, <1>4 DEF IInv, Visiting, Registered, NoSendOnClosed, castVars
<1> QED
  BY <1>7, <1>8, <1>9 DEF IInv

\* The frame has been written, or the write failed.
LEMMA WritePayloadStep ==
  ASSUME IInv, NEW c \in Clients, WritePayload(c)
  PROVE  IInv'
<1>1. /\ writer[c] = "payload" /\ frame' = [frame EXCEPT ![c] = NoMsg]
      /\ writer' \in {[writer EXCEPT ![c] = "idle"], [writer EXCEPT ![c] = "exited"]}
      /\ UNCHANGED <<reg, send, up, events, castVars>>
  BY DEF WritePayload
<1>2. /\ received \in [Clients -> Seq(Messages)] /\ frame \in [Clients -> Messages \cup {NoMsg}]
      /\ writer \in [Clients -> {"none", "idle", "payload", "exited"}]
      /\ send \in [Clients -> Seq(Messages)]
      /\ frame[c] \in Messages
  BY <1>1 DEF IInv, TypeOK
<1> PICK q \in Seq(Messages), f \in Messages : q = received[c] /\ f = frame[c]
  BY <1>2
<1>3. received' = received \/ received' = [received EXCEPT ![c] = Append(q, f)]
  BY DEF WritePayload
<1>4. /\ Append(q, f) \in Seq(Messages) /\ Len(Append(q, f)) = Len(q) + 1 /\ Len(q) \in Nat
      /\ \A i \in 1..Len(q) : i \in 1..Len(Append(q, f)) /\ Append(q, f)[i] = q[i]
      /\ Append(q, f)[Len(q) + 1] = f
      /\ \A i \in 1..Len(Append(q, f)) : i \in 1..Len(q) \/ i = Len(q) + 1
  BY AppendFacts
<1>5. ASSUME NEW m \in Messages, Written(c, m)' PROVE Written(c, m) \/ m = f
  BY <1>2, <1>3, <1>4, <1>5 DEF Written
<1>6. \A k \in Clients, m \in Messages : Offered(k, m)' => Offered(k, m)
  <2>1. ASSUME NEW m \in Messages, Offered(c, m)' PROVE Offered(c, m)
    <3>1. frame'[c] # m /\ (Buffered(c, m)' => Buffered(c, m))
      BY <1>1, <1>2, HubAssumption DEF Buffered
    <3> QED
      BY <1>5, <2>1, <3>1 DEF Offered
  <2>2. ASSUME NEW k \in Clients, k # c, NEW m \in Messages, Offered(k, m)' PROVE Offered(k, m)
    BY <1>1, <1>2, <1>3, <2>2 DEF Offered, Written, Buffered
  <2> QED
    BY <2>1, <2>2
<1>7. \A k \in Clients, x, y \in Messages : Ahead(k, x, y)' => Ahead(k, x, y)
  <2>1. ASSUME NEW x \in Messages, NEW y \in Messages, Ahead(c, x, y)' PROVE Ahead(c, x, y)
    <3>1. frame'[c] \notin Messages /\ (Buffered(c, y)' <=> Buffered(c, y))
      BY <1>1, <1>2, HubAssumption DEF Buffered
    <3>2. CASE \E i, j \in 1..Len(received'[c]) : i < j /\ received'[c][i] = x /\ received'[c][j] = y
      <4>1. PICK i \in 1..Len(received'[c]), j \in 1..Len(received'[c]) :
              i < j /\ received'[c][i] = x /\ received'[c][j] = y
        BY <3>2
      <4>2. CASE j \in 1..Len(q)
        BY <1>2, <1>3, <1>4, <4>1, <4>2 DEF Ahead
      <4>3. CASE j \notin 1..Len(q)
        <5>1. i \in 1..Len(q) /\ q[i] = x /\ y = f
          BY <1>2, <1>3, <1>4, <4>1, <4>3
        <5> QED
          BY <5>1 DEF Ahead, Written
      <4> QED
        BY <4>2, <4>3
    <3>3. CASE Written(c, x)' /\ (frame'[c] = y \/ Buffered(c, y)')
      BY <1>5, <3>1, <3>3 DEF Ahead
    <3>4. CASE \E i, j \in 1..Len(send'[c]) : i < j /\ send'[c][i] = x /\ send'[c][j] = y
      BY <1>1, <3>4 DEF Ahead
    <3> QED
      BY <2>1, <3>1, <3>2, <3>3, <3>4 DEF Ahead
  <2>2. ASSUME NEW k \in Clients, k # c, NEW x \in Messages, NEW y \in Messages, Ahead(k, x, y)'
        PROVE  Ahead(k, x, y)
    <3>1. send'[k] = send[k] /\ frame'[k] = frame[k] /\ received'[k] = received[k]
      BY <1>1, <1>2, <1>3, <2>2
    <3> QED
      BY <2>2, <3>1 DEF Ahead, Written, Buffered
  <2> QED
    BY <2>1, <2>2
<1>8. Sequenced'
  BY <1>1, <1>6, <1>7 DEF IInv, Sequenced, castVars
<1>9. received' \in [Clients -> Seq(Messages)]
  BY <1>2, <1>3, <1>4
<1>10. TypeOK'
  <2>1. /\ frame' \in [Clients -> Messages \cup {NoMsg}]
        /\ writer' \in [Clients -> {"none", "idle", "payload", "exited"}]
        /\ \A k \in Clients : writer'[k] = "payload" <=> frame'[k] # NoMsg
    BY <1>1, <1>2 DEF IInv, TypeOK
  <2> QED
    BY <1>1, <1>9, <2>1 DEF IInv, TypeOK, castVars
<1>11. Visiting' /\ NoSendOnClosed' /\ send' \in [Clients -> Seq(Messages)]
  BY <1>1, <1>2 DEF IInv, Visiting, Registered, NoSendOnClosed, castVars
<1> QED
  BY <1>8, <1>9, <1>10, <1>11 DEF IInv

\* The writer returns.
LEMMA WriterExitStep ==
  ASSUME IInv, NEW c \in Clients, WriterExit(c)
  PROVE  IInv'
<1>1. /\ writer[c] = "idle" /\ writer' = [writer EXCEPT ![c] = "exited"]
      /\ UNCHANGED <<reg, send, frame, received, up, events, castVars>>
  BY DEF WriterExit
<1>2. TypeOK' /\ Visiting'
  BY <1>1 DEF IInv, TypeOK, Visiting, Registered, castVars
<1> QED
  BY <1>1, <1>2, SequencedKept DEF IInv

-----------------------------------------------------------------------------
\* Broadcast

\* A broadcast begins after those that have returned, and nobody has been
\* offered its message.
LEMMA CastBeginStep ==
  ASSUME IInv, NEW m \in Messages, CastBegin(m)
  PROVE  IInv'
<1>1. /\ cast[m] = "idle" /\ cast' = [cast EXCEPT ![m] = "visiting"]
      /\ left' = [left EXCEPT ![m] = {c \in Clients : Registered(c)}]
      /\ before' = before \cup {<<n, m>> : n \in {k \in Messages : cast[k] = "returned"}}
      /\ UNCHANGED <<OutsideCast, send>>
  BY DEF CastBegin
<1>2. /\ cast \in [Messages -> {"idle", "visiting", "returned", "panic"}]
      /\ left \in [Messages -> SUBSET Clients] /\ before \subseteq Messages \X Messages
  BY DEF IInv, TypeOK
<1>3. TypeOK'
  BY <1>1, <1>2 DEF IInv, TypeOK, OutsideCast, writerVars
<1>4. Visiting' /\ NoSendOnClosed'
  BY <1>1, <1>2 DEF IInv, Visiting, NoSendOnClosed, Registered, OutsideCast, writerVars
<1>5. UNCHANGED <<send, frame, received>>
  BY <1>1 DEF OutsideCast, writerVars
<1>6. /\ \A c \in Clients, n \in Messages : Offered(c, n)' <=> Offered(c, n)
      /\ \A c \in Clients, x, y \in Messages : Ahead(c, x, y)' <=> Ahead(c, x, y)
  BY <1>5 DEF Offered, Ahead, Written, Buffered
<1>7. \A c \in Clients, x, y \in Messages : Ahead(c, x, y) => Offered(c, x) /\ Offered(c, y)
  BY DEF Ahead, Offered, Written, Buffered
<1>8. Sequenced'
  <2>1. \A c \in Clients : ~Offered(c, m)
    BY <1>1 DEF IInv, Sequenced
  <2>2. \A c \in Clients, n \in Messages : Offered(c, n)' => cast'[n] # "idle" /\ c \notin left'[n]
    BY <1>1, <1>2, <1>6, <2>1 DEF IInv, Sequenced
  <2>3. \A x, y \in Messages : <<x, y>> \in before' => cast'[x] = "returned" /\ cast'[y] # "idle"
    BY <1>1, <1>2 DEF IInv, Sequenced
  <2>4. ASSUME NEW c \in Clients, NEW x \in Messages, NEW y \in Messages, Ahead(c, x, y)'
        PROVE  <<y, x>> \notin before' /\ x # y
    <3>1. Ahead(c, x, y) /\ x # m
      BY <1>6, <1>7, <2>1, <2>4
    <3> QED
      BY <1>1, <3>1 DEF IInv, Sequenced
  <2> QED
    BY <2>2, <2>3, <2>4 DEF Sequenced
<1> QED
  BY <1>3, <1>4, <1>5, <1>8 DEF IInv

\* The send to one client: its channel is not closed, as it is in the map, and
\* the message takes the last place in its buffer.
LEMMA OfferStep ==
  ASSUME IInv, NEW m \in Messages, NEW c \in Clients, Offer(m, c)
  PROVE  IInv'
<1>1. /\ cast[m] = "visiting" /\ c \in left[m] /\ left' = [left EXCEPT ![m] = @ \ {c}]
      /\ UNCHANGED <<OutsideCast, before>>
  BY DEF Offer, Visit
<1>2. Registered(c) /\ ~SendClosed(c) /\ cast' = cast
  BY <1>1 DEF Offer, IInv, Visiting, Registered, SendClosed
<1>3. /\ left \in [Messages -> SUBSET Clients] /\ send \in [Clients -> Seq(Messages)]
      /\ Len(send[c]) \in Nat /\ Len(send[c]) <= BufSize /\ BufSize \in Nat
  BY HubAssumption DEF IInv, TypeOK
<1>4. Visiting' /\ NoSendOnClosed'
  BY <1>1, <1>2, <1>3 DEF IInv, Visiting, NoSendOnClosed, Registered, OutsideCast, writerVars
<1>5. left' \in [Messages -> SUBSET Clients] /\ UNCHANGED <<frame, received>>
  BY <1>1, <1>3 DEF OutsideCast, writerVars
<1>6. CASE Len(send[c]) = BufSize
  <2>1. send' = send
    BY <1>6 DEF Offer
  <2>2. TypeOK'
    BY <1>1, <1>2, <1>5, <2>1 DEF IInv, TypeOK, OutsideCast, writerVars
  <2>3. Sequenced'
    BY <1>1, <1>2, <1>3, <1>5, <2>1 DEF IInv, Sequenced, Offered, Ahead, Written, Buffered
  <2> QED
    BY <1>4, <1>5, <2>1, <2>2, <2>3 DEF IInv
<1>7. CASE Len(send[c]) # BufSize
  <2> PICK q \in Seq(Messages) : q = send[c]
    BY <1>3
  <2>1. send' = [send EXCEPT ![c] = Append(q, m)]
    BY <1>2, <1>7 DEF Offer
  <2>2. /\ Append(q, m) \in Seq(Messages) /\ Len(Append(q, m)) = Len(q) + 1 /\ Len(q) \in Nat
        /\ \A i \in 1..Len(q) : i \in 1..Len(Append(q, m)) /\ Append(q, m)[i] = q[i]
        /\ Append(q, m)[Len(q) + 1] = m
        /\ \A i \in 1..Len(Append(q, m)) : i \in 1..Len(q) \/ i = Len(q) + 1
    BY AppendFacts
  <2>3. send'[c] = Append(q, m) /\ \A k \in Clients : k # c => send'[k] = send[k]
    BY <1>3, <2>1
  <2>4. ASSUME NEW n \in Messages, Buffered(c, n)' PROVE Buffered(c, n) \/ n = m
    BY <2>2, <2>3, <2>4 DEF Buffered
  <2>5. ASSUME NEW k \in Clients, NEW n \in Messages, Offered(k, n)'
        PROVE  Offered(k, n) \/ (k = c /\ n = m)
    <3>1. CASE k = c
      BY <1>5, <2>4, <2>5, <3>1 DEF Offered, Written
    <3>2. CASE k # c
      BY <1>5, <2>3, <2>5, <3>2 DEF Offered, Written, Buffered
    <3> QED
      BY <3>1, <3>2
  <2>6. ASSUME NEW k \in Clients, NEW x \in Messages, NEW y \in Messages, Ahead(k, x, y)'
        PROVE  Ahead(k, x, y) \/ (k = c /\ Offered(c, x) /\ y = m)
    <3>1. CASE k # c
      BY <1>5, <2>3, <2>6, <3>1 DEF Ahead, Written, Buffered
    <3>2. CASE k = c
      <4>1. CASE \E i, j \in 1..Len(send'[c]) : i < j /\ send'[c][i] = x /\ send'[c][j] = y
        <5>1. PICK i \in 1..Len(send'[c]), j \in 1..Len(send'[c]) :
                i < j /\ send'[c][i] = x /\ send'[c][j] = y
          BY <4>1
        <5>2. i \in 1..Len(q) /\ q[i] = x
          BY <2>2, <2>3, <5>1
        <5>3. (j \in 1..Len(q) /\ q[j] = y) \/ y = m
          BY <2>2, <2>3, <5>1
        <5> QED
          BY <3>2, <5>1, <5>2, <5>3 DEF Ahead, Offered, Buffered
      <4>2. CASE Written(c, x)' /\ (frame'[c] = y \/ Buffered(c, y)')
        BY <1>5, <2>4, <3>2, <4>2 DEF Ahead, Offered, Written
      <4>3. CASE frame'[c] = x /\ Buffered(c, y)'
        BY <1>5, <2>4, <3>2, <4>3 DEF Ahead, Offered
      <4>4. CASE \E i, j \in 1..Len(received'[c]) :
                   i < j /\ received'[c][i] = x /\ received'[c][j] = y
        BY <1>5, <3>2, <4>4 DEF Ahead
      <4> QED
        BY <2>6, <3>2, <4>1, <4>2, <4>3, <4>4 DEF Ahead
    <3> QED
      BY <3>1, <3>2
  <2>7. Sequenced'
    <3>1. ~Offered(c, m) /\ \A n \in Messages : <<m, n>> \notin before
      BY <1>1 DEF IInv, Sequenced
    <3>2. \A k \in Clients, n \in Messages : Offered(k, n)' => cast'[n] # "idle" /\ k \notin left'[n]
      BY <1>1, <1>2, <1>3, <2>5 DEF IInv, Sequenced
    <3>3. ASSUME NEW k \in Clients, NEW x \in Messages, NEW y \in Messages, Ahead(k, x, y)'
          PROVE  <<y, x>> \notin before' /\ x # y
      BY <1>1, <2>6, <3>1, <3>3 DEF IInv, Sequenced
    <3> QED
      BY <1>1, <1>2, <3>2, <3>3 DEF IInv, Sequenced
  <2>8. TypeOK' /\ send' \in [Clients -> Seq(Messages)]
    <3>1. send' \in [Clients -> Seq(Messages)]
      BY <1>3, <2>1, <2>2
    <3>2. \A k \in Clients : Len(send'[k]) <= BufSize
      <4>1. Len(send'[c]) <= BufSize
        BY <1>3, <1>7, <2>2, <2>3
      <4>2. \A k \in Clients : Len(send[k]) <= BufSize
        BY DEF IInv, TypeOK
      <4> QED
        BY <2>3, <4>1, <4>2
    <3> QED
      BY <1>1, <1>2, <1>5, <3>1, <3>2 DEF IInv, TypeOK, OutsideCast, writerVars
  <2> QED
    BY <1>4, <1>5, <2>7, <2>8 DEF IInv
<1> QED
  BY <1>6, <1>7

\* A broadcast that has visited everyone returns.
LEMMA CastEndStep ==
  ASSUME IInv, NEW m \in Messages, CastEnd(m)
  PROVE  IInv'
<1>1. /\ cast[m] = "visiting" /\ left[m] = {} /\ cast' = [cast EXCEPT ![m] = "returned"]
      /\ UNCHANGED <<OutsideCast, send, left, before>>
  BY DEF CastEnd
<1>2. cast \in [Messages -> {"idle", "visiting", "returned", "panic"}]
  BY DEF IInv, TypeOK
<1>3. TypeOK'
  BY <1>1, <1>2 DEF IInv, TypeOK, OutsideCast, writerVars
<1>4. Visiting' /\ NoSendOnClosed'
  BY <1>1, <1>2 DEF IInv, Visiting, NoSendOnClosed, Registered, OutsideCast, writerVars
<1>5. UNCHANGED <<send, frame, received>>
  BY <1>1 DEF OutsideCast, writerVars
<1>6. \A n \in Messages : /\ cast[n] # "idle" <=> cast'[n] # "idle"
                          /\ cast[n] = "returned" => cast'[n] = "returned"
  BY <1>1, <1>2
<1>7. Sequenced'
  <2>1. /\ \A c \in Clients, n \in Messages : Offered(c, n)' <=> Offered(c, n)
        /\ \A c \in Clients, x, y \in Messages : Ahead(c, x, y)' <=> Ahead(c, x, y)
    BY <1>5 DEF Offered, Ahead, Written, Buffered
  <2> QED
    BY <1>1, <1>6, <2>1 DEF IInv, Sequenced
<1> QED
  BY <1>1, <1>3, <1>4, <1>5, <1>7 DEF IInv

-----------------------------------------------------------------------------
\* Every step

\* The invariant is inductive.
LEMMA StepInv == IInv /\ [Next]_vars => IInv'
<1> SUFFICES ASSUME IInv, [Next]_vars PROVE IInv'
  OBVIOUS
<1>1. CASE UNCHANGED vars
  <2>1. TypeOK' /\ Visiting'
    BY <1>1 DEF IInv, TypeOK, Visiting, Registered, vars, writerVars, castVars
  <2> QED
    BY <1>1, <2>1, SequencedKept DEF IInv, vars, writerVars
<1>2. ASSUME NEW c \in Clients,
             \/ Join(c) \/ PongHeader(c) \/ PongPayload(c) \/ Disconnect(c) \/ ReaderPanics(c)
             \/ Register(c) \/ Break(c)
      PROVE  IInv'
  BY <1>2, RegisterStep
<1>3. ASSUME NEW c \in Clients, Writer(c) PROVE IInv'
  BY <1>3, WriteHeaderStep, WritePayloadStep, WriterExitStep DEF Writer
<1>4. ASSUME NEW m \in Messages, CastBegin(m) \/ Cast(m) PROVE IInv'
  BY <1>4, CastBeginStep, OfferStep, CastEndStep DEF Cast
<1> QED
  BY <1>1, <1>2, <1>3, <1>4 DEF Next, Finished

\* It holds in every reachable state.
LEMMA Invariance == Spec => []IInv
<1> QED
  BY InitInv, StepInv, PTL DEF Spec

\* Every variable keeps its type and no buffer exceeds its capacity.
THEOREM TypeCorrect == Spec => []TypeOK
<1>1. IInv => TypeOK
  BY DEF IInv
<1> QED
  BY Invariance, <1>1, PTL

\* A broadcast never sends on a channel that Register has closed (hub.go).
THEOREM NoSendOnClosedHolds == Spec => []NoSendOnClosed
<1>1. IInv => NoSendOnClosed
  BY DEF IInv
<1> QED
  BY Invariance, <1>1, PTL

\* No client sees a later broadcast before an earlier one, or one twice,
\* however broadcasts overlap and buffers overflow.
THEOREM OrderKeptHolds == Spec => []OrderKept
<1>1. ASSUME IInv PROVE OrderKept
  <2>1. \A c \in Clients : \A i, j \in 1..Len(received[c]) :
          i < j => /\ received[c][i] \in Messages /\ received[c][j] \in Messages
                   /\ Ahead(c, received[c][i], received[c][j])
    BY <1>1 DEF IInv, TypeOK, Ahead
  <2> QED
    BY <1>1, <2>1 DEF IInv, Sequenced, OrderKept
<1> QED
  BY Invariance, <1>1, PTL
=============================================================================
