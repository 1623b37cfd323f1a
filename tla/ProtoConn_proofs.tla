-------------------------- MODULE ProtoConn_proofs --------------------------
(***************************************************************************)
(* Theorems about ProtoConn for every set of capabilities, request ids,    *)
(* application frames, every on_hello, every pattern of lost and torn      *)
(* frames and every table size: the types, the agreement on capabilities,  *)
(* the refinement of the abstract handshake, the stream table, the order   *)
(* of frames, the finality of CLOSED and the bound on automatic replies.   *)
(***************************************************************************)
EXTENDS ProtoConn, TLAPS, SequenceTheorems, WellFoundedInduction, FiniteSetTheorems

-----------------------------------------------------------------------------
(* Facts about the operators the actions are built from. *)

\* stream_index finds a slot that holds the id, or answers 0 when none does.
LEMMA StreamIndexFound ==
  ASSUME NEW table \in [Slot -> Ids], NEW id \in Ids
  PROVE  /\ stream_index(table, id) \in Nat
         /\ stream_index(table, id) # 0 =>
              /\ stream_index(table, id) \in Slot
              /\ table[stream_index(table, id)] = id
         /\ stream_index(table, id) = 0 => \A i \in Slot : table[i] # id
<1> DEFINE T == {i \in Slot : table[i] = id}
<1>1. Slot \subseteq Nat \ {0}
  BY BoundsAssumption DEF Slot
<1>2. CASE T = {}
  BY <1>2 DEF stream_index
<1>3. CASE T # {}
  <2>1. \E x \in T : \A y \in T : ~(<<y, x>> \in OpToRel(<, Nat))
    BY <1>1, <1>3, NatLessThanWellFounded, WFMin
  <2>a. OpToRel(<, Nat) = {ss \in Nat \X Nat : ss[1] < ss[2]}
    BY Zenon DEF OpToRel
  <2>b. ASSUME NEW x \in Nat, NEW y \in Nat, y < x
        PROVE  <<y, x>> \in {ss \in Nat \X Nat : ss[1] < ss[2]}
    BY <2>b
  <2>2. \E i \in Slot : table[i] = id /\ \A j \in Slot : table[j] = id => i <= j
    <3>1. PICK x \in T : \A y \in T : ~(<<y, x>> \in OpToRel(<, Nat))
      BY <2>1
    <3>2. \A y \in T : ~(y < x)
      BY <3>1, <2>a, <2>b, <1>1
    <3>3. QED
      BY <3>2, <1>1
  <2>3. QED
    BY <2>2, <1>1 DEF stream_index
<1>4. QED
  BY <1>2, <1>3

\* A frame an endpoint builds is a frame.
LEMMA NewFrameType ==
  ASSUME TypeOK, NEW e \in Endpoint, NEW t \in Type, NEW id \in Ids
  PROVE  NewFrame(e, t, id) \in Frame
<1>1. tx[e] + 1 \in Nat /\ Major[e] \in Nat
  BY MajorAssumption DEF TypeOK
<1>2. "none" \in Reason /\ {} \in SUBSET Caps
  BY DEF Reason
<1>3. QED
  BY <1>1, <1>2 DEF NewFrame, Frame

\* Filling in a field keeps a frame a frame.
LEMMA FrameExcept ==
  ASSUME NEW f \in Frame
  PROVE  /\ \A c \in SUBSET Caps : [f EXCEPT !.caps = c] \in Frame
         /\ \A r \in Reason : [f EXCEPT !.reason = r] \in Frame
         /\ \A v \in Nat, m \in Nat : [f EXCEPT !.ver = v, !.n = m] \in Frame
BY DEF Frame

\* What a send leaves on the wire is a sequence of chunks.
LEMMA WireType ==
  ASSUME NEW f \in Frame, NEW r \in Outcome
  PROVE  conn_send_unchecked(f, r) \in Seq(Chunk)
<1>1. Header(f) \in Chunk /\ Payload(f) \in Chunk
  BY DEF Header, Payload, Chunk
<1>2. QED
  BY <1>1 DEF conn_send_unchecked, Outcome

\* The frame at the head of a stream, and what remains after it.
LEMMA ArrivedType ==
  ASSUME TypeOK, NEW e \in Endpoint, chan[e] # << >>
  PROVE  /\ Arrived(e) \in Frame
         /\ Head(chan[e]) \in Chunk
         /\ Tail(chan[e]) \in Seq(Chunk)
<1>1. chan[e] \in Seq(Chunk)
  BY DEF TypeOK
<1>2. Head(chan[e]) \in Chunk /\ Tail(chan[e]) \in Seq(Chunk)
  BY <1>1, HeadTailProperties
<1>3. QED
  BY <1>2 DEF Arrived, Chunk

\* The peer of an endpoint is the other endpoint.
LEMMA PeerType == \A e \in Endpoint : Peer(e) \in Endpoint /\ Peer(e) # e
BY DEF Endpoint, Peer

\* A send, whatever its outcome, leaves the counters natural numbers.
LEMMA SendsType ==
  ASSUME TypeOK, NEW e \in Endpoint, NEW f, NEW r, Sends(e, f, r)
  PROVE  faults' \in Nat /\ tx' \in [Endpoint -> Nat]
BY DEF Sends, TypeOK

\* conn_set_closed leaves a state, a list of reasons and no half-read frame.
LEMMA SetClosedType ==
  ASSUME TypeOK, NEW e \in Endpoint, NEW reason \in Reason,
         conn_set_closed(e, reason)
  PROVE  /\ state' \in [Endpoint -> State]
         /\ closes' \in [Endpoint -> Seq(Reason)]
         /\ pending' \in [Endpoint -> Seq(Frame)]
<1>1. << >> \in Seq(Frame) /\ "CLOSED" \in State
  BY DEF State
<1>2. Append(closes[e], reason) \in Seq(Reason)
  BY AppendProperties DEF TypeOK
<1>3. QED
  BY <1>1, <1>2 DEF conn_set_closed, TypeOK

\* Taking a frame and sending an answer keeps both streams sequences of chunks.
LEMMA ConsumeType ==
  ASSUME TypeOK, NEW e \in Endpoint, chan[e] # << >>,
         NEW wire \in Seq(Chunk), Consume(e, wire)
  PROVE  /\ chan' \in [Endpoint -> Seq(Chunk)]
         /\ rx' \in [Endpoint -> Nat]
         /\ sends' \in [Endpoint -> Nat]
<1>1. Tail(chan[e]) \in Seq(Chunk) /\ Arrived(e).n \in Nat
  BY ArrivedType DEF Frame
<1>2. chan[Peer(e)] \o wire \in Seq(Chunk)
  BY PeerType, ConcatProperties DEF TypeOK
<1>3. QED
  BY <1>1, <1>2, PeerType DEF Consume, TypeOK

\* stream_begin keeps the table a table, of ids and ordinals.
LEMMA StreamBeginType ==
  ASSUME TypeOK, NEW e \in Endpoint, NEW f \in Frame,
         f.start => stream_begin_ok(e, f)
  PROVE  /\ stream_begin(e, f).table \in [Slot -> Ids]
         /\ stream_begin(e, f).seqs \in [Slot -> Nat]
<1>1. streams[e] \in [Slot -> Ids] /\ stream_seqs[e] \in [Slot -> Nat]
      /\ f.id \in Ids
  BY DEF TypeOK, Frame
<1>2. QED
  BY <1>1 DEF stream_begin

\* stream_end keeps the table a table.
LEMMA StreamEndType ==
  ASSUME NEW s \in [table: [Slot -> Ids], seqs: [Slot -> Nat]], NEW id \in Ids
  PROVE  stream_end(s, id) \in [table: [Slot -> Ids], seqs: [Slot -> Nat]]
BY IdsAssumption DEF stream_end

-----------------------------------------------------------------------------
(* Type correctness. *)

\* A new connection is well typed.
LEMMA InitType == Init => TypeOK
<1> SUFFICES ASSUME Init PROVE TypeOK
  OBVIOUS
<1>1. local_caps \in [Endpoint -> SUBSET Caps]
  BY CapsAssumption DEF Init
<1>2. pending \in [Endpoint -> Seq(Frame)] /\ chan \in [Endpoint -> Seq(Chunk)]
      /\ opened \in [Endpoint -> Seq(SUBSET Caps)]
      /\ closes \in [Endpoint -> Seq(Reason)]
  BY DEF Init
<1>3. QED
  BY <1>1, <1>2, IdsAssumption DEF Init, TypeOK, State, Reason

\* A rejected frame closes the connection and touches nothing else.
LEMMA RejectType ==
  ASSUME TypeOK, NEW e \in Endpoint, chan[e] # << >>, Reject(e)
  PROVE  /\ state' \in [Endpoint -> State]
         /\ closes' \in [Endpoint -> Seq(Reason)]
         /\ pending' \in [Endpoint -> Seq(Frame)]
         /\ chan' \in [Endpoint -> Seq(Chunk)]
         /\ rx' \in [Endpoint -> Nat]
         /\ sends' \in [Endpoint -> Nat]
         /\ faults' \in Nat /\ tx' \in [Endpoint -> Nat]
<1>1. << >> \in Seq(Chunk) /\ "protocol" \in Reason
  BY DEF Reason
<1>2. QED
  BY <1>1, ConsumeType, SetClosedType DEF Reject, SendsNothing, TypeOK

\* A handled frame, answered or not, leaves well-typed streams and states.
LEMMA OnMessageType ==
  ASSUME TypeOK, NEW e \in Endpoint, chan[e] # << >>, NEW f \in Frame,
         NEW b \in BOOLEAN, OnMessage(e, f, b)
  PROVE  /\ state' \in [Endpoint -> State]
         /\ closes' \in [Endpoint -> Seq(Reason)]
         /\ pending' \in [Endpoint -> Seq(Frame)]
         /\ chan' \in [Endpoint -> Seq(Chunk)]
         /\ rx' \in [Endpoint -> Nat]
         /\ sends' \in [Endpoint -> Nat]
         /\ faults' \in Nat /\ tx' \in [Endpoint -> Nat]
<1>1. << >> \in Seq(Chunk) /\ << >> \in Seq(Frame)
  OBVIOUS
<1>2. ASSUME NEW wire \in Seq(Chunk), Handled(e, wire)
      PROVE  /\ state' \in [Endpoint -> State]
             /\ closes' \in [Endpoint -> Seq(Reason)]
             /\ pending' \in [Endpoint -> Seq(Frame)]
             /\ chan' \in [Endpoint -> Seq(Chunk)]
             /\ rx' \in [Endpoint -> Nat]
             /\ sends' \in [Endpoint -> Nat]
  BY <1>1, <1>2, ConsumeType DEF Handled, TypeOK
<1>3. CASE SendsNothing /\ Handled(e, << >>)
  BY <1>1, <1>2, <1>3 DEF SendsNothing, TypeOK
<1>4. ASSUME NEW r \in Outcome,
             Sends(e, NewFrame(e, "ERROR", f.id), r),
             Handled(e, conn_send_unchecked(NewFrame(e, "ERROR", f.id), r))
      PROVE  /\ state' \in [Endpoint -> State]
             /\ closes' \in [Endpoint -> Seq(Reason)]
             /\ pending' \in [Endpoint -> Seq(Frame)]
             /\ chan' \in [Endpoint -> Seq(Chunk)]
             /\ rx' \in [Endpoint -> Nat]
             /\ sends' \in [Endpoint -> Nat]
             /\ faults' \in Nat /\ tx' \in [Endpoint -> Nat]
  <2>1. f.id \in Ids /\ "ERROR" \in Type
    BY DEF Frame, Type
  <2>2. NewFrame(e, "ERROR", f.id) \in Frame
    BY <2>1, NewFrameType
  <2>3. conn_send_unchecked(NewFrame(e, "ERROR", f.id), r) \in Seq(Chunk)
    BY <2>2, WireType
  <2>4. QED
    BY <1>2, <1>4, <2>3, SendsType
<1>5. QED
  BY <1>3, <1>4 DEF OnMessage

\* pai_proto_conn_start, whether the HELLO gets out or not, keeps the types.
LEMMA StartType == TypeOK /\ pai_proto_conn_start => TypeOK'
<1> SUFFICES ASSUME TypeOK, pai_proto_conn_start PROVE TypeOK'
  OBVIOUS
<1> DEFINE hello == [NewFrame("client", "HELLO", 1)
                       EXCEPT !.caps = local_caps["client"]]
<1>1. "client" \in Endpoint /\ "server" \in Endpoint /\ "HELLO" \in Type
      /\ 1 \in Ids
  BY IdsAssumption DEF Endpoint, Type
<1>2. hello \in Frame
  BY <1>1, NewFrameType, FrameExcept DEF TypeOK
<1>3. PICK r \in Outcome :
        /\ Sends("client", hello, r)
        /\ chan' = [chan EXCEPT !["server"] = @ \o conn_send_unchecked(hello, r)]
        /\ state' = IF r = "sent"
                      THEN [state EXCEPT !["client"] = "NEGOTIATING"] ELSE state
  BY DEF pai_proto_conn_start
<1>4. chan["server"] \o conn_send_unchecked(hello, r) \in Seq(Chunk)
  BY <1>1, <1>2, WireType, ConcatProperties DEF TypeOK
<1>5. chan' \in [Endpoint -> Seq(Chunk)] /\ state' \in [Endpoint -> State]
  BY <1>3, <1>4 DEF TypeOK, State
<1>6. faults' \in Nat /\ tx' \in [Endpoint -> Nat]
  BY <1>1, <1>3, SendsType
<1>7. QED
  BY <1>5, <1>6 DEF pai_proto_conn_start, TypeOK, capVars, streamVars

\* pai_proto_conn_send keeps the types.
LEMMA SendType ==
  ASSUME TypeOK, NEW e \in Endpoint, pai_proto_conn_send(e)
  PROVE  TypeOK'
<1>1. PICK g \in AppFrames[e], r \in Outcome :
        LET f == [g EXCEPT !.ver = Major[e], !.n = tx[e] + 1] IN
        /\ Sends(e, f, r)
        /\ chan' = [chan EXCEPT ![Peer(e)] = @ \o conn_send_unchecked(f, r)]
  BY DEF pai_proto_conn_send
<1> DEFINE f == [g EXCEPT !.ver = Major[e], !.n = tx[e] + 1]
<1>2. f \in Frame
  <2>1. g \in Frame /\ Major[e] \in Nat /\ tx[e] + 1 \in Nat
    BY FramesAssumption, MajorAssumption DEF TypeOK
  <2>2. QED
    BY <2>1, FrameExcept
<1>3. chan[Peer(e)] \o conn_send_unchecked(f, r) \in Seq(Chunk)
  BY <1>2, PeerType, WireType, ConcatProperties DEF TypeOK
<1>4. chan' \in [Endpoint -> Seq(Chunk)]
  BY <1>1, <1>3 DEF TypeOK
<1>5. faults' \in Nat /\ tx' \in [Endpoint -> Nat]
  BY <1>1, SendsType
<1>6. sends' \in [Endpoint -> Nat]
  BY DEF pai_proto_conn_send, TypeOK
<1>7. QED
  BY <1>4, <1>5, <1>6 DEF pai_proto_conn_send, TypeOK, capVars, streamVars

\* pai_proto_conn_destroy keeps the types.
LEMMA DestroyType ==
  ASSUME TypeOK, NEW e \in Endpoint, pai_proto_conn_destroy(e)
  PROVE  TypeOK'
<1>1. << >> \in Seq(Frame)
  OBVIOUS
<1>2. state' \in [Endpoint -> State] /\ pending' \in [Endpoint -> Seq(Frame)]
  BY <1>1 DEF pai_proto_conn_destroy, TypeOK, State
<1>3. QED
  BY <1>2 DEF pai_proto_conn_destroy, TypeOK, SendsNothing, capVars, streamVars

\* A reset that loses the end of a stream keeps the types.
LEMMA ResetType ==
  ASSUME TypeOK, NEW e \in Endpoint, Reset(e)
  PROVE  TypeOK'
<1>1. PICK k \in 0..(Len(chan[e]) - 1) :
        chan' = [chan EXCEPT ![e] = SubSeq(@, 1, k)]
  BY DEF Reset
<1>2. SubSeq(chan[e], 1, k) \in Seq(Chunk)
  BY SubSeqProperties DEF TypeOK
<1>3. chan' \in [Endpoint -> Seq(Chunk)]
  BY <1>1, <1>2 DEF TypeOK
<1>4. faults' \in Nat
  BY DEF Reset, TypeOK
<1>5. QED
  BY <1>3, <1>4 DEF Reset, TypeOK, capVars, streamVars

\* Reading a header, whether its payload can be allocated or not.
LEMMA RecvHeaderType ==
  ASSUME TypeOK, NEW e \in Endpoint, RecvHeader(e)
  PROVE  TypeOK'
<1>1. Arrived(e) \in Frame /\ Tail(chan[e]) \in Seq(Chunk)
  BY ArrivedType DEF RecvHeader
<1>2. chan' \in [Endpoint -> Seq(Chunk)]
  BY <1>1 DEF RecvHeader, TypeOK
<1>3. CASE /\ pending' = [pending EXCEPT ![e] = <<Arrived(e)>>]
           /\ SendsNothing
           /\ UNCHANGED <<state, closes>>
  <2>1. <<Arrived(e)>> \in Seq(Frame)
    BY <1>1
  <2>2. pending' \in [Endpoint -> Seq(Frame)]
    BY <1>3, <2>1 DEF TypeOK
  <2>3. QED
    BY <1>2, <1>3, <2>2
    DEF RecvHeader, TypeOK, SendsNothing, capVars, streamVars
<1>4. CASE /\ faults' = faults + 1
           /\ conn_set_closed(e, "app")
           /\ UNCHANGED tx
  <2>1. "app" \in Reason
    BY DEF Reason
  <2>2. /\ state' \in [Endpoint -> State]
        /\ closes' \in [Endpoint -> Seq(Reason)]
        /\ pending' \in [Endpoint -> Seq(Frame)]
    BY <1>4, <2>1, SetClosedType
  <2>3. faults' \in Nat /\ tx' \in [Endpoint -> Nat]
    BY <1>4 DEF TypeOK
  <2>4. UNCHANGED <<sends, rx, capVars, streamVars>>
    BY DEF RecvHeader
  <2>5. QED
    BY <1>2, <2>2, <2>3, <2>4 DEF TypeOK, capVars, streamVars
<1>5. QED
  BY <1>3, <1>4 DEF RecvHeader

\* Reading another frame's bytes as the payload of a torn one.
LEMMA RecvTornPayloadType ==
  ASSUME TypeOK, NEW e \in Endpoint, RecvTornPayload(e)
  PROVE  TypeOK'
<1>1. chan' \in [Endpoint -> Seq(Chunk)]
  BY ArrivedType DEF RecvTornPayload, TypeOK
<1>2. "protocol" \in Reason
  BY DEF Reason
<1>3. /\ state' \in [Endpoint -> State]
      /\ closes' \in [Endpoint -> Seq(Reason)]
      /\ pending' \in [Endpoint -> Seq(Frame)]
  BY <1>2, SetClosedType DEF RecvTornPayload, TypeOK
<1>4. QED
  BY <1>1, <1>3
  DEF RecvTornPayload, TypeOK, SendsNothing, capVars, streamVars

\* Finding the end of the stream.
LEMMA RecvEofType ==
  ASSUME TypeOK, NEW e \in Endpoint, RecvEof(e)
  PROVE  TypeOK'
<1>1. (IF pending[e] = << >> THEN "gone" ELSE "protocol") \in Reason
  BY DEF Reason
<1>2. /\ state' \in [Endpoint -> State]
      /\ closes' \in [Endpoint -> Seq(Reason)]
      /\ pending' \in [Endpoint -> Seq(Frame)]
  BY <1>1, SetClosedType DEF RecvEof
<1>3. QED
  BY <1>2 DEF RecvEof, TypeOK, SendsNothing, capVars, streamVars

\* A rejected frame that changes neither capabilities nor streams.
LEMMA RejectOnlyType ==
  ASSUME TypeOK, NEW e \in Endpoint, chan[e] # << >>, Reject(e),
         UNCHANGED <<capVars, streamVars>>
  PROVE  TypeOK'
BY RejectType DEF TypeOK, capVars, streamVars

\* Refusing a HELLO, whatever becomes of the NACK.
LEMMA RefuseHelloType ==
  ASSUME TypeOK, NEW f \in Frame, NEW why \in Reason, NEW reason \in Reason,
         chan["server"] # << >>, conn_refuse_hello(f, why, reason)
  PROVE  TypeOK'
<1> DEFINE nack == [conn_send_negotiation(f, "HELLO_NACK") EXCEPT !.reason = why]
<1>1. PICK r \in Outcome : /\ Sends("server", nack, r)
                           /\ Consume("server", conn_send_unchecked(nack, r))
                           /\ conn_set_closed("server", reason)
                           /\ UNCHANGED <<capVars, streamVars>>
  BY DEF conn_refuse_hello
<1>2. "server" \in Endpoint /\ f.id \in Ids /\ "HELLO_NACK" \in Type
  BY DEF Endpoint, Frame, Type
<1>3. nack \in Frame
  BY <1>2, NewFrameType, FrameExcept DEF conn_send_negotiation
<1>4. conn_send_unchecked(nack, r) \in Seq(Chunk)
  BY <1>3, WireType
<1> HIDE DEF nack
<1>5. /\ chan' \in [Endpoint -> Seq(Chunk)]
      /\ rx' \in [Endpoint -> Nat]
      /\ sends' \in [Endpoint -> Nat]
  BY <1>1, <1>2, <1>4, ConsumeType
<1>6. faults' \in Nat /\ tx' \in [Endpoint -> Nat]
  BY <1>1, <1>2, SendsType
<1>7. /\ state' \in [Endpoint -> State]
      /\ closes' \in [Endpoint -> Seq(Reason)]
      /\ pending' \in [Endpoint -> Seq(Frame)]
  BY <1>1, <1>2, SetClosedType
<1>8. QED
  BY <1>1, <1>5, <1>6, <1>7 DEF TypeOK, capVars, streamVars

\* Accepting a HELLO, whatever becomes of the ACK.
LEMMA AcceptHelloType ==
  ASSUME TypeOK, NEW f \in Frame, NEW mask \in OnHello,
         chan["server"] # << >>, conn_accept_hello(f, mask)
  PROVE  TypeOK'
<1> DEFINE agreed == conn_agree(mask, f.caps)
           ack == [conn_send_negotiation(f, "HELLO_ACK") EXCEPT !.caps = agreed]
<1>1. PICK r \in Outcome :
        /\ Sends("server", ack, r)
        /\ Consume("server", conn_send_unchecked(ack, r))
        /\ local_caps' = [local_caps EXCEPT !["server"] = mask \cap Known]
        /\ remote_caps' = [remote_caps EXCEPT !["server"] = f.caps \cap Known]
        /\ negotiated_caps' = [negotiated_caps EXCEPT !["server"] = agreed]
        /\ opened' = [opened EXCEPT !["server"] = <<agreed>>]
        /\ IF r = "sent"
             THEN /\ state' = [state EXCEPT !["server"] = "OPEN"]
                  /\ pending' = [pending EXCEPT !["server"] = << >>]
                  /\ UNCHANGED closes
             ELSE conn_set_closed("server", "protocol")
        /\ UNCHANGED <<nack_reason, streamVars>>
  BY DEF conn_accept_hello
<1>2. /\ "server" \in Endpoint /\ f.id \in Ids /\ "HELLO_ACK" \in Type
      /\ "protocol" \in Reason /\ "OPEN" \in State /\ << >> \in Seq(Frame)
  BY DEF Endpoint, Frame, Type, Reason, State
<1>3. /\ agreed \in SUBSET Caps
      /\ mask \cap Known \in SUBSET Caps
      /\ f.caps \cap Known \in SUBSET Caps
  BY CapsAssumption DEF conn_agree, Caps
<1>4. ack \in Frame
  BY <1>2, <1>3, NewFrameType, FrameExcept DEF conn_send_negotiation
<1>5. conn_send_unchecked(ack, r) \in Seq(Chunk)
  BY <1>4, WireType
<1> HIDE DEF agreed, ack
<1>6. /\ chan' \in [Endpoint -> Seq(Chunk)]
      /\ rx' \in [Endpoint -> Nat]
      /\ sends' \in [Endpoint -> Nat]
  BY <1>1, <1>2, <1>5, ConsumeType
<1>7. faults' \in Nat /\ tx' \in [Endpoint -> Nat]
  BY <1>1, <1>2, SendsType
<1>8. /\ state' \in [Endpoint -> State]
      /\ closes' \in [Endpoint -> Seq(Reason)]
      /\ pending' \in [Endpoint -> Seq(Frame)]
  <2>1. CASE r = "sent"
    <3>1. /\ state' = [state EXCEPT !["server"] = "OPEN"]
          /\ pending' = [pending EXCEPT !["server"] = << >>]
          /\ closes' = closes
      BY <1>1, <2>1
    <3>2. QED
      BY <1>2, <3>1 DEF TypeOK
  <2>2. CASE r # "sent"
    BY <1>1, <1>2, <2>2, SetClosedType
  <2>3. QED
    BY <2>1, <2>2
<1>9. <<agreed>> \in Seq(SUBSET Caps)
  BY <1>3
<1>10. opened' \in [Endpoint -> Seq(SUBSET Caps)]
  BY <1>1, <1>2, <1>9 DEF TypeOK
<1>11. QED
  BY <1>1, <1>3, <1>6, <1>7, <1>8, <1>10 DEF TypeOK, streamVars

\* The server's handling of a HELLO.
LEMMA HelloType == TypeOK /\ conn_handle_hello_server => TypeOK'
<1> SUFFICES ASSUME TypeOK, conn_handle_hello_server PROVE TypeOK'
  OBVIOUS
<1>1. "server" \in Endpoint /\ {"version", "caps", "protocol", "normal"} \subseteq Reason
  BY DEF Endpoint, Reason
<1>2. chan["server"] # << >>
  BY DEF conn_handle_hello_server, PreOpen, FrameComplete
<1>3. Arrived("server") \in Frame
  BY <1>1, <1>2, ArrivedType
<1>4. QED
  BY <1>1, <1>2, <1>3, RejectOnlyType, RefuseHelloType, AcceptHelloType
  DEF conn_handle_hello_server

\* The client's handling of a HELLO_ACK.
LEMMA AckType == TypeOK /\ conn_handle_ack_client => TypeOK'
<1> SUFFICES ASSUME TypeOK, conn_handle_ack_client PROVE TypeOK'
  OBVIOUS
<1> DEFINE f == Arrived("client")
<1>1. "client" \in Endpoint /\ "OPEN" \in State
  BY DEF Endpoint, State
<1>2. chan["client"] # << >>
  BY DEF conn_handle_ack_client, PreOpen, FrameComplete
<1>3. f \in Frame
  BY <1>1, <1>2, ArrivedType
<1>4. CASE ~(f.ver = Major["client"] /\ f.good)
  BY <1>1, <1>2, <1>4, RejectOnlyType DEF conn_handle_ack_client
<1>5. CASE f.ver = Major["client"] /\ f.good
  <2>1. f.caps \in SUBSET Caps /\ f.caps \cap Known \in SUBSET Caps
    BY <1>3 DEF Frame
  <2>2. << >> \in Seq(Chunk) /\ << >> \in Seq(Frame)
        /\ <<f.caps \cap Known>> \in Seq(SUBSET Caps)
    BY <2>1
  <2>3. /\ chan' \in [Endpoint -> Seq(Chunk)]
        /\ rx' \in [Endpoint -> Nat]
        /\ sends' \in [Endpoint -> Nat]
    BY <1>1, <1>2, <1>5, <2>2, ConsumeType DEF conn_handle_ack_client
  <2>4. opened' \in [Endpoint -> Seq(SUBSET Caps)]
    <3>1. opened' = [opened EXCEPT !["client"] = <<f.caps \cap Known>>]
      BY <1>5 DEF conn_handle_ack_client
    <3>2. QED
      BY <1>1, <2>2, <3>1 DEF TypeOK
  <2>5. state' \in [Endpoint -> State] /\ pending' \in [Endpoint -> Seq(Frame)]
    <3>1. /\ state' = [state EXCEPT !["client"] = "OPEN"]
          /\ pending' = [pending EXCEPT !["client"] = << >>]
      BY <1>5 DEF conn_handle_ack_client
    <3>2. QED
      BY <1>1, <2>2, <3>1 DEF TypeOK
  <2>6. /\ remote_caps' \in [Endpoint -> SUBSET Caps]
        /\ negotiated_caps' \in [Endpoint -> SUBSET Caps]
    <3>1. /\ remote_caps' = [remote_caps EXCEPT !["client"] = f.caps]
          /\ negotiated_caps' = [negotiated_caps EXCEPT !["client"] = f.caps \cap Known]
      BY <1>5 DEF conn_handle_ack_client
    <3>2. QED
      BY <1>1, <2>1, <3>1 DEF TypeOK
  <2>7. QED
    BY <1>5, <2>3, <2>4, <2>5, <2>6
    DEF conn_handle_ack_client, TypeOK, SendsNothing, streamVars
<1>6. QED
  BY <1>4, <1>5

\* The client's handling of a HELLO_NACK.
LEMMA NackType == TypeOK /\ conn_handle_nack_client => TypeOK'
<1> SUFFICES ASSUME TypeOK, conn_handle_nack_client PROVE TypeOK'
  OBVIOUS
<1>1. "client" \in Endpoint /\ "normal" \in Reason /\ << >> \in Seq(Chunk)
  BY DEF Endpoint, Reason
<1>2. chan["client"] # << >>
  BY DEF conn_handle_nack_client, PreOpen, FrameComplete
<1>3. Arrived("client").reason \in Reason
  BY <1>1, <1>2, ArrivedType DEF Frame
<1>4. nack_reason' \in [Endpoint -> Reason]
  BY <1>1, <1>3 DEF conn_handle_nack_client, TypeOK
<1>5. /\ chan' \in [Endpoint -> Seq(Chunk)]
      /\ rx' \in [Endpoint -> Nat]
      /\ sends' \in [Endpoint -> Nat]
  BY <1>1, <1>2, ConsumeType DEF conn_handle_nack_client
<1>6. /\ state' \in [Endpoint -> State]
      /\ closes' \in [Endpoint -> Seq(Reason)]
      /\ pending' \in [Endpoint -> Seq(Frame)]
  BY <1>1, SetClosedType DEF conn_handle_nack_client
<1>7. QED
  BY <1>4, <1>5, <1>6
  DEF conn_handle_nack_client, TypeOK, SendsNothing, streamVars

\* Answering a PING.
LEMMA PingType ==
  ASSUME TypeOK, NEW e \in Endpoint, conn_handle_ping(e)
  PROVE  TypeOK'
<1> DEFINE pong == NewFrame(e, "PONG", Arrived(e).id)
<1>1. chan[e] # << >>
  BY DEF conn_handle_ping, OpenFrame, FrameComplete
<1>2. Arrived(e).id \in Ids /\ "PONG" \in Type /\ "protocol" \in Reason
  BY <1>1, ArrivedType DEF Frame, Type, Reason
<1>3. pong \in Frame
  BY <1>2, NewFrameType
<1>4. PICK r \in Outcome :
        /\ Sends(e, pong, r)
        /\ IF r = "sent"
             THEN Handled(e, conn_send_unchecked(pong, r))
             ELSE /\ Consume(e, << >>)
                  /\ conn_set_closed(e, "protocol")
  BY DEF conn_handle_ping
<1>5. conn_send_unchecked(pong, r) \in Seq(Chunk) /\ << >> \in Seq(Chunk)
  BY <1>3, WireType
<1> HIDE DEF pong
<1>6. /\ chan' \in [Endpoint -> Seq(Chunk)]
      /\ rx' \in [Endpoint -> Nat]
      /\ sends' \in [Endpoint -> Nat]
  BY <1>1, <1>4, <1>5, ConsumeType DEF Handled
<1>7. << >> \in Seq(Frame)
  OBVIOUS
<1>8. /\ state' \in [Endpoint -> State]
      /\ closes' \in [Endpoint -> Seq(Reason)]
      /\ pending' \in [Endpoint -> Seq(Frame)]
  BY <1>2, <1>4, <1>7, SetClosedType DEF Handled, TypeOK
<1>9. faults' \in Nat /\ tx' \in [Endpoint -> Nat]
  BY <1>4, SendsType
<1>10. QED
  BY <1>6, <1>8, <1>9 DEF conn_handle_ping, TypeOK, capVars, streamVars

\* Being told of a close.
LEMMA CloseType ==
  ASSUME TypeOK, NEW e \in Endpoint, conn_handle_close(e)
  PROVE  TypeOK'
<1>1. chan[e] # << >> /\ << >> \in Seq(Chunk)
  BY DEF conn_handle_close, OpenFrame, FrameComplete
<1>2. Arrived(e).reason \in Reason
  BY <1>1, ArrivedType DEF Frame
<1>3. /\ chan' \in [Endpoint -> Seq(Chunk)]
      /\ rx' \in [Endpoint -> Nat]
      /\ sends' \in [Endpoint -> Nat]
  BY <1>1, ConsumeType DEF conn_handle_close
<1>4. /\ state' \in [Endpoint -> State]
      /\ closes' \in [Endpoint -> Seq(Reason)]
      /\ pending' \in [Endpoint -> Seq(Frame)]
  BY <1>2, SetClosedType DEF conn_handle_close
<1>5. QED
  BY <1>3, <1>4 DEF conn_handle_close, TypeOK, SendsNothing, capVars, streamVars

\* A refused stream frame, which may have opened its stream already.
LEMMA RejectStreamType ==
  ASSUME TypeOK, NEW e \in Endpoint, conn_reject_stream(e)
  PROVE  TypeOK'
<1> DEFINE f == Arrived(e)
<1>1. chan[e] # << >>
  BY DEF conn_reject_stream, StreamFrame, OpenFrame, FrameComplete
<1>2. f \in Frame /\ f.id \in Ids
  BY <1>1, ArrivedType DEF Frame
<1>3. Reject(e) /\ UNCHANGED capVars
  BY DEF conn_reject_stream
<1>4. /\ state' \in [Endpoint -> State]
      /\ closes' \in [Endpoint -> Seq(Reason)]
      /\ pending' \in [Endpoint -> Seq(Frame)]
      /\ chan' \in [Endpoint -> Seq(Chunk)]
      /\ rx' \in [Endpoint -> Nat]
      /\ sends' \in [Endpoint -> Nat]
      /\ faults' \in Nat /\ tx' \in [Endpoint -> Nat]
  BY <1>1, <1>3, RejectType
<1>5. /\ streams' \in [Endpoint -> [Slot -> Ids]]
      /\ stream_seqs' \in [Endpoint -> [Slot -> Nat]]
      /\ view' \in [Endpoint -> SUBSET Ids]
      /\ tokens' \in [Endpoint -> [Ids -> Nat]]
  <2>1. CASE f.start /\ stream_begin_ok(e, f)
    <3>1. /\ streams' = [streams EXCEPT ![e] = stream_begin(e, f).table]
          /\ stream_seqs' = [stream_seqs EXCEPT ![e] = stream_begin(e, f).seqs]
          /\ view' = [view EXCEPT ![e] = @ \cup {f.id}]
          /\ tokens' = [tokens EXCEPT ![e][f.id] = 0]
      BY <2>1 DEF conn_reject_stream
    <3>2. /\ stream_begin(e, f).table \in [Slot -> Ids]
          /\ stream_begin(e, f).seqs \in [Slot -> Nat]
      BY <1>2, <2>1, StreamBeginType
    <3>3. QED
      BY <1>2, <3>1, <3>2 DEF TypeOK
  <2>2. CASE ~(f.start /\ stream_begin_ok(e, f))
    BY <2>2 DEF conn_reject_stream, TypeOK, streamVars
  <2>3. QED
    BY <2>1, <2>2
<1>6. QED
  BY <1>3, <1>4, <1>5 DEF TypeOK, capVars

\* A stream frame taken, with or without an answer.
LEMMA HandleStreamType ==
  ASSUME TypeOK, NEW e \in Endpoint, conn_handle_stream(e)
  PROVE  TypeOK'
<1> DEFINE f == Arrived(e)
           terminal == f.end \/ f.type = "STREAM_CLOSE"
           s == stream_begin(e, f)
           i == stream_index(s.table, f.id)
           s2 == IF terminal THEN stream_end(s, f.id)
                 ELSE IF f.type = "TOKEN"
                   THEN [s EXCEPT !.seqs[i] = @ + 1] ELSE s
           count == (IF f.start THEN 0 ELSE tokens[e][f.id])
                      + (IF f.type = "TOKEN" THEN 1 ELSE 0)
<1>1. chan[e] # << >>
  BY DEF conn_handle_stream, StreamFrame, OpenFrame, FrameComplete
<1>2. f \in Frame /\ f.id \in Ids
  BY <1>1, ArrivedType DEF Frame
<1>3. /\ ~StreamRefused(e, f)
      /\ streams' = [streams EXCEPT ![e] = s2.table]
      /\ stream_seqs' = [stream_seqs EXCEPT ![e] = s2.seqs]
      /\ view' = [view EXCEPT ![e] =
                    IF terminal THEN @ \ {f.id}
                    ELSE IF f.start THEN @ \cup {f.id} ELSE @]
      /\ tokens' = [tokens EXCEPT ![e][f.id] = IF terminal THEN 0 ELSE count]
      /\ OnMessage(e, f, f.type # "STREAM_DATA")
      /\ UNCHANGED capVars
  BY DEF conn_handle_stream
<1>4. /\ state' \in [Endpoint -> State]
      /\ closes' \in [Endpoint -> Seq(Reason)]
      /\ pending' \in [Endpoint -> Seq(Frame)]
      /\ chan' \in [Endpoint -> Seq(Chunk)]
      /\ rx' \in [Endpoint -> Nat]
      /\ sends' \in [Endpoint -> Nat]
      /\ faults' \in Nat /\ tx' \in [Endpoint -> Nat]
  BY <1>1, <1>2, <1>3, OnMessageType
<1>5. s \in [table: [Slot -> Ids], seqs: [Slot -> Nat]]
  <2>1. s.table \in [Slot -> Ids] /\ s.seqs \in [Slot -> Nat]
    BY <1>2, <1>3, StreamBeginType DEF StreamRefused
  <2>2. s = [table |-> s.table, seqs |-> s.seqs]
    BY DEF stream_begin
  <2>3. QED
    BY <2>1, <2>2
<1>6. s2 \in [table: [Slot -> Ids], seqs: [Slot -> Nat]]
  <2>1. stream_end(s, f.id) \in [table: [Slot -> Ids], seqs: [Slot -> Nat]]
    BY <1>2, <1>5, StreamEndType
  <2> HIDE DEF s
  <2>2. [s EXCEPT !.seqs[i] = @ + 1] \in [table: [Slot -> Ids], seqs: [Slot -> Nat]]
    BY <1>5
  <2>3. QED
    BY <1>5, <2>1, <2>2
<1> HIDE DEF s2
<1>7. streams' \in [Endpoint -> [Slot -> Ids]]
      /\ stream_seqs' \in [Endpoint -> [Slot -> Nat]]
  BY <1>3, <1>6 DEF TypeOK
<1>8. view' \in [Endpoint -> SUBSET Ids]
  BY <1>2, <1>3 DEF TypeOK
<1>9. tokens' \in [Endpoint -> [Ids -> Nat]]
  <2>1. tokens[e][f.id] \in Nat
    BY <1>2 DEF TypeOK
  <2>2. (IF terminal THEN 0 ELSE count) \in Nat
    BY <2>1
  <2>3. QED
    BY <1>2, <1>3, <2>2 DEF TypeOK
<1>10. QED
  BY <1>3, <1>4, <1>7, <1>8, <1>9 DEF TypeOK, capVars

\* A message for the application; COMPLETE frees its stream.
LEMMA HandleMessageType ==
  ASSUME TypeOK, NEW e \in Endpoint, conn_handle_message(e)
  PROVE  TypeOK'
<1> DEFINE f == Arrived(e)
           s == [table |-> streams[e], seqs |-> stream_seqs[e]]
           s2 == IF f.type = "COMPLETE" THEN stream_end(s, f.id) ELSE s
<1>1. chan[e] # << >>
  BY DEF conn_handle_message, OpenFrame, FrameComplete
<1>2. f \in Frame /\ f.id \in Ids
  BY <1>1, ArrivedType DEF Frame
<1>3. /\ streams' = [streams EXCEPT ![e] = s2.table]
      /\ stream_seqs' = [stream_seqs EXCEPT ![e] = s2.seqs]
      /\ view' = [view EXCEPT ![e] =
                    IF f.type = "COMPLETE" THEN @ \ {f.id} ELSE @]
      /\ tokens' = IF f.type = "COMPLETE"
                     THEN [tokens EXCEPT ![e][f.id] = 0] ELSE tokens
      /\ OnMessage(e, f, replies_to(f))
      /\ UNCHANGED capVars
  BY DEF conn_handle_message
<1>4. replies_to(f) \in BOOLEAN
  BY DEF replies_to
<1>5. /\ state' \in [Endpoint -> State]
      /\ closes' \in [Endpoint -> Seq(Reason)]
      /\ pending' \in [Endpoint -> Seq(Frame)]
      /\ chan' \in [Endpoint -> Seq(Chunk)]
      /\ rx' \in [Endpoint -> Nat]
      /\ sends' \in [Endpoint -> Nat]
      /\ faults' \in Nat /\ tx' \in [Endpoint -> Nat]
  BY <1>1, <1>2, <1>3, <1>4, OnMessageType
<1>6. s \in [table: [Slot -> Ids], seqs: [Slot -> Nat]]
  BY DEF TypeOK
<1>7. s2 \in [table: [Slot -> Ids], seqs: [Slot -> Nat]]
  BY <1>2, <1>6, StreamEndType
<1> HIDE DEF s2
<1>8. streams' \in [Endpoint -> [Slot -> Ids]]
      /\ stream_seqs' \in [Endpoint -> [Slot -> Nat]]
  BY <1>3, <1>7 DEF TypeOK
<1>9. view' \in [Endpoint -> SUBSET Ids] /\ tokens' \in [Endpoint -> [Ids -> Nat]]
  BY <1>2, <1>3 DEF TypeOK
<1>10. QED
  BY <1>3, <1>5, <1>8, <1>9 DEF TypeOK, capVars

\* Every turn of poll's loop keeps the types.
LEMMA PollType ==
  ASSUME TypeOK, NEW e \in Endpoint, pai_proto_conn_poll(e)
  PROVE  TypeOK'
<1>1. CASE conn_handle_preopen(e) \/ conn_handle_misplaced(e)
  <2>1. chan[e] # << >> /\ Reject(e) /\ UNCHANGED <<capVars, streamVars>>
    BY <1>1 DEF conn_handle_preopen, conn_handle_misplaced, PreOpen,
       FrameComplete
  <2>2. QED
    BY <2>1, RejectOnlyType
<1>2. QED
  BY <1>1, RecvHeaderType, RecvTornPayloadType, RecvEofType, HelloType, AckType,
     NackType, PingType, CloseType, RejectStreamType, HandleStreamType,
     HandleMessageType
  DEF pai_proto_conn_poll

\* Every step keeps the types.
LEMMA NextType == TypeOK /\ [Next]_vars => TypeOK'
<1> SUFFICES ASSUME TypeOK, [Next]_vars PROVE TypeOK'
  OBVIOUS
<1>1. CASE UNCHANGED vars
  BY <1>1 DEF TypeOK, vars
<1>2. CASE Next
  BY <1>2, StartType, SendType, DestroyType, PollType, ResetType DEF Next
<1>3. QED
  BY <1>1, <1>2

\* Whatever the application sends and whatever is lost or torn, every state
\* of the connection is well typed: what is on the wire are whole headers and
\* payloads of frames, and the tables hold only request ids, capabilities and
\* close reasons the code names.
THEOREM TypeCorrect == Spec => []TypeOK
BY InitType, NextType, PTL DEF Spec

-----------------------------------------------------------------------------
(* What reading from, writing to and losing the end of a stream leave on it. *)

\* Every chunk of the rest of a stream was on the stream.
LEMMA TailChunks ==
  ASSUME NEW s \in Seq(Chunk), s # << >>
  PROVE  \A i \in DOMAIN Tail(s) : \E j \in DOMAIN s : Tail(s)[i] = s[j]
<1> SUFFICES ASSUME NEW i \in DOMAIN Tail(s)
             PROVE  \E j \in DOMAIN s : Tail(s)[i] = s[j]
  OBVIOUS
<1>1. Len(Tail(s)) = Len(s) - 1 /\ Tail(s)[i] = s[i + 1] /\ i \in 1..Len(Tail(s))
  BY HeadTailProperties
<1>2. i + 1 \in DOMAIN s
  BY <1>1
<1>3. QED
  BY <1>1, <1>2

\* A longer stream holds the old chunks, in front, and the new ones.
LEMMA ConcatChunks ==
  ASSUME NEW s \in Seq(Chunk), NEW t \in Seq(Chunk)
  PROVE  /\ \A i \in DOMAIN (s \o t) :
              \/ \E j \in DOMAIN s : (s \o t)[i] = s[j]
              \/ \E j \in DOMAIN t : (s \o t)[i] = t[j]
         /\ s # << >> => s \o t # << >> /\ (s \o t)[1] = s[1]
         /\ s = << >> => s \o t = t
         /\ t = << >> => s \o t = s
<1>1. /\ Len(s \o t) = Len(s) + Len(t)
      /\ s \o t \in Seq(Chunk)
      /\ \A i \in 1..(Len(s) + Len(t)) :
           (s \o t)[i] = IF i <= Len(s) THEN s[i] ELSE t[i - Len(s)]
  BY ConcatProperties
<1>2. \A i \in DOMAIN (s \o t) :
        \/ \E j \in DOMAIN s : (s \o t)[i] = s[j]
        \/ \E j \in DOMAIN t : (s \o t)[i] = t[j]
  <2> SUFFICES ASSUME NEW i \in DOMAIN (s \o t)
               PROVE  \/ \E j \in DOMAIN s : (s \o t)[i] = s[j]
                      \/ \E j \in DOMAIN t : (s \o t)[i] = t[j]
    OBVIOUS
  <2>1. i \in 1..(Len(s) + Len(t))
    BY <1>1
  <2>2. CASE i <= Len(s)
    BY <1>1, <2>1, <2>2
  <2>3. CASE ~(i <= Len(s))
    <3>1. i - Len(s) \in DOMAIN t
      BY <2>1, <2>3
    <3>2. QED
      BY <1>1, <2>1, <2>3, <3>1
  <2>4. QED
    BY <2>2, <2>3
<1>3. s # << >> => s \o t # << >> /\ (s \o t)[1] = s[1]
  BY <1>1, EmptySeq
<1>4. (s = << >> => s \o t = t) /\ (t = << >> => s \o t = s)
  BY ConcatEmptySeq
<1>5. QED
  BY <1>2, <1>3, <1>4

\* What is left of a stream that lost its end is its beginning.
LEMMA PrefixChunks ==
  ASSUME NEW s \in Seq(Chunk), NEW k \in 0..(Len(s) - 1)
  PROVE  LET p == SubSeq(s, 1, k) IN
         /\ \A i \in DOMAIN p : i \in DOMAIN s /\ p[i] = s[i]
         /\ p # << >> => p[1] = s[1] /\ s # << >>
<1> DEFINE p == SubSeq(s, 1, k)
<1>1. p \in Seq(Chunk) /\ Len(p) = k /\ \A i \in 1..k : p[i] = s[i]
  BY SubSeqProperties
<1>2. \A i \in DOMAIN p : i \in DOMAIN s /\ p[i] = s[i]
  BY <1>1
<1>3. p # << >> => p[1] = s[1] /\ s # << >>
  BY <1>1, EmptySeq
<1>4. QED
  BY <1>2, <1>3

-----------------------------------------------------------------------------
(* The invariant holds at first and is kept by the three kinds of step that *)
(* neither ask, answer nor learn the answer.                               *)

\* A new connection satisfies the invariant.
LEMMA InitInv == Init => NegotiationInv
BY DEF Init, NegotiationInv, AgreedOnceOpen, AskedBeforeGrant, AnswerFirst,
       Opening, Endpoint

\* An end that closes, having read at most one chunk and written nothing.
LEMMA ClosingInv ==
  ASSUME TypeOK, NegotiationInv, NEW e \in Endpoint,
         state' = [state EXCEPT ![e] = "CLOSED"],
         pending'[Peer(e)] = pending[Peer(e)],
         chan' = chan \/ (chan[e] # << >> /\ chan' = [chan EXCEPT ![e] = Tail(@)]),
         tx' = tx, UNCHANGED <<opened, local_caps>>
  PROVE  NegotiationInv'
<1>1. "client" \in Endpoint /\ "server" \in Endpoint
  BY DEF Endpoint
<1>2. AgreedOnceOpen'
  BY <1>1 DEF TypeOK, NegotiationInv, AgreedOnceOpen, Opening
<1>3. CASE e = "client"
  <2>1. /\ chan'["server"] = chan["server"]
        /\ state'["server"] = state["server"] /\ state'["client"] = "CLOSED"
    BY <1>1, <1>3 DEF TypeOK
  <2>2. AskedBeforeGrant'
    BY <2>1 DEF NegotiationInv, AskedBeforeGrant, Opening, IsHello
  <2>3. AnswerFirst'
    BY <2>1 DEF AnswerFirst, Opening
  <2>4. QED
    BY <1>2, <2>2, <2>3 DEF NegotiationInv
<1>4. CASE e = "server"
  <2>1. /\ chan'["client"] = chan["client"] /\ pending'["client"] = pending["client"]
        /\ state'["client"] = state["client"] /\ state'["server"] = "CLOSED"
    BY <1>1, <1>4 DEF TypeOK, Peer
  <2>2. \A i \in DOMAIN chan'["server"] :
          \E j \in DOMAIN chan["server"] : chan'["server"][i] = chan["server"][j]
    <3>1. chan["server"] \in Seq(Chunk)
      BY <1>1 DEF TypeOK
    <3>2. CASE chan[e] # << >> /\ chan' = [chan EXCEPT ![e] = Tail(@)]
      <4>1. chan["server"] # << >> /\ chan'["server"] = Tail(chan["server"])
        BY <1>1, <1>4, <3>2 DEF TypeOK
      <4>2. QED
        BY <3>1, <4>1, TailChunks
    <3>3. QED
      BY <3>1, <3>2
  <2>3. AskedBeforeGrant'
    BY <2>1, <2>2 DEF NegotiationInv, AskedBeforeGrant, Opening, IsHello
  <2>4. AnswerFirst'
    BY <2>1 DEF NegotiationInv, AnswerFirst, Opening, IsGrant
  <2>5. QED
    BY <1>2, <2>3, <2>4 DEF NegotiationInv
<1>5. QED
  BY <1>3, <1>4 DEF Endpoint

\* An OPEN end that reads at most one chunk, writes anything, and stays OPEN
\* or closes: its peer has been asked and has answered long ago.
LEMMA OpenInv ==
  ASSUME TypeOK, NegotiationInv, NEW e \in Endpoint, state[e] = "OPEN",
         state' = state \/ state' = [state EXCEPT ![e] = "CLOSED"],
         pending'[Peer(e)] = pending[Peer(e)],
         NEW wire \in Seq(Chunk), chan'[Peer(e)] = chan[Peer(e)] \o wire,
         tx' = tx \/ tx' = [tx EXCEPT ![e] = @ + 1],
         UNCHANGED <<opened, local_caps>>
  PROVE  NegotiationInv'
<1>1. "client" \in Endpoint /\ "server" \in Endpoint
  BY DEF Endpoint
<1>2. AgreedOnceOpen'
  BY <1>1 DEF TypeOK, NegotiationInv, AgreedOnceOpen, Opening
<1>3. opened["server"] # << >> /\ ~Opening("server") /\ ~Opening("server")'
  BY <1>1, <1>2 DEF NegotiationInv, AgreedOnceOpen, Endpoint
<1>4. state["client"] # "NEW" /\ tx["client"] > 0
  BY <1>3 DEF NegotiationInv, AskedBeforeGrant
<1>5. tx["client"] \in Nat /\ tx'["client"] > 0 /\ state'["client"] # "NEW"
  <2>1. tx["client"] \in Nat
    BY <1>1 DEF TypeOK
  <2>2. tx'["client"] = tx["client"] \/ tx'["client"] = tx["client"] + 1
    BY <1>1 DEF TypeOK
  <2>3. state'["client"] = state["client"] \/ state'["client"] = "CLOSED"
    BY <1>1 DEF TypeOK
  <2>4. QED
    BY <1>4, <2>1, <2>2, <2>3
<1>6. AskedBeforeGrant'
  BY <1>3, <1>5 DEF AskedBeforeGrant
<1>7. AnswerFirst'
  <2>1. CASE e = "client"
    BY <1>1, <2>1 DEF AnswerFirst, Opening, TypeOK
  <2>2. CASE e = "server"
    <3>1. /\ chan'["client"] = chan["client"] \o wire
          /\ pending'["client"] = pending["client"]
          /\ state'["client"] = state["client"]
      BY <1>1, <2>2 DEF Peer, TypeOK
    <3>2. chan["client"] # << >> =>
            chan'["client"] # << >> /\ chan'["client"][1] = chan["client"][1]
      BY <1>1, <3>1, ConcatChunks DEF TypeOK
    <3>3. QED
      BY <1>3, <2>2, <3>1, <3>2 DEF NegotiationInv, AnswerFirst, Opening, IsGrant
  <2>3. QED
    BY <2>1, <2>2 DEF Endpoint
<1>8. QED
  BY <1>2, <1>6, <1>7 DEF NegotiationInv

\* An end still negotiating that reads a chunk of a frame not yet complete.
LEMMA ReadingInv ==
  ASSUME TypeOK, NegotiationInv, NEW e \in Endpoint, Opening(e),
         chan[e] # << >>, chan' = [chan EXCEPT ![e] = Tail(@)],
         \/ pending[e] = << >> /\ pending' = [pending EXCEPT ![e] = <<Arrived(e)>>]
         \/ pending[e] # << >> /\ pending' = pending,
         tx' = tx, state' = state, UNCHANGED <<opened, local_caps>>
  PROVE  NegotiationInv'
<1>1. "client" \in Endpoint /\ "server" \in Endpoint
  BY DEF Endpoint
<1>2. AgreedOnceOpen'
  BY DEF NegotiationInv, AgreedOnceOpen, Opening
<1>3. \A d \in Endpoint : \A i \in DOMAIN chan'[d] :
        \E j \in DOMAIN chan[d] : chan'[d][i] = chan[d][j]
  <2>1. chan[e] \in Seq(Chunk) /\ chan'[e] = Tail(chan[e])
    BY DEF TypeOK
  <2>2. \A d \in Endpoint \ {e} : chan'[d] = chan[d]
    BY DEF TypeOK
  <2>3. QED
    BY <2>1, <2>2, TailChunks
<1>4. AskedBeforeGrant'
  BY <1>1, <1>3 DEF NegotiationInv, AskedBeforeGrant, Opening, IsHello
<1>5. CASE e = "server"
  <2>1. chan'["client"] = chan["client"] /\ pending'["client"] = pending["client"]
    BY <1>1, <1>5 DEF TypeOK
  <2>2. AnswerFirst'
    BY <2>1 DEF NegotiationInv, AnswerFirst, Opening, IsGrant
  <2>3. QED
    BY <1>2, <1>4, <2>2 DEF NegotiationInv
<1>6. CASE e = "client"
  <2>1. AnswerFirst
    BY DEF NegotiationInv
  <2>2. Opening("client") /\ chan["client"] # << >>
    BY <1>6 DEF Opening
  <2>3. \/ pending["client"] = << >> /\ pending'["client"] = <<Arrived("client")>>
        \/ pending["client"] # << >> /\ pending'["client"] = pending["client"]
    BY <1>6 DEF TypeOK
  <2>4. pending'["client"] # << >> /\ ~Opening("server")
    BY <2>1, <2>2, <2>3 DEF AnswerFirst
  <2>5. opened["server"] # << >> => IsGrant(pending'["client"][1])
    <3>1. chan["client"][1] = Head(chan["client"])
      BY <1>1 DEF TypeOK
    <3>2. QED
      BY <2>1, <2>2, <2>3, <3>1 DEF AnswerFirst, Arrived
  <2>6. AnswerFirst'
    BY <1>1, <1>3, <2>1, <2>2, <2>4, <2>5 DEF AnswerFirst, Opening, IsGrant
  <2>7. QED
    BY <1>2, <1>4, <2>6 DEF NegotiationInv
<1>7. QED
  BY <1>5, <1>6 DEF Endpoint

\* Losing the end of a stream whose writer is gone.
LEMMA ResetInv ==
  ASSUME TypeOK, NegotiationInv, NEW e \in Endpoint, Reset(e)
  PROVE  NegotiationInv'
<1>1. "client" \in Endpoint /\ "server" \in Endpoint
  BY DEF Endpoint
<1>2. PICK k \in 0..(Len(chan[e]) - 1) :
        chan' = [chan EXCEPT ![e] = SubSeq(@, 1, k)]
  BY DEF Reset
<1>3. UNCHANGED <<state, pending, tx, opened, local_caps>> /\ state[Peer(e)] = "CLOSED"
  BY DEF Reset, capVars
<1>4. chan[e] \in Seq(Chunk) /\ chan'[e] = SubSeq(chan[e], 1, k)
  BY <1>2 DEF TypeOK
<1>5. /\ \A i \in DOMAIN chan'[e] : i \in DOMAIN chan[e] /\ chan'[e][i] = chan[e][i]
      /\ chan'[e] # << >> => chan'[e][1] = chan[e][1] /\ chan[e] # << >>
  BY <1>2, <1>4, PrefixChunks
<1>6. AgreedOnceOpen'
  BY <1>3 DEF NegotiationInv, AgreedOnceOpen, Opening
<1>7. CASE e = "server"
  <2>1. chan'["client"] = chan["client"] /\ state["client"] = "CLOSED"
    BY <1>1, <1>2, <1>3, <1>7 DEF TypeOK, Peer
  <2>2. AskedBeforeGrant'
    BY <1>3, <1>5, <1>7 DEF NegotiationInv, AskedBeforeGrant, Opening, IsHello
  <2>3. AnswerFirst'
    BY <1>3, <2>1 DEF AnswerFirst, Opening
  <2>4. QED
    BY <1>6, <2>2, <2>3 DEF NegotiationInv
<1>8. CASE e = "client"
  <2>1. chan'["server"] = chan["server"] /\ state["server"] = "CLOSED"
    BY <1>1, <1>2, <1>3, <1>8 DEF TypeOK, Peer
  <2>2. AskedBeforeGrant'
    BY <1>3, <2>1 DEF NegotiationInv, AskedBeforeGrant, Opening, IsHello
  <2>3. AnswerFirst'
    BY <1>3, <1>5, <1>8, <2>1 DEF NegotiationInv, AnswerFirst, Opening, IsGrant
  <2>4. QED
    BY <1>6, <2>2, <2>3 DEF NegotiationInv
<1>9. QED
  BY <1>7, <1>8 DEF Endpoint

-----------------------------------------------------------------------------
(* The steps that ask, answer and learn the answer. *)

\* The chunks of a frame put on the wire are that frame's; the header leads,
\* and there is a payload only if the whole frame was accepted.
LEMMA WireChunks ==
  ASSUME NEW f \in Frame, NEW r \in Outcome
  PROVE  LET w == conn_send_unchecked(f, r) IN
         /\ \A i \in DOMAIN w : w[i].frame = f
         /\ \A i \in DOMAIN w : w[i].part = "payload" => r = "sent"
         /\ w = << >> <=> r = "lost"
BY DEF conn_send_unchecked, Outcome, Header, Payload

\* The client asks.
LEMMA StartInv ==
  ASSUME TypeOK, NegotiationInv, pai_proto_conn_start
  PROVE  NegotiationInv'
<1> DEFINE hello == [NewFrame("client", "HELLO", 1)
                       EXCEPT !.caps = local_caps["client"]]
<1>1. /\ "client" \in Endpoint /\ "server" \in Endpoint
      /\ "HELLO" \in Type /\ 1 \in Ids
  BY IdsAssumption DEF Endpoint, Type
<1>2. hello \in Frame /\ IsHello(hello)
  <2>1. NewFrame("client", "HELLO", 1) \in Frame
    BY <1>1, NewFrameType
  <2>2. local_caps["client"] = Offer \cap Known /\ local_caps["client"] \in SUBSET Caps
    BY <1>1 DEF NegotiationInv, AgreedOnceOpen, TypeOK
  <2>3. hello \in Frame
    BY <2>1, <2>2, FrameExcept
  <2>4. hello.type = "HELLO" /\ hello.caps = local_caps["client"]
    BY DEF NewFrame
  <2>5. QED
    BY <2>2, <2>3, <2>4 DEF IsHello
<1>3. PICK r \in Outcome :
        /\ Sends("client", hello, r)
        /\ chan' = [chan EXCEPT !["server"] = @ \o conn_send_unchecked(hello, r)]
        /\ state' = IF r = "sent"
                      THEN [state EXCEPT !["client"] = "NEGOTIATING"] ELSE state
  BY DEF pai_proto_conn_start
<1> DEFINE wire == conn_send_unchecked(hello, r)
<1>4. /\ wire \in Seq(Chunk)
      /\ \A i \in DOMAIN wire : wire[i].frame = hello
      /\ \A i \in DOMAIN wire : wire[i].part = "payload" => r = "sent"
  BY <1>2, WireType, WireChunks
<1>5. state["client"] = "NEW" /\ UNCHANGED <<pending, opened, local_caps>>
  BY DEF pai_proto_conn_start, capVars
<1>6. chan["server"] \in Seq(Chunk) /\ chan'["server"] = chan["server"] \o wire
      /\ chan'["client"] = chan["client"]
  BY <1>1, <1>3 DEF TypeOK
<1>7. /\ state'["server"] = state["server"]
      /\ state'["client"] \in {"NEW", "NEGOTIATING"}
      /\ r = "sent" => state'["client"] = "NEGOTIATING"
  <2>1. state' = state \/ state' = [state EXCEPT !["client"] = "NEGOTIATING"]
    BY <1>3
  <2>2. QED
    BY <1>1, <1>3, <1>5, <2>1 DEF TypeOK
<1>8. r = "sent" => tx'["client"] > 0
  <2>1. r = "sent" => tx' = [tx EXCEPT !["client"] = @ + 1]
    BY <1>3 DEF Sends
  <2>2. tx \in [Endpoint -> Nat]
    BY DEF TypeOK
  <2>3. QED
    BY <1>1, <2>1, <2>2
<1> HIDE DEF hello, wire
<1>9. AgreedOnceOpen'
  BY <1>1, <1>5, <1>7 DEF NegotiationInv, AgreedOnceOpen, Opening, Endpoint
<1>10. \A i \in DOMAIN chan'["server"] :
         \/ \E j \in DOMAIN chan["server"] : chan'["server"][i] = chan["server"][j]
         \/ \E j \in DOMAIN wire : chan'["server"][i] = wire[j]
  <2>1. wire \in Seq(Chunk)
    BY <1>4
  <2> DEFINE old == chan["server"]
             new == chan'["server"]
  <2>2. old \in Seq(Chunk) /\ new = old \o wire
    BY <1>6
  <2> HIDE DEF old, new
  <2>3. \A i \in DOMAIN new : \/ \E j \in DOMAIN old : new[i] = old[j]
                              \/ \E j \in DOMAIN wire : new[i] = wire[j]
    BY <2>1, <2>2, ConcatChunks
  <2>4. QED
    BY <2>3 DEF old, new
<1>11. AskedBeforeGrant'
  <2>1. opened["server"] = << >>
        /\ ~ \E i \in DOMAIN chan["server"] : chan["server"][i].part = "payload"
    BY <1>5 DEF NegotiationInv, AskedBeforeGrant
  <2>2. Opening("server")' =>
          \A i \in DOMAIN chan'["server"] : IsHello(chan'["server"][i].frame)
    BY <1>2, <1>4, <1>7, <1>10 DEF NegotiationInv, AskedBeforeGrant, Opening
  <2>3. (\E i \in DOMAIN chan'["server"] : chan'["server"][i].part = "payload")
          => r = "sent"
    BY <1>4, <1>10, <2>1
  <2>4. QED
    BY <1>5, <1>7, <1>8, <2>1, <2>2, <2>3 DEF AskedBeforeGrant, IsHello
<1>12. AnswerFirst'
  BY <1>5, <1>6, <1>7 DEF NegotiationInv, AnswerFirst, Opening, IsGrant
<1>13. QED
  BY <1>9, <1>11, <1>12 DEF NegotiationInv

\* Taking a frame without answering it only shortens the stream.
LEMMA ConsumeNothing ==
  ASSUME TypeOK, NEW e \in Endpoint, Consume(e, << >>)
  PROVE  chan' = [chan EXCEPT ![e] = Tail(@)]
<1>1. chan[Peer(e)] \o << >> = chan[Peer(e)]
  BY PeerType, ConcatEmptySeq DEF TypeOK
<1>2. chan' = [chan EXCEPT ![e] = Tail(@), ![Peer(e)] = chan[Peer(e)] \o << >>]
  BY PeerType DEF Consume, TypeOK
<1>3. QED
  BY <1>1, <1>2, PeerType DEF TypeOK

\* A complete HELLO at a server that has not answered: it offers the client's
\* capabilities, the client waits, and nothing is on its way to the client.
LEMMA HelloArrived ==
  ASSUME TypeOK, NegotiationInv, PreOpen("server"),
         Arrived("server").type = "HELLO"
  PROVE  /\ Opening("server") /\ opened["server"] = << >> /\ opened["client"] = << >>
         /\ chan["server"] # << >> /\ Arrived("server") \in Frame
         /\ Arrived("server").caps = Offer \cap Known
         /\ state["client"] # "NEW" /\ tx["client"] > 0
         /\ Opening("client") => chan["client"] = << >> /\ pending["client"] = << >>
<1>1. "client" \in Endpoint /\ "server" \in Endpoint
  BY DEF Endpoint
<1>2. chan["server"] # << >> /\ state["server"] # "CLOSED" /\ state["server"] # "OPEN"
  BY DEF PreOpen, FrameComplete
<1>3. Opening("server")
  BY <1>1, <1>2 DEF TypeOK, State, Opening
<1>4. /\ 1 \in DOMAIN chan["server"] /\ Head(chan["server"]) = chan["server"][1]
      /\ Arrived("server") \in Frame
  <2>1. chan["server"] \in Seq(Chunk)
    BY <1>1 DEF TypeOK
  <2>2. 1 \in DOMAIN chan["server"] /\ Head(chan["server"]) = chan["server"][1]
    BY <1>2, <2>1, EmptySeq
  <2>3. QED
    BY <1>1, <1>2, <2>2, ArrivedType
<1>5. Head(chan["server"]).part = "payload"
  BY DEF PreOpen, FrameComplete, Arrived, Bodied
<1>6. state["client"] # "NEW" /\ tx["client"] > 0 /\ IsHello(Arrived("server"))
  BY <1>3, <1>4, <1>5 DEF NegotiationInv, AskedBeforeGrant, Arrived
<1>7. opened["server"] = << >> /\ opened["client"] = << >>
  BY <1>1, <1>3 DEF NegotiationInv, AgreedOnceOpen
<1>8. Opening("client") => chan["client"] = << >> /\ pending["client"] = << >>
  BY <1>3 DEF NegotiationInv, AnswerFirst
<1>9. QED
  BY <1>2, <1>3, <1>4, <1>6, <1>7, <1>8 DEF IsHello

\* The server refuses.
LEMMA RefuseInv ==
  ASSUME TypeOK, NegotiationInv, PreOpen("server"), Arrived("server").type = "HELLO",
         NEW why \in Reason, NEW reason,
         conn_refuse_hello(Arrived("server"), why, reason)
  PROVE  NegotiationInv'
<1> DEFINE f == Arrived("server")
           nack == [conn_send_negotiation(f, "HELLO_NACK") EXCEPT !.reason = why]
<1>1. "client" \in Endpoint /\ "server" \in Endpoint /\ "HELLO_NACK" \in Type
  BY DEF Endpoint, Type
<1>2. PICK r \in Outcome : /\ Sends("server", nack, r)
                           /\ Consume("server", conn_send_unchecked(nack, r))
                           /\ conn_set_closed("server", reason)
                           /\ UNCHANGED <<capVars, streamVars>>
  BY DEF conn_refuse_hello
<1>3. f \in Frame /\ f.id \in Ids /\ chan["server"] # << >>
  BY HelloArrived DEF Frame
<1>4. nack \in Frame /\ nack.type = "HELLO_NACK"
  <2>1. NewFrame("server", "HELLO_NACK", f.id) \in Frame
    BY <1>1, <1>3, NewFrameType
  <2>2. QED
    BY <2>1, FrameExcept DEF conn_send_negotiation, NewFrame
<1> DEFINE wire == conn_send_unchecked(nack, r)
<1>5. wire \in Seq(Chunk) /\ \A i \in DOMAIN wire : wire[i].frame = nack
  BY <1>4, WireType, WireChunks
<1>6. /\ chan'["server"] = Tail(chan["server"])
      /\ chan'["client"] = chan["client"] \o wire
  BY <1>1, <1>2 DEF Consume, TypeOK, Peer
<1>7. UNCHANGED <<opened, local_caps>> /\ tx'["client"] = tx["client"]
      /\ state' = [state EXCEPT !["server"] = "CLOSED"]
      /\ pending' = [pending EXCEPT !["server"] = << >>]
  <2>1. tx' = tx \/ tx' = [tx EXCEPT !["server"] = @ + 1]
    BY <1>2 DEF Sends
  <2>2. tx'["client"] = tx["client"]
    BY <1>1, <2>1 DEF TypeOK
  <2>3. QED
    BY <1>2, <2>2 DEF conn_set_closed, capVars
<1> HIDE DEF f, nack, wire
<1>8. /\ state'["server"] = "CLOSED" /\ state'["client"] = state["client"]
      /\ pending'["client"] = pending["client"]
  BY <1>1, <1>7 DEF TypeOK
<1>9. AgreedOnceOpen'
  BY <1>1, <1>7, <1>8 DEF NegotiationInv, AgreedOnceOpen, Opening, Endpoint
<1>10. AskedBeforeGrant'
  BY <1>7, <1>8, HelloArrived DEF AskedBeforeGrant, Opening
<1>11. AnswerFirst'
  <2>1. Opening("client")' => chan'["client"] = wire
    BY <1>5, <1>6, <1>8, HelloArrived, ConcatEmptySeq DEF Opening
  <2>2. opened'["server"] = << >>
    BY <1>7, HelloArrived
  <2>3. QED
    BY <1>4, <1>5, <1>8, <2>1, <2>2 DEF AnswerFirst, Opening
<1>12. QED
  BY <1>9, <1>10, <1>11 DEF NegotiationInv

\* The server grants, and may fail to say so.
LEMMA AcceptInv ==
  ASSUME TypeOK, NegotiationInv, PreOpen("server"), Arrived("server").type = "HELLO",
         NEW mask \in OnHello, conn_accept_hello(Arrived("server"), mask)
  PROVE  NegotiationInv'
<1> DEFINE f == Arrived("server")
           agreed == conn_agree(mask, f.caps)
           ack == [conn_send_negotiation(f, "HELLO_ACK") EXCEPT !.caps = agreed]
<1>1. /\ "client" \in Endpoint /\ "server" \in Endpoint /\ "HELLO_ACK" \in Type
      /\ "server" # "client"
  BY DEF Endpoint, Type
<1>2. PICK r \in Outcome :
        /\ Sends("server", ack, r)
        /\ Consume("server", conn_send_unchecked(ack, r))
        /\ local_caps' = [local_caps EXCEPT !["server"] = mask \cap Known]
        /\ opened' = [opened EXCEPT !["server"] = <<agreed>>]
        /\ IF r = "sent"
             THEN /\ state' = [state EXCEPT !["server"] = "OPEN"]
                  /\ pending' = [pending EXCEPT !["server"] = << >>]
             ELSE conn_set_closed("server", "protocol")
  BY DEF conn_accept_hello
<1>3. f \in Frame /\ f.id \in Ids /\ f.caps = Offer \cap Known
  BY HelloArrived DEF Frame
<1>4. agreed \in SUBSET (Offer \cap Known) /\ agreed \in SUBSET Caps
  BY <1>3, CapsAssumption DEF conn_agree
<1>5. ack \in Frame /\ ack.type = "HELLO_ACK" /\ ack.caps = agreed
  <2>1. NewFrame("server", "HELLO_ACK", f.id) \in Frame
    BY <1>1, <1>3, NewFrameType
  <2>2. ack \in Frame
    BY <1>4, <2>1, FrameExcept DEF conn_send_negotiation
  <2>3. ack.type = "HELLO_ACK" /\ ack.caps = agreed
    BY DEF conn_send_negotiation, NewFrame
  <2>4. QED
    BY <2>2, <2>3
<1> DEFINE wire == conn_send_unchecked(ack, r)
<1>6. /\ wire \in Seq(Chunk) /\ \A i \in DOMAIN wire : wire[i].frame = ack
      /\ wire = << >> <=> r = "lost"
  BY <1>5, WireType, WireChunks
<1>7. chan'["client"] = chan["client"] \o wire
  BY <1>1, <1>2 DEF Consume, TypeOK, Peer
<1>8. /\ state' = [state EXCEPT !["server"] = IF r = "sent" THEN "OPEN" ELSE "CLOSED"]
      /\ pending' = [pending EXCEPT !["server"] = << >>]
  BY <1>2 DEF conn_set_closed
<1>9. tx'["client"] = tx["client"]
  <2>1. tx' = tx \/ tx' = [tx EXCEPT !["server"] = @ + 1]
    BY <1>2 DEF Sends
  <2>2. QED
    BY <1>1, <2>1 DEF TypeOK
<1>10. /\ opened'["server"] = <<agreed>> /\ opened'["client"] = << >>
       /\ local_caps'["client"] = local_caps["client"]
  BY <1>1, <1>2, HelloArrived DEF TypeOK
<1> HIDE DEF f, agreed, ack, wire
<1>11. /\ state'["server"] = (IF r = "sent" THEN "OPEN" ELSE "CLOSED")
       /\ state'["client"] = state["client"]
       /\ pending'["client"] = pending["client"]
  BY <1>1, <1>8 DEF TypeOK
<1>12. state["client"] # "OPEN"
  BY <1>1, HelloArrived DEF NegotiationInv, AgreedOnceOpen
<1>13. AgreedOnceOpen'
  <2>1. <<agreed>> # << >>
    OBVIOUS
  <2>2. QED
    BY <1>4, <1>10, <1>11, <1>12, <2>1
    DEF NegotiationInv, AgreedOnceOpen, Opening, Endpoint
<1>14. AskedBeforeGrant'
  BY <1>9, <1>11, HelloArrived DEF AskedBeforeGrant, Opening
<1>15. AnswerFirst'
  <2>1. Opening("client")' => chan'["client"] = wire /\ pending'["client"] = << >>
    BY <1>6, <1>7, <1>11, HelloArrived, ConcatEmptySeq DEF Opening
  <2>2. wire # << >> => 1 \in DOMAIN wire
    BY <1>6, EmptySeq
  <2>3. Opening("client")' /\ chan'["client"] # << >> =>
          /\ chan'["client"][1].frame.type = "HELLO_ACK"
          /\ <<chan'["client"][1].frame.caps>> = opened'["server"]
    BY <1>5, <1>6, <1>10, <2>1, <2>2
  <2>4. <<agreed>> # << >> /\ opened'["server"] # << >>
    BY <1>10
  <2>5. QED
    BY <1>6, <1>11, <2>1, <2>3, <2>4 DEF AnswerFirst, Opening, IsGrant
<1>16. QED
  BY <1>13, <1>14, <1>15 DEF NegotiationInv

\* The client learns the answer: an ACK it accepts is the server's grant.
LEMMA AckInv ==
  ASSUME TypeOK, NegotiationInv, conn_handle_ack_client,
         Arrived("client").ver = Major["client"] /\ Arrived("client").good
  PROVE  /\ NegotiationInv'
         /\ opened["server"] # << >> /\ state["client"] = "NEGOTIATING"
         /\ opened' = [opened EXCEPT !["client"] = opened["server"]]
<1> DEFINE f == Arrived("client")
<1>1. "client" \in Endpoint /\ "server" \in Endpoint
  BY DEF Endpoint
<1>2. /\ chan["client"] # << >> /\ state["client"] # "CLOSED"
      /\ state["client"] # "OPEN" /\ f.type = "HELLO_ACK"
  BY DEF conn_handle_ack_client, PreOpen, FrameComplete
<1>3. Opening("client")
  BY <1>1, <1>2 DEF TypeOK, State, Opening
<1>4. 1 \in DOMAIN chan["client"] /\ f = chan["client"][1].frame
  <2>1. chan["client"] \in Seq(Chunk)
    BY <1>1 DEF TypeOK
  <2>2. QED
    BY <1>2, <2>1, EmptySeq DEF Arrived
<1>5. pending["client"] = <<f>>
  BY <1>2 DEF conn_handle_ack_client, PreOpen, FrameComplete, Arrived, Bodied
<1>6. opened["server"] # << >>
  BY <1>2, <1>3, <1>4 DEF NegotiationInv, AnswerFirst
<1>7. <<f.caps>> = opened["server"]
  BY <1>3, <1>5, <1>6 DEF NegotiationInv, AnswerFirst, IsGrant
<1>8. f.caps \cap Known = f.caps
  <2>1. PICK caps \in SUBSET (Offer \cap Known) : opened["server"] = <<caps>>
    BY <1>6 DEF NegotiationInv, AgreedOnceOpen
  <2>2. caps = f.caps
    BY <1>7, <2>1
  <2>3. QED
    BY <2>2
<1>9. /\ Consume("client", << >>) /\ tx' = tx /\ local_caps' = local_caps
      /\ opened' = [opened EXCEPT !["client"] = <<f.caps \cap Known>>]
      /\ state' = [state EXCEPT !["client"] = "OPEN"]
  BY DEF conn_handle_ack_client, SendsNothing
<1>10. opened' = [opened EXCEPT !["client"] = opened["server"]]
  BY <1>7, <1>8, <1>9
<1>11. state["client"] # "NEW"
  BY <1>6 DEF NegotiationInv, AskedBeforeGrant
<1>12. chan'["server"] = chan["server"]
  <2>1. chan' = [chan EXCEPT !["client"] = Tail(@)]
    BY <1>1, <1>9, ConsumeNothing
  <2>2. QED
    BY <1>1, <2>1 DEF TypeOK
<1> HIDE DEF f
<1>13. /\ state'["client"] = "OPEN" /\ state'["server"] = state["server"]
       /\ opened'["client"] = opened["server"] /\ opened'["server"] = opened["server"]
  BY <1>1, <1>9, <1>10 DEF TypeOK
<1>14. AgreedOnceOpen'
  BY <1>6, <1>9, <1>13 DEF NegotiationInv, AgreedOnceOpen, Opening, Endpoint
<1>15. AskedBeforeGrant'
  BY <1>9, <1>12, <1>13 DEF NegotiationInv, AskedBeforeGrant, Opening, IsHello
<1>16. AnswerFirst'
  BY <1>13 DEF AnswerFirst, Opening
<1>17. QED
  BY <1>3, <1>6, <1>10, <1>11, <1>14, <1>15, <1>16 DEF NegotiationInv, Opening

-----------------------------------------------------------------------------
(* The other steps, as closings and as doings of an OPEN end. *)

\* A frame rejected: the end closes.
LEMMA RejectInv ==
  ASSUME TypeOK, NegotiationInv, NEW e \in Endpoint, chan[e] # << >>, Reject(e),
         UNCHANGED capVars
  PROVE  NegotiationInv'
<1>1. chan' = [chan EXCEPT ![e] = Tail(@)]
  BY ConsumeNothing DEF Reject
<1>2. /\ state' = [state EXCEPT ![e] = "CLOSED"] /\ tx' = tx
      /\ UNCHANGED <<opened, local_caps>>
  BY DEF Reject, SendsNothing, conn_set_closed, capVars
<1>3. pending'[Peer(e)] = pending[Peer(e)]
  BY PeerType DEF Reject, conn_set_closed, TypeOK
<1>4. QED
  BY <1>1, <1>2, <1>3, ClosingInv

\* An OPEN end that takes a frame, answers it or not, and stays or closes.
LEMMA TakingInv ==
  ASSUME TypeOK, NegotiationInv, NEW e \in Endpoint, state[e] = "OPEN",
         NEW wire \in Seq(Chunk), Consume(e, wire),
         state' = state \/ state' = [state EXCEPT ![e] = "CLOSED"],
         pending' = [pending EXCEPT ![e] = << >>],
         tx' = tx \/ tx' = [tx EXCEPT ![e] = @ + 1],
         UNCHANGED capVars
  PROVE  NegotiationInv'
<1>1. chan'[Peer(e)] = chan[Peer(e)] \o wire
  BY PeerType DEF Consume, TypeOK
<1>2. pending'[Peer(e)] = pending[Peer(e)]
  BY PeerType DEF TypeOK
<1>3. UNCHANGED <<opened, local_caps>>
  BY DEF capVars
<1>4. QED
  BY <1>1, <1>2, <1>3, OpenInv

\* Reading a header or the bytes after a torn one.
LEMMA ReceivingInv ==
  ASSUME TypeOK, NegotiationInv, NEW e \in Endpoint,
         RecvHeader(e) \/ RecvTornPayload(e)
  PROVE  NegotiationInv'
<1>1. /\ chan[e] # << >> /\ state[e] # "CLOSED"
      /\ chan' = [chan EXCEPT ![e] = Tail(@)]
      /\ tx' = tx /\ UNCHANGED <<opened, local_caps>>
  BY DEF RecvHeader, RecvTornPayload, SendsNothing, capVars
<1>2. \/ state' = [state EXCEPT ![e] = "CLOSED"]
            /\ pending' = [pending EXCEPT ![e] = << >>]
      \/ /\ state' = state
         /\ \/ pending[e] = << >> /\ pending' = [pending EXCEPT ![e] = <<Arrived(e)>>]
            \/ pending[e] # << >> /\ pending' = pending
  BY DEF RecvHeader, RecvTornPayload, conn_set_closed
<1>3. pending'[Peer(e)] = pending[Peer(e)] /\ chan'[Peer(e)] = chan[Peer(e)]
  <2>1. chan'[Peer(e)] = chan[Peer(e)]
    BY <1>1, PeerType DEF TypeOK
  <2>2. pending'[Peer(e)] = pending[Peer(e)]
    BY <1>2, PeerType DEF TypeOK
  <2>3. QED
    BY <2>1, <2>2
<1>4. CASE state[e] = "OPEN"
  <2>1. << >> \in Seq(Chunk) /\ chan'[Peer(e)] = chan[Peer(e)] \o << >>
    BY <1>3, PeerType, ConcatEmptySeq DEF TypeOK
  <2>2. state' = state \/ state' = [state EXCEPT ![e] = "CLOSED"]
    BY <1>2
  <2>3. QED
    BY <1>1, <1>3, <1>4, <2>1, <2>2, OpenInv
<1>5. CASE state[e] # "OPEN"
  <2>1. Opening(e)
    BY <1>1, <1>5 DEF TypeOK, State, Opening
  <2>2. CASE state' = [state EXCEPT ![e] = "CLOSED"]
    BY <1>1, <1>3, <2>2, ClosingInv
  <2>3. CASE state' = state /\ ~(state' = [state EXCEPT ![e] = "CLOSED"])
    BY <1>1, <1>2, <2>1, <2>3, ReadingInv
  <2>4. QED
    BY <1>2, <2>2, <2>3
<1>6. QED
  BY <1>4, <1>5

\* A frame handed to on_message, answered by an ERROR or not.
LEMMA OnMessageInv ==
  ASSUME TypeOK, NegotiationInv, NEW e \in Endpoint, state[e] = "OPEN",
         NEW f \in Frame, NEW b, OnMessage(e, f, b), UNCHANGED capVars
  PROVE  NegotiationInv'
<1>1. CASE SendsNothing /\ Handled(e, << >>)
  <2>1. << >> \in Seq(Chunk) /\ Consume(e, << >>) /\ state' = state /\ tx' = tx
        /\ pending' = [pending EXCEPT ![e] = << >>]
    BY <1>1 DEF Handled, SendsNothing
  <2>2. QED
    BY <2>1, TakingInv
<1>2. ASSUME NEW r \in Outcome, Sends(e, NewFrame(e, "ERROR", f.id), r),
             Handled(e, conn_send_unchecked(NewFrame(e, "ERROR", f.id), r))
      PROVE  NegotiationInv'
  <2> DEFINE reply == NewFrame(e, "ERROR", f.id)
             wire == conn_send_unchecked(reply, r)
  <2>1. f.id \in Ids /\ "ERROR" \in Type
    BY DEF Frame, Type
  <2>2. wire \in Seq(Chunk)
    BY <2>1, NewFrameType, WireType
  <2>3. /\ Consume(e, wire) /\ state' = state
        /\ pending' = [pending EXCEPT ![e] = << >>]
        /\ tx' = tx \/ tx' = [tx EXCEPT ![e] = @ + 1]
    BY <1>2 DEF Handled, Sends
  <2> HIDE DEF wire
  <2>4. QED
    BY <2>2, <2>3, TakingInv
<1>3. QED
  BY <1>1, <1>2 DEF OnMessage

\* Answering a PING, or closing because the PONG could not be sent.
LEMMA PingInv ==
  ASSUME TypeOK, NegotiationInv, NEW e \in Endpoint, conn_handle_ping(e)
  PROVE  NegotiationInv'
<1> DEFINE pong == NewFrame(e, "PONG", Arrived(e).id)
<1>1. chan[e] # << >> /\ state[e] = "OPEN"
  BY DEF conn_handle_ping, OpenFrame, FrameComplete
<1>2. Arrived(e).id \in Ids /\ "PONG" \in Type
  BY <1>1, ArrivedType DEF Frame, Type
<1>3. PICK r \in Outcome :
        /\ Sends(e, pong, r)
        /\ IF r = "sent"
             THEN Handled(e, conn_send_unchecked(pong, r))
             ELSE /\ Consume(e, << >>)
                  /\ conn_set_closed(e, "protocol")
  BY DEF conn_handle_ping
<1> DEFINE wire == IF r = "sent" THEN conn_send_unchecked(pong, r) ELSE << >>
<1>4. wire \in Seq(Chunk)
  BY <1>2, NewFrameType, WireType
<1>5. /\ Consume(e, wire) /\ UNCHANGED capVars
      /\ state' = state \/ state' = [state EXCEPT ![e] = "CLOSED"]
      /\ pending' = [pending EXCEPT ![e] = << >>]
      /\ tx' = tx \/ tx' = [tx EXCEPT ![e] = @ + 1]
  BY <1>3 DEF Handled, conn_set_closed, Sends, conn_handle_ping
<1> HIDE DEF wire
<1>6. QED
  BY <1>1, <1>4, <1>5, TakingInv

\* A close the end is told of, or tells itself of: CLOSE, NACK, end of stream
\* and destruction.
LEMMA LeavingInv ==
  ASSUME TypeOK, NegotiationInv, NEW e \in Endpoint,
         \/ conn_handle_close(e)
         \/ e = "client" /\ conn_handle_nack_client
         \/ RecvEof(e)
         \/ pai_proto_conn_destroy(e)
  PROVE  NegotiationInv'
<1>1. /\ state' = [state EXCEPT ![e] = "CLOSED"]
      /\ pending' = [pending EXCEPT ![e] = << >>]
      /\ tx' = tx /\ UNCHANGED <<opened, local_caps>>
  BY DEF conn_handle_close, conn_handle_nack_client, RecvEof,
         pai_proto_conn_destroy, conn_set_closed, SendsNothing, capVars
<1>2. pending'[Peer(e)] = pending[Peer(e)]
  BY <1>1, PeerType DEF TypeOK
<1>3. chan' = chan \/ (chan[e] # << >> /\ Consume(e, << >>))
  BY DEF conn_handle_close, conn_handle_nack_client, RecvEof,
         pai_proto_conn_destroy, OpenFrame, PreOpen, FrameComplete
<1>4. chan' = chan \/ (chan[e] # << >> /\ chan' = [chan EXCEPT ![e] = Tail(@)])
  BY <1>3, ConsumeNothing
<1>5. QED
  BY <1>1, <1>2, <1>4, ClosingInv

\* Every turn of poll's loop keeps the invariant.
LEMMA PollInv ==
  ASSUME TypeOK, NegotiationInv, NEW e \in Endpoint, pai_proto_conn_poll(e)
  PROVE  NegotiationInv'
<1>1. CASE e = "server" /\ conn_handle_hello_server
  <2>1. PreOpen("server") /\ Arrived("server").type = "HELLO"
    BY <1>1 DEF conn_handle_hello_server
  <2>2. "server" \in Endpoint /\ chan["server"] # << >>
        /\ {"version", "caps"} \subseteq Reason
    BY <2>1 DEF PreOpen, FrameComplete, Endpoint, Reason
  <2>3. QED
    BY <1>1, <2>1, <2>2, RejectInv, RefuseInv, AcceptInv DEF conn_handle_hello_server
<1>2. CASE e = "client" /\ conn_handle_ack_client
  <2>1. "client" \in Endpoint /\ chan["client"] # << >>
    BY <1>2 DEF conn_handle_ack_client, PreOpen, FrameComplete, Endpoint
  <2>2. CASE Arrived("client").ver = Major["client"] /\ Arrived("client").good
    BY <1>2, <2>2, AckInv
  <2>3. CASE ~(Arrived("client").ver = Major["client"] /\ Arrived("client").good)
    BY <1>2, <2>1, <2>3, RejectInv DEF conn_handle_ack_client
  <2>4. QED
    BY <2>2, <2>3
<1>3. CASE conn_handle_preopen(e) \/ conn_handle_misplaced(e) \/ conn_reject_stream(e)
  <2>1. chan[e] # << >> /\ Reject(e) /\ UNCHANGED capVars
    BY <1>3 DEF conn_handle_preopen, conn_handle_misplaced, conn_reject_stream,
                PreOpen, StreamFrame, OpenFrame, FrameComplete
  <2>2. QED
    BY <2>1, RejectInv
<1>4. CASE conn_handle_stream(e) \/ conn_handle_message(e)
  <2>1. chan[e] # << >> /\ state[e] = "OPEN" /\ UNCHANGED capVars
    BY <1>4 DEF conn_handle_stream, conn_handle_message, StreamFrame, OpenFrame,
                FrameComplete
  <2>2. \E b \in BOOLEAN : OnMessage(e, Arrived(e), b)
    BY <1>4 DEF conn_handle_stream, conn_handle_message, replies_to
  <2>3. QED
    BY <2>1, <2>2, ArrivedType, OnMessageInv
<1>5. CASE RecvHeader(e) \/ RecvTornPayload(e)
  BY <1>5, ReceivingInv
<1>6. CASE conn_handle_ping(e)
  BY <1>6, PingInv
<1>7. CASE \/ conn_handle_close(e) \/ RecvEof(e)
           \/ e = "client" /\ conn_handle_nack_client
  BY <1>7, LeavingInv
<1>8. QED
  BY <1>1, <1>2, <1>3, <1>4, <1>5, <1>6, <1>7 DEF pai_proto_conn_poll

\* An application's send keeps the invariant.
LEMMA SendInv ==
  ASSUME TypeOK, NegotiationInv, NEW e \in Endpoint, pai_proto_conn_send(e)
  PROVE  NegotiationInv'
<1>1. PICK g \in AppFrames[e], r \in Outcome :
        LET f == [g EXCEPT !.ver = Major[e], !.n = tx[e] + 1] IN
        /\ Sends(e, f, r)
        /\ chan' = [chan EXCEPT ![Peer(e)] = @ \o conn_send_unchecked(f, r)]
  BY DEF pai_proto_conn_send
<1> DEFINE f == [g EXCEPT !.ver = Major[e], !.n = tx[e] + 1]
           wire == conn_send_unchecked(f, r)
<1>2. g \in Frame /\ Major[e] \in Nat /\ tx[e] + 1 \in Nat
  BY FramesAssumption, MajorAssumption DEF TypeOK
<1>3. wire \in Seq(Chunk)
  BY <1>2, FrameExcept, WireType
<1>4. chan' = [chan EXCEPT ![Peer(e)] = @ \o wire]
      /\ (tx' = tx \/ tx' = [tx EXCEPT ![e] = @ + 1])
  BY <1>1 DEF Sends
<1> HIDE DEF wire
<1>5. chan'[Peer(e)] = chan[Peer(e)] \o wire
  BY <1>4, PeerType DEF TypeOK
<1>6. /\ state[e] = "OPEN" /\ state' = state /\ pending' = pending
      /\ UNCHANGED <<opened, local_caps>>
  BY DEF pai_proto_conn_send, capVars
<1>7. QED
  BY <1>3, <1>4, <1>5, <1>6, OpenInv

\* Every step keeps the invariant.
LEMMA NextInv == TypeOK /\ NegotiationInv /\ [Next]_vars => NegotiationInv'
<1> SUFFICES ASSUME TypeOK, NegotiationInv, [Next]_vars PROVE NegotiationInv'
  OBVIOUS
<1>1. CASE UNCHANGED vars
  BY <1>1 DEF vars, NegotiationInv, AgreedOnceOpen, AskedBeforeGrant, AnswerFirst,
              Opening, IsHello, IsGrant
<1>2. CASE Next
  BY <1>2, StartInv, SendInv, LeavingInv, PollInv, ResetInv DEF Next
<1>3. QED
  BY <1>1, <1>2

\* The negotiation's invariant: before the server's answer there are only
\* HELLOs, the answer is the first thing it says, and an ACK in flight
\* carries what the server has recorded as agreed.
THEOREM NegotiationInvariant == Spec => [](TypeOK /\ NegotiationInv)
BY InitType, InitInv, NextType, NextInv, PTL DEF Spec

\* A client that opens has exactly the capabilities its server recorded, all
\* of them offered by the client and known to the build, whatever on_hello
\* returns and whichever frames are lost or torn.
THEOREM CapabilitiesAgree == Spec => []CapsAgree
<1>1. NegotiationInv => CapsAgree
  <2> SUFFICES ASSUME NegotiationInv PROVE CapsAgree
    OBVIOUS
  <2>1. AgreedOnceOpen
    BY DEF NegotiationInv
  <2>2. opened["client"] # << >> => opened["client"] = opened["server"]
    BY <2>1 DEF AgreedOnceOpen
  <2>3. opened["server"] # << >> => opened["server"][1] \subseteq Offer \cap Known
    BY <2>1 DEF AgreedOnceOpen
  <2>4. QED
    BY <2>2, <2>3 DEF CapsAgree, Endpoint
<1>2. QED
  BY <1>1, NegotiationInvariant, PTL

-----------------------------------------------------------------------------
(* Refinement: every step is a step of Handshake or leaves it unchanged. *)

\* Only a state's change moves an end to another phase.
LEMMA PhaseOfStates ==
  /\ Phase("NEW") = "idle" /\ Phase("NEGOTIATING") = "asking"
  /\ Phase("OPEN") = "open" /\ Phase("CLOSED") = "closed"
BY DEF Phase

\* A step that leaves states, agreement and the client's having asked alone,
\* or closes one end that was not closed.
LEMMA QuietStep ==
  ASSUME TypeOK, NEW e \in Endpoint, opened' = opened,
         (tx["client"] > 0)' <=> tx["client"] > 0,
         \/ state' = state
         \/ state[e] # "CLOSED" /\ state' = [state EXCEPT ![e] = "CLOSED"]
  PROVE  [HS!AbsNext]_(HS!absVars)
<1> DEFINE phase == [d \in Endpoint |-> Phase(state[d])]
<1>1. CASE state' = state
  BY <1>1 DEF HS!absVars
<1>2. CASE state[e] # "CLOSED" /\ state' = [state EXCEPT ![e] = "CLOSED"]
  <2>1. [d \in Endpoint |-> Phase(state'[d])] = [phase EXCEPT ![e] = "closed"]
    BY <1>2, PhaseOfStates DEF TypeOK
  <2>2. phase[e] # "closed"
    BY <1>2 DEF Phase
  <2>3. HS!Shut(e)
    BY <2>1, <2>2 DEF HS!Shut
  <2>4. QED
    BY <2>3 DEF HS!AbsNext, HS!Ends, Endpoint
<1>3. QED
  BY <1>1, <1>2

\* An OPEN end that sends a frame or not: the client has asked already.
LEMMA OpenStep ==
  ASSUME TypeOK, NegotiationInv, NEW e \in Endpoint, state[e] = "OPEN",
         opened' = opened,
         tx' = tx \/ tx' = [tx EXCEPT ![e] = @ + 1],
         state' = state \/ state' = [state EXCEPT ![e] = "CLOSED"]
  PROVE  [HS!AbsNext]_(HS!absVars)
<1>1. "client" \in Endpoint /\ "server" \in Endpoint
  BY DEF Endpoint
<1>2. opened["server"] # << >>
  BY <1>1 DEF NegotiationInv, AgreedOnceOpen, Endpoint
<1>3. tx["client"] > 0
  BY <1>2 DEF NegotiationInv, AskedBeforeGrant
<1>4. tx["client"] \in Nat
  BY <1>1 DEF TypeOK
<1>5. tx'["client"] = tx["client"] \/ tx'["client"] = tx["client"] + 1
  BY <1>1 DEF TypeOK
<1>6. (tx["client"] > 0)' <=> tx["client"] > 0
  BY <1>3, <1>4, <1>5
<1>7. QED
  BY <1>6, QuietStep

\* pai_proto_conn_start is Ask, or nothing when the HELLO was lost.
LEMMA StartStep ==
  ASSUME TypeOK, pai_proto_conn_start
  PROVE  [HS!AbsNext]_(HS!absVars)
<1> DEFINE hello == [NewFrame("client", "HELLO", 1)
                       EXCEPT !.caps = local_caps["client"]]
           phase == [d \in Endpoint |-> Phase(state[d])]
<1>1. "client" \in Endpoint
  BY DEF Endpoint
<1>2. PICK r \in Outcome :
        /\ Sends("client", hello, r)
        /\ state' = IF r = "sent"
                      THEN [state EXCEPT !["client"] = "NEGOTIATING"] ELSE state
  BY DEF pai_proto_conn_start
<1>3. state["client"] = "NEW" /\ opened' = opened
  BY DEF pai_proto_conn_start, capVars
<1>4. tx' = IF r = "lost" THEN tx ELSE [tx EXCEPT !["client"] = @ + 1]
  BY <1>2 DEF Sends
<1> HIDE DEF hello
<1>5. CASE r = "lost"
  <2>1. tx' = tx /\ state' = state
    BY <1>2, <1>4, <1>5
  <2>2. (tx["client"] > 0)' <=> tx["client"] > 0
    BY <2>1
  <2>3. QED
    BY <1>1, <1>3, <2>1, <2>2, QuietStep
<1>6. CASE r # "lost"
  <2>1. tx["client"] \in Nat /\ tx'["client"] = tx["client"] + 1
    BY <1>1, <1>4, <1>6 DEF TypeOK
  <2>2. tx'["client"] > 0
    BY <2>1
  <2>3. [d \in Endpoint |-> Phase(state'[d])] = phase
        \/ [d \in Endpoint |-> Phase(state'[d])] = [phase EXCEPT !["client"] = "asking"]
    <3>1. CASE r = "sent"
      <4>1. state' = [state EXCEPT !["client"] = "NEGOTIATING"]
        BY <1>2, <3>1
      <4>2. QED
        BY <1>1, <4>1, PhaseOfStates DEF TypeOK
    <3>2. CASE r # "sent"
      BY <1>2, <3>2
    <3>3. QED
      BY <3>1, <3>2
  <2>4. phase["client"] = "idle"
    BY <1>1, <1>3, PhaseOfStates
  <2>5. HS!Ask
    BY <1>3, <2>2, <2>3, <2>4 DEF HS!Ask
  <2>6. QED
    BY <2>5 DEF HS!AbsNext
<1>7. QED
  BY <1>5, <1>6

\* The server's acceptance is Grant.
LEMMA AcceptStep ==
  ASSUME TypeOK, NegotiationInv, PreOpen("server"), Arrived("server").type = "HELLO",
         NEW mask \in OnHello, conn_accept_hello(Arrived("server"), mask)
  PROVE  [HS!AbsNext]_(HS!absVars)
<1> DEFINE f == Arrived("server")
           agreed == conn_agree(mask, f.caps)
           ack == [conn_send_negotiation(f, "HELLO_ACK") EXCEPT !.caps = agreed]
           phase == [d \in Endpoint |-> Phase(state[d])]
<1>1. "client" \in Endpoint /\ "server" \in Endpoint
  BY DEF Endpoint
<1>2. PICK r \in Outcome :
        /\ Sends("server", ack, r)
        /\ opened' = [opened EXCEPT !["server"] = <<agreed>>]
        /\ IF r = "sent"
             THEN state' = [state EXCEPT !["server"] = "OPEN"]
             ELSE conn_set_closed("server", "protocol")
  BY DEF conn_accept_hello
<1>3. agreed \in SUBSET (Offer \cap Known)
  BY HelloArrived DEF conn_agree
<1>4. tx'["client"] = tx["client"]
  <2>1. tx' = tx \/ tx' = [tx EXCEPT !["server"] = @ + 1]
    BY <1>2 DEF Sends
  <2>2. QED
    BY <1>1, <2>1 DEF TypeOK
<1>5. \E st \in {"OPEN", "CLOSED"} : state' = [state EXCEPT !["server"] = st]
  BY <1>2 DEF conn_set_closed
<1> HIDE DEF ack, agreed, f
<1>6. \E p \in {"open", "closed"} :
        [d \in Endpoint |-> Phase(state'[d])] = [phase EXCEPT !["server"] = p]
  <2>1. CASE state' = [state EXCEPT !["server"] = "OPEN"]
    BY <1>1, <2>1, PhaseOfStates DEF TypeOK
  <2>2. CASE state' = [state EXCEPT !["server"] = "CLOSED"]
    BY <1>1, <2>2, PhaseOfStates DEF TypeOK
  <2>3. QED
    BY <1>5, <2>1, <2>2
<1>7. phase["server"] = "idle" /\ phase["client"] # "idle" /\ tx["client"] > 0
  <2>1. state["client"] \in State /\ state["client"] # "NEW" /\ tx["client"] > 0
    BY <1>1, HelloArrived DEF TypeOK
  <2>2. phase["client"] # "idle"
    BY <1>1, <2>1, PhaseOfStates DEF State
  <2>3. state["server"] = "NEW"
    BY <1>1 DEF PreOpen, FrameComplete, TypeOK, State, NegotiationInv, AgreedOnceOpen
  <2>4. QED
    BY <1>1, <2>1, <2>2, <2>3, PhaseOfStates
<1>8. HS!Grant
  BY <1>2, <1>3, <1>4, <1>6, <1>7 DEF HS!Grant
<1>9. QED
  BY <1>8 DEF HS!AbsNext

\* The client's acceptance of an ACK is Confirm.
LEMMA AckStep ==
  ASSUME TypeOK, NegotiationInv, conn_handle_ack_client,
         Arrived("client").ver = Major["client"] /\ Arrived("client").good
  PROVE  [HS!AbsNext]_(HS!absVars)
<1> DEFINE phase == [d \in Endpoint |-> Phase(state[d])]
<1>1. "client" \in Endpoint
  BY DEF Endpoint
<1>2. /\ opened["server"] # << >> /\ state["client"] = "NEGOTIATING"
      /\ opened' = [opened EXCEPT !["client"] = opened["server"]]
  BY AckInv
<1>3. state' = [state EXCEPT !["client"] = "OPEN"] /\ tx' = tx
  BY DEF conn_handle_ack_client, SendsNothing
<1>4. [d \in Endpoint |-> Phase(state'[d])] = [phase EXCEPT !["client"] = "open"]
  BY <1>1, <1>3, PhaseOfStates DEF TypeOK
<1>5. phase["client"] = "asking"
  BY <1>1, <1>2, PhaseOfStates
<1>6. (tx["client"] > 0)' <=> tx["client"] > 0
  BY <1>3
<1>7. HS!Confirm
  BY <1>2, <1>4, <1>5, <1>6 DEF HS!Confirm
<1>8. QED
  BY <1>7 DEF HS!AbsNext

\* Every turn of poll's loop is a step of the handshake or none.
LEMMA PollStep ==
  ASSUME TypeOK, NegotiationInv, NEW e \in Endpoint, pai_proto_conn_poll(e)
  PROVE  [HS!AbsNext]_(HS!absVars)
<1>1. CASE \/ RecvHeader(e) \/ RecvTornPayload(e) \/ RecvEof(e)
           \/ conn_handle_preopen(e) \/ conn_handle_misplaced(e)
           \/ conn_handle_close(e) \/ conn_reject_stream(e)
           \/ e = "client" /\ conn_handle_nack_client
  <2>1. /\ opened' = opened /\ tx' = tx /\ state[e] # "CLOSED"
        /\ state' = state \/ state' = [state EXCEPT ![e] = "CLOSED"]
    BY <1>1 DEF RecvHeader, RecvTornPayload, RecvEof, conn_handle_preopen,
      conn_handle_misplaced, conn_handle_close, conn_reject_stream,
      conn_handle_nack_client, Reject, SendsNothing, conn_set_closed, capVars,
      StreamFrame, OpenFrame, PreOpen, FrameComplete
  <2>2. (tx["client"] > 0)' <=> tx["client"] > 0
    BY <2>1
  <2>3. QED
    BY <2>1, <2>2, QuietStep
<1>2. CASE conn_handle_ping(e) \/ conn_handle_stream(e) \/ conn_handle_message(e)
  <2>1. state[e] = "OPEN" /\ opened' = opened
    BY <1>2 DEF conn_handle_ping, conn_handle_stream, conn_handle_message,
      StreamFrame, OpenFrame, capVars
  <2>2. /\ state' = state \/ state' = [state EXCEPT ![e] = "CLOSED"]
        /\ tx' = tx \/ tx' = [tx EXCEPT ![e] = @ + 1]
    BY <1>2 DEF conn_handle_ping, conn_handle_stream, conn_handle_message,
      OnMessage, Handled, Sends, SendsNothing, conn_set_closed
  <2>3. QED
    BY <2>1, <2>2, OpenStep
<1>3. CASE e = "client" /\ conn_handle_ack_client
  <2>1. CASE Arrived("client").ver = Major["client"] /\ Arrived("client").good
    BY <1>3, <2>1, AckStep
  <2>2. CASE ~(Arrived("client").ver = Major["client"] /\ Arrived("client").good)
    <3>1. /\ opened' = opened /\ tx' = tx /\ state["client"] # "CLOSED"
          /\ state' = [state EXCEPT !["client"] = "CLOSED"]
      BY <1>3, <2>2 DEF conn_handle_ack_client, Reject, SendsNothing,
        conn_set_closed, capVars, PreOpen, FrameComplete
    <3>2. (tx["client"] > 0)' <=> tx["client"] > 0
      BY <3>1
    <3>3. QED
      BY <1>3, <3>1, <3>2, QuietStep
  <2>3. QED
    BY <2>1, <2>2
<1>4. CASE e = "server" /\ conn_handle_hello_server
  <2>1. /\ PreOpen("server") /\ Arrived("server").type = "HELLO"
        /\ state["server"] # "CLOSED"
    BY <1>4 DEF conn_handle_hello_server, PreOpen, FrameComplete
  <2>2. ASSUME NEW mask \in OnHello, conn_accept_hello(Arrived("server"), mask)
        PROVE  [HS!AbsNext]_(HS!absVars)
    BY <2>1, <2>2, AcceptStep
  <2>3. ASSUME /\ opened' = opened
               /\ tx' = tx \/ tx' = [tx EXCEPT !["server"] = @ + 1]
               /\ state' = [state EXCEPT !["server"] = "CLOSED"]
        PROVE  [HS!AbsNext]_(HS!absVars)
    <3>1. tx'["client"] = tx["client"]
      BY <2>3 DEF TypeOK, Endpoint
    <3>2. (tx["client"] > 0)' <=> tx["client"] > 0
      BY <3>1
    <3>3. QED
      BY <1>4, <2>1, <2>3, <3>2, QuietStep
  <2>4. ASSUME NEW why, NEW reason,
               conn_refuse_hello(Arrived("server"), why, reason)
        PROVE  [HS!AbsNext]_(HS!absVars)
    BY <2>3, <2>4 DEF conn_refuse_hello, Sends, conn_set_closed, capVars
  <2>5. CASE Reject("server") /\ UNCHANGED capVars
    BY <2>3, <2>5 DEF Reject, SendsNothing, conn_set_closed, capVars
  <2>6. QED
    BY <1>4, <2>2, <2>4, <2>5 DEF conn_handle_hello_server
<1>5. QED
  BY <1>1, <1>2, <1>3, <1>4 DEF pai_proto_conn_poll

\* Every step is a step of the handshake or none.
LEMMA NextStep ==
  TypeOK /\ NegotiationInv /\ [Next]_vars => [HS!AbsNext]_(HS!absVars)
<1> SUFFICES ASSUME TypeOK, NegotiationInv, [Next]_vars
             PROVE  [HS!AbsNext]_(HS!absVars)
  OBVIOUS
<1>1. CASE UNCHANGED vars
  BY <1>1 DEF vars, HS!absVars
<1>2. CASE pai_proto_conn_start
  BY <1>2, StartStep
<1>3. ASSUME NEW e \in Endpoint, pai_proto_conn_send(e)
      PROVE  [HS!AbsNext]_(HS!absVars)
  <2>1. /\ state[e] = "OPEN" /\ opened' = opened /\ state' = state
        /\ tx' = tx \/ tx' = [tx EXCEPT ![e] = @ + 1]
    BY <1>3 DEF pai_proto_conn_send, Sends, capVars
  <2>2. QED
    BY <2>1, OpenStep
<1>4. ASSUME NEW e \in Endpoint, pai_proto_conn_destroy(e) \/ Reset(e)
      PROVE  [HS!AbsNext]_(HS!absVars)
  <2>1. /\ opened' = opened /\ tx' = tx /\ state[e] # "CLOSED"
        /\ state' = state \/ state' = [state EXCEPT ![e] = "CLOSED"]
    BY <1>4 DEF pai_proto_conn_destroy, Reset, SendsNothing, capVars
  <2>2. (tx["client"] > 0)' <=> tx["client"] > 0
    BY <2>1
  <2>3. QED
    BY <2>1, <2>2, QuietStep
<1>5. QED
  BY <1>1, <1>2, <1>3, <1>4, PollStep DEF Next

\* The connection implements the abstract handshake: a server grants at most
\* once, to a client that asked; a client opens only with what was granted;
\* a closed end stays closed.
THEOREM HandshakeRefined == Spec => HandshakeSpec
<1>1. Init => HS!AbsInit
  BY PhaseOfStates DEF Init, HS!AbsInit, HS!Ends, Endpoint
<1>2. QED
  BY <1>1, NextStep, NegotiationInvariant, PTL DEF Spec, HandshakeSpec, HS!AbsSpec

-----------------------------------------------------------------------------
(* The stream table, with another implementation at either end. *)

\* One end's table, ordinals, streams the application holds and tokens it got.
InStep(table, seqs, held, got) ==
  /\ \A i, j \in Slot : i # j /\ table[i] # 0 => table[i] # table[j]
  /\ held = {table[i] : i \in Slot} \ {0}
  /\ \A i \in Slot : table[i] # 0 => seqs[i] = got[table[i]]

StreamInv ==
  \A e \in Endpoint : InStep(streams[e], stream_seqs[e], view[e], tokens[e])

\* The slot an id was put in is where it is found.
LEMMA BeginIndex ==
  ASSUME NEW table \in [Slot -> Ids], NEW id \in Ids, stream_index(table, id) = 0,
         NEW i \in Slot
  PROVE  stream_index([table EXCEPT ![i] = id], id) = i
<1>1. \A j \in Slot : table[j] # id
  BY StreamIndexFound
<1>2. PICK t : t = [table EXCEPT ![i] = id]
  OBVIOUS
<1>3. t \in [Slot -> Ids] /\ t[i] = id /\ \A j \in Slot : j # i => t[j] = table[j]
  BY <1>2
<1>4. stream_index(t, id) # 0
  BY <1>3, StreamIndexFound
<1>5. stream_index(t, id) \in Slot /\ t[stream_index(t, id)] = id
  BY <1>3, <1>4, StreamIndexFound
<1>6. QED
  BY <1>1, <1>2, <1>3, <1>5

\* A stream begun in a free slot: no slot held its id, and its ordinal and its
\* count start together.
LEMMA BeginInStep ==
  ASSUME NEW table \in [Slot -> Ids], NEW seqs \in [Slot -> Nat], NEW held,
         NEW got \in [Ids -> Nat], InStep(table, seqs, held, got),
         NEW id \in Ids, id # 0, stream_index(table, id) = 0,
         NEW i \in Slot, i = stream_index(table, 0)
  PROVE  InStep([table EXCEPT ![i] = id], [seqs EXCEPT ![i] = 0], held \cup {id},
                [got EXCEPT ![id] = 0])
<1>1. \A j \in Slot : table[j] # id
  BY StreamIndexFound
<1>2. table[i] = 0
  <2>1. 0 \in Ids /\ stream_index(table, 0) # 0
    BY IdsAssumption, BoundsAssumption DEF Slot
  <2>2. QED
    BY <2>1, StreamIndexFound
<1>3. PICK t : t = [table EXCEPT ![i] = id]
  OBVIOUS
<1>4. t \in [Slot -> Ids] /\ t[i] = id /\ \A j \in Slot : j # i => t[j] = table[j]
  BY <1>3
<1>6. held \cup {id} = {t[j] : j \in Slot} \ {0}
  BY <1>1, <1>2, <1>4 DEF InStep
<1>7. \A j, k \in Slot : j # k /\ t[j] # 0 => t[j] # t[k]
  BY <1>1, <1>4 DEF InStep
<1>8. \A j \in Slot : t[j] # 0 => [seqs EXCEPT ![i] = 0][j] = [got EXCEPT ![id] = 0][t[j]]
  BY <1>1, <1>4 DEF InStep
<1>9. QED
  BY <1>3, <1>6, <1>7, <1>8 DEF InStep

\* Ending a stream frees the one slot that holds it.
LEMMA EndInStep ==
  ASSUME NEW s \in [table: [Slot -> Ids], seqs: [Slot -> Nat]], NEW held,
         NEW got \in [Ids -> Nat], InStep(s.table, s.seqs, held, got), NEW id \in Ids
  PROVE  InStep(stream_end(s, id).table, stream_end(s, id).seqs, held \ {id},
                [got EXCEPT ![id] = 0])
<1>1. PICK i \in Nat : i = stream_index(s.table, id)
  BY StreamIndexFound
<1>2. CASE i = 0
  <2>1. \A j \in Slot : s.table[j] # id
    BY <1>1, <1>2, StreamIndexFound
  <2>2. stream_end(s, id) = s
    BY <1>1, <1>2 DEF stream_end
  <2>3. QED
    BY <2>1, <2>2 DEF InStep
<1>3. CASE i # 0
  <2>1. i \in Slot /\ s.table[i] = id
    BY <1>1, <1>3, StreamIndexFound
  <2>2. PICK t : t = [s.table EXCEPT ![i] = 0]
    OBVIOUS
  <2>3. PICK q : q = [s.seqs EXCEPT ![i] = 0]
    OBVIOUS
  <2>4. stream_end(s, id).table = t /\ stream_end(s, id).seqs = q
    BY <1>1, <1>3, <2>2, <2>3 DEF stream_end
  <2>5. t[i] = 0 /\ \A j \in Slot : j # i => t[j] = s.table[j] /\ q[j] = s.seqs[j]
    BY <2>1, <2>2, <2>3
  <2>6. \A j \in Slot : j # i /\ s.table[j] # 0 => s.table[j] # id
    BY <2>1 DEF InStep
  <2>7. held \ {id} = {t[j] : j \in Slot} \ {0}
    <3>1. \A j \in Slot : t[j] # 0 => j # i /\ t[j] = s.table[j] /\ t[j] # id
      BY <2>5, <2>6
    <3>2. \A j \in Slot : s.table[j] # id /\ s.table[j] # 0 => t[j] = s.table[j]
      BY <2>1, <2>5
    <3>3. held = {s.table[j] : j \in Slot} \ {0}
      BY DEF InStep
    <3>4. ASSUME NEW x \in held \ {id} PROVE x \in {t[j] : j \in Slot} \ {0}
      BY <3>2, <3>3, <3>4
    <3>5. ASSUME NEW x \in {t[j] : j \in Slot} \ {0} PROVE x \in held \ {id}
      BY <3>1, <3>3, <3>5
    <3>6. QED
      BY <3>4, <3>5
  <2>8. \A j, k \in Slot : j # k /\ t[j] # 0 => t[j] # t[k]
    BY <2>5 DEF InStep
  <2>9. \A j \in Slot : t[j] # 0 => q[j] = [got EXCEPT ![id] = 0][t[j]]
    <3>1. \A j \in Slot : s.table[j] \in Ids
      OBVIOUS
    <3>2. QED
      BY <2>5, <2>6, <3>1 DEF InStep
  <2>10. InStep(t, q, held \ {id}, [got EXCEPT ![id] = 0])
    BY <2>7, <2>8, <2>9 DEF InStep
  <2>11. QED
    BY <2>4, <2>10
<1>4. QED
  BY <1>2, <1>3

\* A token is counted by the table and by the application, on one stream;
\* one with id 0 finds a free slot, whose ordinal nobody reads.
LEMMA TokenInStep ==
  ASSUME NEW table \in [Slot -> Ids], NEW seqs \in [Slot -> Nat], NEW held,
         NEW got \in [Ids -> Nat], InStep(table, seqs, held, got),
         NEW id \in Ids, NEW i \in Slot, i = stream_index(table, id)
  PROVE  InStep(table, [seqs EXCEPT ![i] = @ + 1], held, [got EXCEPT ![id] = @ + 1])
<1>1. table[i] = id
  <2>1. stream_index(table, id) # 0
    BY BoundsAssumption DEF Slot
  <2>2. QED
    BY <2>1, StreamIndexFound
<1>2. \A j \in Slot : j # i /\ table[j] # 0 => table[j] # id
  BY <1>1 DEF InStep
<1>3. \A j \in Slot : table[j] # 0 =>
        [seqs EXCEPT ![i] = @ + 1][j] = [got EXCEPT ![id] = @ + 1][table[j]]
  BY <1>1, <1>2 DEF InStep
<1>4. QED
  BY <1>3 DEF InStep

\* Steps that leave table and application alone, and steps of one end only.
LEMMA OneEndInStep ==
  ASSUME TypeOK, StreamInv, NEW e \in Endpoint, NEW table, NEW seqs, NEW held, NEW got,
         InStep(table, seqs, held, got),
         streams' = [streams EXCEPT ![e] = table],
         stream_seqs' = [stream_seqs EXCEPT ![e] = seqs],
         view' = [view EXCEPT ![e] = held],
         tokens' = [tokens EXCEPT ![e] = got]
  PROVE  StreamInv'
BY DEF TypeOK, StreamInv

\* A refused frame may have opened its stream.
LEMMA RejectStreamInStep ==
  ASSUME TypeOK, StreamInv, NEW e \in Endpoint, conn_reject_stream(e)
  PROVE  StreamInv'
<1> DEFINE f == Arrived(e)
<1>1. f \in Frame /\ f.id \in Ids
  BY ArrivedType DEF conn_reject_stream, StreamFrame, OpenFrame, FrameComplete, Frame
<1>2. CASE f.start /\ stream_begin_ok(e, f)
  <2> DEFINE i == stream_index(streams[e], 0)
  <2>1. /\ streams' = [streams EXCEPT ![e] = [streams[e] EXCEPT ![i] = f.id]]
        /\ stream_seqs' = [stream_seqs EXCEPT ![e] = [stream_seqs[e] EXCEPT ![i] = 0]]
        /\ view' = [view EXCEPT ![e] = view[e] \cup {f.id}]
        /\ tokens' = [tokens EXCEPT ![e] = [tokens[e] EXCEPT ![f.id] = 0]]
    BY <1>2 DEF conn_reject_stream, stream_begin, TypeOK
  <2>2. /\ streams[e] \in [Slot -> Ids] /\ stream_seqs[e] \in [Slot -> Nat]
        /\ tokens[e] \in [Ids -> Nat]
        /\ InStep(streams[e], stream_seqs[e], view[e], tokens[e])
    BY DEF TypeOK, StreamInv
  <2>3. f.id # 0 /\ stream_index(streams[e], f.id) = 0 /\ i \in Slot
    BY <1>2, <2>2, IdsAssumption, StreamIndexFound DEF stream_begin_ok
  <2> HIDE DEF f, i
  <2>4. InStep([streams[e] EXCEPT ![i] = f.id], [stream_seqs[e] EXCEPT ![i] = 0],
               view[e] \cup {f.id}, [tokens[e] EXCEPT ![f.id] = 0])
    BY <1>1, <2>2, <2>3, BeginInStep DEF i
  <2>5. QED
    BY <2>1, <2>4, OneEndInStep
<1>3. CASE ~(f.start /\ stream_begin_ok(e, f))
  <2>1. UNCHANGED streamVars
    BY <1>3 DEF conn_reject_stream
  <2>2. QED
    BY <2>1 DEF streamVars, StreamInv, InStep
<1>4. QED
  BY <1>2, <1>3

\* A stream frame that is taken: begin, then token, data or end.
LEMMA HandleStreamInStep ==
  ASSUME TypeOK, StreamInv, NEW e \in Endpoint, conn_handle_stream(e)
  PROVE  StreamInv'
<1> DEFINE f == Arrived(e)
           terminal == f.end \/ f.type = "STREAM_CLOSE"
           s == stream_begin(e, f)
           i == stream_index(s.table, f.id)
           s2 == IF terminal THEN stream_end(s, f.id)
                 ELSE IF f.type = "TOKEN"
                   THEN [s EXCEPT !.seqs[i] = @ + 1] ELSE s
           count == (IF f.start THEN 0 ELSE tokens[e][f.id])
                      + (IF f.type = "TOKEN" THEN 1 ELSE 0)
           held == IF f.start THEN view[e] \cup {f.id} ELSE view[e]
           got == IF f.start THEN [tokens[e] EXCEPT ![f.id] = 0] ELSE tokens[e]
<1>1. f \in Frame /\ f.id \in Ids /\ f.start \in BOOLEAN
  BY ArrivedType DEF conn_handle_stream, StreamFrame, OpenFrame, FrameComplete, Frame
<1>2. /\ ~StreamRefused(e, f)
      /\ streams' = [streams EXCEPT ![e] = s2.table]
      /\ stream_seqs' = [stream_seqs EXCEPT ![e] = s2.seqs]
      /\ view' = [view EXCEPT ![e] =
                    IF terminal THEN @ \ {f.id}
                    ELSE IF f.start THEN @ \cup {f.id} ELSE @]
      /\ tokens' = [tokens EXCEPT ![e][f.id] = IF terminal THEN 0 ELSE count]
  BY DEF conn_handle_stream
<1>3. /\ streams[e] \in [Slot -> Ids] /\ stream_seqs[e] \in [Slot -> Nat]
      /\ tokens[e] \in [Ids -> Nat] /\ view \in [Endpoint -> SUBSET Ids]
      /\ tokens \in [Endpoint -> [Ids -> Nat]]
      /\ InStep(streams[e], stream_seqs[e], view[e], tokens[e])
  BY DEF TypeOK, StreamInv
<1>4. /\ s \in [table: [Slot -> Ids], seqs: [Slot -> Nat]]
      /\ got \in [Ids -> Nat] /\ got[f.id] = (IF f.start THEN 0 ELSE tokens[e][f.id])
      /\ InStep(s.table, s.seqs, held, got)
      /\ i \in Slot
      /\ f.start => f.id \notin view[e] /\ f.id # 0
  <2>1. CASE f.start
    <3> DEFINE k == stream_index(streams[e], 0)
    <3>1. f.id # 0 /\ stream_index(streams[e], f.id) = 0 /\ k \in Slot
      BY <1>2, <1>3, <2>1, IdsAssumption, StreamIndexFound
      DEF StreamRefused, stream_begin_ok
    <3>2. s = [table |-> [streams[e] EXCEPT ![k] = f.id],
               seqs |-> [stream_seqs[e] EXCEPT ![k] = 0]]
      BY <2>1 DEF stream_begin
    <3>3. \A j \in Slot : streams[e][j] # f.id
      BY <1>1, <1>3, <3>1, StreamIndexFound
    <3>4. f.id \notin view[e]
      BY <1>3, <3>3 DEF InStep
    <3>5. [streams[e] EXCEPT ![k] = f.id] \in [Slot -> Ids]
          /\ [stream_seqs[e] EXCEPT ![k] = 0] \in [Slot -> Nat]
      BY <1>1, <1>3
    <3> HIDE DEF f, k, s
    <3>7. InStep([streams[e] EXCEPT ![k] = f.id], [stream_seqs[e] EXCEPT ![k] = 0],
                 view[e] \cup {f.id}, [tokens[e] EXCEPT ![f.id] = 0])
      BY <1>1, <1>3, <3>1, BeginInStep DEF k
    <3>8. stream_index([streams[e] EXCEPT ![k] = f.id], f.id) = k
      BY <1>1, <1>3, <3>1, BeginIndex
    <3>9. QED
      BY <1>1, <1>3, <2>1, <3>1, <3>2, <3>4, <3>5, <3>7, <3>8
  <2>2. CASE ~f.start
    <3>1. s = [table |-> streams[e], seqs |-> stream_seqs[e]]
      BY <2>2 DEF stream_begin
    <3>2. stream_index(streams[e], f.id) # 0
      BY <1>2, <2>2 DEF StreamRefused
    <3>3. i \in Slot
      BY <1>1, <1>3, <3>1, <3>2, StreamIndexFound
    <3>4. QED
      BY <1>3, <2>2, <3>1, <3>3
  <2>3. QED
    BY <1>1, <2>1, <2>2
<1>a. PICK table, seqs : /\ table = s2.table /\ seqs = s2.seqs
                         /\ streams' = [streams EXCEPT ![e] = table]
                         /\ stream_seqs' = [stream_seqs EXCEPT ![e] = seqs]
  BY <1>2
<1> HIDE DEF f, s, got, held
<1>5. CASE terminal
  <2>1. InStep(table, seqs, held \ {f.id}, [got EXCEPT ![f.id] = 0])
    BY <1>1, <1>4, <1>5, <1>a, EndInStep
  <2>2. view' = [view EXCEPT ![e] = held \ {f.id}]
    BY <1>2, <1>4, <1>5 DEF held
  <2>3. tokens' = [tokens EXCEPT ![e] = [got EXCEPT ![f.id] = 0]]
    BY <1>1, <1>2, <1>3, <1>5 DEF got
  <2>4. QED
    BY <1>a, <2>1, <2>2, <2>3, OneEndInStep
<1>6. CASE ~terminal
  <2>1. view' = [view EXCEPT ![e] = held]
    BY <1>2, <1>3, <1>6 DEF held
  <2>2. CASE f.type = "TOKEN"
    <3>1. s2.table = s.table /\ s2.seqs = [s.seqs EXCEPT ![i] = @ + 1]
      BY <1>4, <1>6, <2>2
    <3>2. tokens' = [tokens EXCEPT ![e] = [got EXCEPT ![f.id] = @ + 1]]
      BY <1>1, <1>2, <1>3, <1>4, <1>6, <2>2 DEF got
    <3>3. i = stream_index(s.table, f.id) /\ s.table \in [Slot -> Ids] /\ s.seqs \in [Slot -> Nat]
      BY <1>4
    <3> HIDE DEF s2, i
    <3>4. InStep(s.table, [s.seqs EXCEPT ![i] = @ + 1], held, [got EXCEPT ![f.id] = @ + 1])
      BY <1>1, <1>4, <3>3, TokenInStep
    <3>5. InStep(table, seqs, held, [got EXCEPT ![f.id] = @ + 1])
      BY <1>a, <3>1, <3>4
    <3>6. QED
      BY <1>a, <2>1, <3>2, <3>5, OneEndInStep
  <2>3. CASE f.type # "TOKEN"
    <3>1. s2 = s
      BY <1>6, <2>3
    <3>2. tokens' = [tokens EXCEPT ![e] = got]
      <4>a. tokens[e][f.id] \in Nat
        BY <1>1, <1>3
      <4>b. count = got[f.id]
        BY <1>4, <2>3, <4>a
      <4>1. tokens' = [tokens EXCEPT ![e][f.id] = got[f.id]]
        BY <1>2, <1>6, <4>b
      <4>2. [tokens[e] EXCEPT ![f.id] = got[f.id]] = got
        BY <1>1, <1>3 DEF got
      <4>3. QED
        BY <1>3, <4>1, <4>2
    <3> HIDE DEF s2
    <3>3. QED
      BY <1>4, <1>a, <2>1, <3>1, <3>2, OneEndInStep
  <2>4. QED
    BY <2>2, <2>3
<1>7. QED
  BY <1>5, <1>6

\* COMPLETE ends its stream for both.
LEMMA HandleMessageInStep ==
  ASSUME TypeOK, StreamInv, NEW e \in Endpoint, conn_handle_message(e)
  PROVE  StreamInv'
<1> DEFINE f == Arrived(e)
           s == [table |-> streams[e], seqs |-> stream_seqs[e]]
           s2 == IF f.type = "COMPLETE" THEN stream_end(s, f.id) ELSE s
<1>1. f \in Frame /\ f.id \in Ids
  BY ArrivedType DEF conn_handle_message, OpenFrame, FrameComplete, Frame
<1>2. /\ streams' = [streams EXCEPT ![e] = s2.table]
      /\ stream_seqs' = [stream_seqs EXCEPT ![e] = s2.seqs]
      /\ view' = [view EXCEPT ![e] =
                    IF f.type = "COMPLETE" THEN @ \ {f.id} ELSE @]
      /\ tokens' = IF f.type = "COMPLETE"
                     THEN [tokens EXCEPT ![e][f.id] = 0] ELSE tokens
  BY DEF conn_handle_message
<1>3. /\ s \in [table: [Slot -> Ids], seqs: [Slot -> Nat]] /\ tokens[e] \in [Ids -> Nat]
      /\ view \in [Endpoint -> SUBSET Ids] /\ tokens \in [Endpoint -> [Ids -> Nat]]
      /\ InStep(s.table, s.seqs, view[e], tokens[e])
  BY DEF TypeOK, StreamInv
<1> HIDE DEF f, s
<1>4. CASE f.type = "COMPLETE"
  <2>1. InStep(stream_end(s, f.id).table, stream_end(s, f.id).seqs, view[e] \ {f.id},
               [tokens[e] EXCEPT ![f.id] = 0])
    BY <1>1, <1>3, EndInStep
  <2>2. view' = [view EXCEPT ![e] = view[e] \ {f.id}]
        /\ tokens' = [tokens EXCEPT ![e] = [tokens[e] EXCEPT ![f.id] = 0]]
    BY <1>2, <1>3, <1>4
  <2>3. QED
    BY <1>2, <1>4, <2>1, <2>2, OneEndInStep
<1>5. CASE f.type # "COMPLETE"
  <2>1. /\ view' = [view EXCEPT ![e] = view[e]]
        /\ tokens' = [tokens EXCEPT ![e] = tokens[e]]
    BY <1>2, <1>3, <1>5
  <2>2. streams' = [streams EXCEPT ![e] = s.table]
        /\ stream_seqs' = [stream_seqs EXCEPT ![e] = s.seqs]
    BY <1>2, <1>5
  <2>3. QED
    BY <1>3, <2>1, <2>2, OneEndInStep
<1>6. QED
  BY <1>4, <1>5

\* Every other step leaves the streams alone.
LEMMA QuietStreams ==
  ASSUME NEW e \in Endpoint,
         \/ pai_proto_conn_start \/ pai_proto_conn_send(e) \/ pai_proto_conn_destroy(e)
         \/ Reset(e) \/ ForeignSend(e) \/ RecvHeader(e) \/ RecvTornPayload(e) \/ RecvEof(e)
         \/ conn_handle_hello_server \/ conn_handle_ack_client \/ conn_handle_nack_client
         \/ conn_handle_preopen(e) \/ conn_handle_misplaced(e) \/ conn_handle_ping(e)
         \/ conn_handle_close(e)
  PROVE  UNCHANGED streamVars
BY DEF pai_proto_conn_start, pai_proto_conn_send, pai_proto_conn_destroy, Reset,
   ForeignSend, RecvHeader, RecvTornPayload, RecvEof, conn_handle_hello_server,
   conn_refuse_hello, conn_accept_hello, conn_handle_ack_client,
   conn_handle_nack_client, conn_handle_preopen, conn_handle_misplaced,
   conn_handle_ping, conn_handle_close, streamVars

\* The steps of both specifications.
ForeignNext == Next \/ \E e \in Endpoint : ForeignSend(e)

\* What another implementation sends are frames, too.
LEMMA ForeignType ==
  ASSUME TypeOK, NEW e \in Endpoint, ForeignSend(e)
  PROVE  TypeOK'
<1>1. PICK g \in WildFrames[e] :
        LET f == [g EXCEPT !.n = tx[e] + 1] IN
        /\ Sends(e, f, "sent")
        /\ chan' = [chan EXCEPT ![Peer(e)] = @ \o conn_send_unchecked(f, "sent")]
  BY DEF ForeignSend
<1> DEFINE f == [g EXCEPT !.n = tx[e] + 1]
<1>2. f \in Frame
  <2>1. g \in Frame /\ tx[e] + 1 \in Nat
    BY FramesAssumption DEF TypeOK
  <2>2. QED
    BY <2>1 DEF Frame
<1>3. chan[Peer(e)] \o conn_send_unchecked(f, "sent") \in Seq(Chunk)
  BY <1>2, PeerType, WireType, ConcatProperties DEF TypeOK, Outcome
<1>4. chan' \in [Endpoint -> Seq(Chunk)]
  BY <1>1, <1>3 DEF TypeOK
<1>5. faults' \in Nat /\ tx' \in [Endpoint -> Nat]
  BY <1>1, SendsType
<1>6. sends' \in [Endpoint -> Nat]
  BY DEF ForeignSend, TypeOK
<1>7. QED
  BY <1>4, <1>5, <1>6 DEF ForeignSend, TypeOK, capVars, streamVars

\* Types, with another implementation at either end.
LEMMA ForeignNextType == TypeOK /\ [ForeignNext]_vars => TypeOK'
<1> SUFFICES ASSUME TypeOK, [ForeignNext]_vars PROVE TypeOK'
  OBVIOUS
<1>1. CASE [Next]_vars
  BY <1>1, NextType
<1>2. CASE \E e \in Endpoint : ForeignSend(e)
  BY <1>2, ForeignType
<1>3. QED
  BY <1>1, <1>2 DEF ForeignNext

\* Every step keeps table and application in step.
LEMMA NextInStep == TypeOK /\ StreamInv /\ [ForeignNext]_vars => StreamInv'
<1> SUFFICES ASSUME TypeOK, StreamInv, [ForeignNext]_vars PROVE StreamInv'
  OBVIOUS
<1>1. CASE UNCHANGED streamVars
  BY <1>1 DEF streamVars, StreamInv
<1>2. ASSUME NEW e \in Endpoint, pai_proto_conn_poll(e) PROVE StreamInv'
  <2>1. CASE conn_reject_stream(e) \/ conn_handle_stream(e) \/ conn_handle_message(e)
    BY <2>1, RejectStreamInStep, HandleStreamInStep, HandleMessageInStep
  <2>2. CASE ~(conn_reject_stream(e) \/ conn_handle_stream(e) \/ conn_handle_message(e))
    BY <1>1, <1>2, <2>2, QuietStreams DEF pai_proto_conn_poll
  <2>3. QED
    BY <2>1, <2>2
<1>3. CASE UNCHANGED vars
  BY <1>1, <1>3 DEF vars, streamVars
<1>4. CASE ForeignNext /\ ~\E e \in Endpoint : pai_proto_conn_poll(e)
  <2>1. "client" \in Endpoint
    BY DEF Endpoint
  <2>2. QED
    BY <1>1, <1>4, <2>1, QuietStreams DEF ForeignNext, Next
<1>5. QED
  BY <1>2, <1>3, <1>4

\* The invariant of the streams, for the specification with foreign frames.
LEMMA StreamInvariant == ForeignSpec => [](TypeOK /\ StreamInv)
<1>1. Init => TypeOK /\ StreamInv
  <2> SUFFICES ASSUME Init PROVE StreamInv
    BY InitType
  <2>1. ASSUME NEW e \in Endpoint
        PROVE  InStep(streams[e], stream_seqs[e], view[e], tokens[e])
    <3>1. view[e] = {} /\ \A i \in Slot : streams[e][i] = 0
      BY DEF Init
    <3>2. QED
      BY <3>1 DEF InStep
  <2>2. QED
    BY <2>1 DEF StreamInv
<1>2. TypeOK /\ StreamInv /\ [ForeignNext]_vars => (TypeOK /\ StreamInv)'
  BY ForeignNextType, NextInStep
<1>3. QED
  BY <1>1, <1>2, PTL DEF ForeignSpec, ForeignNext

\* The stream table is what the application believes, whatever the peer
\* sends: no id in two slots, no stream the application does not know of, and
\* none that it holds and the table has lost.
THEOREM TableMatchesApplication == ForeignSpec => []StreamsInStep
<1>1. TypeOK /\ StreamInv => StreamsInStep
  BY DEF StreamInv, StreamsInStep, InStep
<1>2. QED
  BY <1>1, StreamInvariant, PTL

\* The ordinal a token is delivered with counts the tokens of its own stream,
\* even in a slot that another stream, or a stray token with id 0, used before.
THEOREM TokensNumbered == ForeignSpec => []OrdinalsExact
<1>1. TypeOK /\ StreamInv => OrdinalsExact
  BY DEF StreamInv, OrdinalsExact, InStep
<1>2. QED
  BY <1>1, StreamInvariant, PTL

-----------------------------------------------------------------------------
(* What an end opens with, and that it closes for good. *)

\* Only an accepted HELLO and an ACK open an end.
LEMMA QuietCaps ==
  ASSUME NEW e \in Endpoint,
         \/ pai_proto_conn_start \/ pai_proto_conn_send(e) \/ pai_proto_conn_destroy(e)
         \/ Reset(e) \/ ForeignSend(e) \/ RecvHeader(e) \/ RecvTornPayload(e) \/ RecvEof(e)
         \/ conn_handle_nack_client \/ conn_handle_preopen(e) \/ conn_handle_misplaced(e)
         \/ conn_handle_ping(e) \/ conn_handle_close(e) \/ conn_reject_stream(e)
         \/ conn_handle_stream(e) \/ conn_handle_message(e)
  PROVE  UNCHANGED <<opened, negotiated_caps>>
BY DEF pai_proto_conn_start, pai_proto_conn_send, pai_proto_conn_destroy, Reset,
   ForeignSend, RecvHeader, RecvTornPayload, RecvEof, conn_handle_nack_client,
   conn_handle_preopen, conn_handle_misplaced, conn_handle_ping, conn_handle_close,
   conn_reject_stream, conn_handle_stream, conn_handle_message, capVars

\* The server opens with capabilities it knows.
LEMMA HelloKnown ==
  ASSUME TypeOK, CapsKnown, conn_handle_hello_server
  PROVE  CapsKnown'
<1>1. opened \in [Endpoint -> Seq(SUBSET Caps)] /\ "server" \in Endpoint
  BY DEF TypeOK, Endpoint
<1>2. UNCHANGED opened \/ \E mask : opened' = [opened EXCEPT !["server"] =
                                      <<conn_agree(mask, Arrived("server").caps)>>]
  BY DEF conn_handle_hello_server, conn_refuse_hello, conn_accept_hello, capVars
<1>3. \A mask, offer : conn_agree(mask, offer) \subseteq Known
  BY DEF conn_agree
<1>4. CASE UNCHANGED opened
  BY <1>4 DEF CapsKnown
<1>5. ASSUME NEW mask, opened' = [opened EXCEPT !["server"] =
                                    <<conn_agree(mask, Arrived("server").caps)>>]
      PROVE  CapsKnown'
  <2>1. PICK caps : caps = conn_agree(mask, Arrived("server").caps) /\ caps \subseteq Known
    BY <1>3
  <2>2. opened' = [opened EXCEPT !["server"] = <<caps>>]
    BY <1>5, <2>1
  <2>3. QED
    BY <1>1, <2>1, <2>2 DEF CapsKnown
<1>6. QED
  BY <1>2, <1>4, <1>5

\* The client opens with what the ACK names and it knows.
LEMMA AckKnown ==
  ASSUME TypeOK, CapsKnown, conn_handle_ack_client
  PROVE  CapsKnown'
<1>1. opened \in [Endpoint -> Seq(SUBSET Caps)] /\ "client" \in Endpoint
  BY DEF TypeOK, Endpoint
<1>2. UNCHANGED opened \/ opened' = [opened EXCEPT !["client"] =
                                       <<Arrived("client").caps \cap Known>>]
  BY DEF conn_handle_ack_client, capVars
<1>3. QED
  BY <1>1, <1>2 DEF CapsKnown

\* Whatever the peer offers or answers, and whatever else it sends, an end
\* never opens with a capability it does not know.
THEOREM CapabilitiesKnown == ForeignSpec => []CapsKnown
<1>1. Init => TypeOK /\ CapsKnown
  <2>1. Init => CapsKnown
    BY DEF Init, CapsKnown
  <2>2. QED
    BY <2>1, InitType
<1>2. TypeOK /\ CapsKnown /\ [ForeignNext]_vars => CapsKnown'
  <2> SUFFICES ASSUME TypeOK, CapsKnown, [ForeignNext]_vars PROVE CapsKnown'
    OBVIOUS
  <2>1. CASE UNCHANGED opened
    BY <2>1 DEF CapsKnown
  <2>2. ASSUME NEW e \in Endpoint, pai_proto_conn_poll(e) PROVE CapsKnown'
    BY <2>1, <2>2, HelloKnown, AckKnown, QuietCaps DEF pai_proto_conn_poll
  <2>3. CASE UNCHANGED vars
    BY <2>1, <2>3 DEF vars
  <2>4. CASE ForeignNext /\ ~\E e \in Endpoint : pai_proto_conn_poll(e)
    <3>1. "client" \in Endpoint
      BY DEF Endpoint
    <3>2. QED
      BY <2>1, <2>4, <3>1, QuietCaps DEF ForeignNext, Next
  <2>5. QED
    BY <2>2, <2>3, <2>4
<1>3. TypeOK /\ CapsKnown /\ [ForeignNext]_vars => (TypeOK /\ CapsKnown)'
  BY <1>2, ForeignNextType
<1>4. QED
  BY <1>1, <1>3, PTL DEF ForeignSpec, ForeignNext

\* A step of end e: the other end keeps its state, and so does e once closed.
OwnStep(e) ==
  /\ \A d \in Endpoint \ {e} :
       /\ state'[d] = state[d] /\ rx'[d] = rx[d] /\ closes'[d] = closes[d]
       /\ view'[d] = view[d] /\ negotiated_caps'[d] = negotiated_caps[d]
  /\ \/ state[e] # "CLOSED"
     \/ /\ state'[e] = state[e] /\ rx'[e] = rx[e] /\ closes'[e] = closes[e]
        /\ view'[e] = view[e] /\ negotiated_caps'[e] = negotiated_caps[e]

\* What a frame that is taken changes, besides the channels.
LEMMA ConsumeOwn ==
  ASSUME TypeOK, NEW e \in Endpoint, NEW wire, Consume(e, wire)
  PROVE  \A d \in Endpoint \ {e} : rx'[d] = rx[d]
BY DEF Consume, TypeOK

\* Closing is about one end.
LEMMA ClosedOwn ==
  ASSUME TypeOK, NEW e \in Endpoint, NEW reason, conn_set_closed(e, reason)
  PROVE  \A d \in Endpoint \ {e} : state'[d] = state[d] /\ closes'[d] = closes[d]
BY DEF conn_set_closed, TypeOK

\* Sends, losses and the network touch neither state nor history of an end;
\* destroying and starting touch the caller's.
LEMMA CallsOwn ==
  ASSUME TypeOK, NEW e \in Endpoint,
         \/ pai_proto_conn_send(e) \/ pai_proto_conn_destroy(e) \/ Reset(e) \/ ForeignSend(e)
         \/ e = "client" /\ pai_proto_conn_start
  PROVE  OwnStep(e)
<1>1. UNCHANGED <<rx, closes, view, negotiated_caps>>
  BY DEF pai_proto_conn_send, pai_proto_conn_destroy, Reset, ForeignSend,
     pai_proto_conn_start, capVars, streamVars
<1>2. \/ UNCHANGED state
      \/ state[e] # "CLOSED" /\ \E st : state' = [state EXCEPT ![e] = st]
  BY DEF pai_proto_conn_send, pai_proto_conn_destroy, Reset, ForeignSend,
     pai_proto_conn_start
<1>3. QED
  BY <1>1, <1>2 DEF OwnStep, TypeOK

\* A turn of poll's loop happens at an end that is not closed.
LEMMA PollOpen ==
  ASSUME NEW e \in Endpoint, pai_proto_conn_poll(e)
  PROVE  state[e] # "CLOSED"
BY DEF pai_proto_conn_poll, RecvHeader, RecvTornPayload, RecvEof,
   conn_handle_hello_server, conn_handle_ack_client, conn_handle_nack_client,
   conn_handle_preopen, conn_handle_misplaced, conn_handle_ping, conn_handle_close,
   conn_reject_stream, conn_handle_stream, conn_handle_message, PreOpen, StreamFrame,
   OpenFrame, FrameComplete

\* The other end's state and callbacks during a turn of poll.
LEMMA PollStates ==
  ASSUME TypeOK, NEW e \in Endpoint, pai_proto_conn_poll(e)
  PROVE  \A d \in Endpoint \ {e} : state'[d] = state[d] /\ closes'[d] = closes[d]
<1>1. CASE UNCHANGED <<state, closes>>
  BY <1>1
<1>2. CASE \E reason : conn_set_closed(e, reason)
  BY <1>2, ClosedOwn
<1>3. CASE UNCHANGED closes /\ \E st : state' = [state EXCEPT ![e] = st]
  BY <1>3 DEF TypeOK
<1>4. CASE RecvHeader(e) \/ RecvTornPayload(e) \/ RecvEof(e)
  BY <1>1, <1>2, <1>4 DEF RecvHeader, RecvTornPayload, RecvEof
<1>5. CASE e = "server" /\ conn_handle_hello_server
  BY <1>2, <1>3, <1>5 DEF conn_handle_hello_server, conn_refuse_hello, conn_accept_hello,
     Reject
<1>6. CASE e = "client" /\ (conn_handle_ack_client \/ conn_handle_nack_client)
  BY <1>2, <1>3, <1>6 DEF conn_handle_ack_client, conn_handle_nack_client, Reject
<1>7. CASE conn_handle_preopen(e) \/ conn_handle_misplaced(e) \/ conn_reject_stream(e)
           \/ conn_handle_close(e)
  BY <1>2, <1>7 DEF conn_handle_preopen, conn_handle_misplaced, conn_reject_stream,
     conn_handle_close, Reject
<1>8. CASE conn_handle_ping(e) \/ conn_handle_stream(e) \/ conn_handle_message(e)
  BY <1>1, <1>2, <1>8 DEF conn_handle_ping, conn_handle_stream, conn_handle_message,
     OnMessage, Handled
<1>9. QED
  BY <1>4, <1>5, <1>6, <1>7, <1>8 DEF pai_proto_conn_poll

\* The other end's frames, streams and capabilities during a turn of poll.
LEMMA PollHistory ==
  ASSUME TypeOK, NEW e \in Endpoint, pai_proto_conn_poll(e)
  PROVE  \A d \in Endpoint \ {e} :
           rx'[d] = rx[d] /\ view'[d] = view[d] /\ negotiated_caps'[d] = negotiated_caps[d]
<1>1. UNCHANGED rx \/ \E wire : Consume(e, wire)
  BY DEF pai_proto_conn_poll, RecvHeader, RecvTornPayload, RecvEof,
     conn_handle_hello_server, conn_refuse_hello, conn_accept_hello,
     conn_handle_ack_client, conn_handle_nack_client, conn_handle_preopen,
     conn_handle_misplaced, conn_handle_ping, conn_handle_close, conn_reject_stream,
     conn_handle_stream, conn_handle_message, OnMessage, Handled, Reject
<1>2. UNCHANGED view \/ \E held : view' = [view EXCEPT ![e] = held]
  <2>1. CASE conn_reject_stream(e) \/ conn_handle_stream(e) \/ conn_handle_message(e)
    BY <2>1 DEF conn_reject_stream, conn_handle_stream, conn_handle_message, streamVars
  <2>2. CASE ~(conn_reject_stream(e) \/ conn_handle_stream(e) \/ conn_handle_message(e))
    BY <2>2, QuietStreams DEF pai_proto_conn_poll, streamVars
  <2>3. QED
    BY <2>1, <2>2
<1>3. UNCHANGED negotiated_caps
      \/ \E caps : negotiated_caps' = [negotiated_caps EXCEPT ![e] = caps]
  <2>1. CASE e = "server" /\ conn_handle_hello_server
    BY <2>1 DEF conn_handle_hello_server, conn_refuse_hello, conn_accept_hello, capVars
  <2>2. CASE e = "client" /\ conn_handle_ack_client
    BY <2>2 DEF conn_handle_ack_client, capVars
  <2>3. CASE ~(e = "server" /\ conn_handle_hello_server)
             /\ ~(e = "client" /\ conn_handle_ack_client)
    BY <2>3, QuietCaps DEF pai_proto_conn_poll
  <2>4. QED
    BY <2>1, <2>2, <2>3
<1>4. QED
  BY <1>1, <1>2, <1>3, ConsumeOwn DEF TypeOK

\* CLOSED is for good: no frame is dispatched, no callback made, no stream or
\* capability changed at a closed end, whatever its peer or the network do.
THEOREM ClosedForGood == ForeignSpec => ClosedIsFinal
<1> DEFINE Final == \A e \in Endpoint : state[e] = "CLOSED" =>
                      /\ state'[e] = "CLOSED"
                      /\ UNCHANGED <<rx[e], closes[e], view[e], negotiated_caps[e]>>
<1>1. TypeOK /\ [ForeignNext]_vars => [Final]_vars
  <2> SUFFICES ASSUME TypeOK, ForeignNext PROVE Final
    OBVIOUS
  <2>1. \E e \in Endpoint : OwnStep(e)
    <3>1. CASE pai_proto_conn_start
      BY <3>1, CallsOwn DEF Endpoint
    <3>2. ASSUME NEW e \in Endpoint, pai_proto_conn_poll(e) PROVE OwnStep(e)
      BY <3>2, PollOpen, PollStates, PollHistory DEF OwnStep
    <3>3. QED
      BY <3>1, <3>2, CallsOwn DEF ForeignNext, Next
  <2>2. QED
    BY <2>1 DEF OwnStep
<1>2. ForeignSpec => []TypeOK
  BY InitType, ForeignNextType, PTL DEF ForeignSpec, ForeignNext
<1>3. QED
  BY <1>1, <1>2, PTL DEF ForeignSpec, ForeignNext, ClosedIsFinal

-----------------------------------------------------------------------------
(* Order: what one end has read, is reading and will read, against what the *)
(* other one has sent.                                                      *)

\* Chunk b comes right after chunk a: the payload of the same frame, or the
\* header of the next one.
Follows(a, b) ==
  IF b.part = "payload" THEN a = Header(b.frame) /\ Bodied(b.frame)
  ELSE b.frame.n = a.frame.n + 1

\* The chunks c on their way: numbered up to t, the frames its sender has put
\* on the wire, in order; the last one missing only if the sender is gone.
Ordered(c, t, gone) ==
  /\ \A i \in 1..Len(c) : c[i].frame.n <= t
  /\ \A i, j \in 1..Len(c) :
       i < j => c[i].frame.n < c[j].frame.n \/ (j = i + 1 /\ c[j].part = "payload")
  /\ \A i, j \in 1..Len(c) : j = i + 1 => Follows(c[i], c[j])
  /\ gone \/ c = << >> \/ c[Len(c)].frame.n = t

\* The reader has dispatched r frames.  Between frames, the next header is that
\* of frame r + 1; inside a frame, its payload is next, or it was torn and all
\* that is on the way is of later frames.
Resumes(c, pend, r, t, gone) ==
  \/ /\ pend = << >> /\ c = << >> /\ (gone \/ r = t)
  \/ /\ pend = << >> /\ c # << >>
     /\ c[1].part = "header" /\ c[1].frame.n = r + 1
  \/ /\ \E f \in Frame : pend = <<f>>
     /\ pend[1].n <= t
     /\ \/ c # << >> /\ c[1] = Payload(pend[1]) /\ pend[1].n = r + 1
        \/ \A i \in 1..Len(c) : pend[1].n < c[i].frame.n

WireOk(c, pend, r, t, gone) == Ordered(c, t, gone) /\ Resumes(c, pend, r, t, gone)

\* A sender that has gone leaves things as they are.
LEMMA GoneOk ==
  ASSUME NEW c, NEW pend, NEW r, NEW t, NEW gone, WireOk(c, pend, r, t, gone)
  PROVE  WireOk(c, pend, r, t, TRUE)
BY DEF WireOk, Ordered, Resumes

\* The frames of the chunks of a channel.
LEMMA ChunkFrames ==
  ASSUME NEW c \in Seq(Chunk)
  PROVE  /\ Len(c) \in Nat /\ (c = << >> <=> Len(c) = 0)
         /\ \A i \in 1..Len(c) : c[i] \in Chunk /\ c[i].frame \in Frame /\ c[i].frame.n \in Nat
<1>1. \A x \in Chunk : x.frame \in Frame /\ x.frame.n \in Nat
  BY DEF Chunk, Frame
<1>2. QED
  BY <1>1, LenProperties

\* A channel with one more chunk.
LEMMA ChunkAppended ==
  ASSUME NEW c \in Seq(Chunk), NEW x \in Chunk
  PROVE  /\ Append(c, x) \in Seq(Chunk) /\ Append(c, x) # << >>
         /\ Len(Append(c, x)) = Len(c) + 1
         /\ Append(c, x)[Len(c) + 1] = x
         /\ \A i \in 1..Len(c) : Append(c, x)[i] = c[i]
BY AppendProperties

\* A new header goes behind all that is on the way.
LEMMA HeaderSent ==
  ASSUME NEW c \in Seq(Chunk), NEW pend \in Seq(Frame), NEW r \in Nat, NEW t \in Nat,
         WireOk(c, pend, r, t, FALSE), NEW f \in Frame, f.n = t + 1
  PROVE  WireOk(Append(c, Header(f)), pend, r, t + 1, FALSE)
<1>1. PICK d : d = Append(c, Header(f))
  OBVIOUS
<1>2. Header(f) \in Chunk /\ Header(f).part = "header" /\ Header(f).frame = f
  BY DEF Header, Chunk
<1>3. /\ d \in Seq(Chunk) /\ Len(d) = Len(c) + 1 /\ Len(c) \in Nat /\ d # << >>
      /\ \A i \in 1..Len(c) : d[i] = c[i] /\ c[i].frame.n \in Nat
      /\ d[Len(c) + 1] = Header(f)
      /\ c = << >> <=> Len(c) = 0
  <2>1. /\ d \in Seq(Chunk) /\ Len(d) = Len(c) + 1 /\ d # << >>
        /\ \A i \in 1..Len(c) : d[i] = c[i]
        /\ d[Len(c) + 1] = Header(f)
    BY <1>1, <1>2, ChunkAppended
  <2>2. /\ Len(c) \in Nat /\ (c = << >> <=> Len(c) = 0)
        /\ \A i \in 1..Len(c) : c[i].frame.n \in Nat
    BY ChunkFrames
  <2>3. QED
    BY <2>1, <2>2
<1>a. f.n \in Nat /\ \A i \in 1..Len(d) : i \in 1..Len(c) \/ i = Len(c) + 1
  BY <1>3 DEF Frame
<1>4. Ordered(c, t, FALSE) /\ Resumes(c, pend, r, t, FALSE)
  BY DEF WireOk
<1>5. \A i \in 1..Len(d) : d[i].frame.n <= t + 1
  BY <1>2, <1>3, <1>4, <1>a DEF Ordered
<1>6. \A i, j \in 1..Len(d) :
        i < j => d[i].frame.n < d[j].frame.n \/ (j = i + 1 /\ d[j].part = "payload")
  <2> SUFFICES ASSUME NEW i \in 1..Len(d), NEW j \in 1..Len(d), i < j
               PROVE  d[i].frame.n < d[j].frame.n \/ (j = i + 1 /\ d[j].part = "payload")
    OBVIOUS
  <2>1. CASE j \in 1..Len(c)
    <3>1. i \in 1..Len(c)
      BY <2>1, <1>3
    <3>2. QED
      BY <1>3, <1>4, <2>1, <3>1 DEF Ordered
  <2>2. CASE j = Len(c) + 1
    <3>1. i \in 1..Len(c) /\ c[i].frame.n <= t
      BY <1>3, <1>4, <2>2 DEF Ordered
    <3>2. QED
      BY <1>2, <1>3, <2>2, <3>1
  <2>3. QED
    BY <1>a, <2>1, <2>2
<1>7. \A i, j \in 1..Len(d) : j = i + 1 => Follows(d[i], d[j])
  <2> SUFFICES ASSUME NEW i \in 1..Len(c), i + 1 \in 1..Len(d)
               PROVE  Follows(d[i], d[i + 1])
    BY <1>3
  <2>1. CASE i + 1 \in 1..Len(c)
    BY <1>3, <1>4, <2>1 DEF Ordered
  <2>2. CASE i + 1 = Len(c) + 1
    <3>1. c[i].frame.n = t
      BY <1>3, <1>4, <2>2 DEF Ordered
    <3>2. QED
      BY <1>2, <1>3, <2>2, <3>1 DEF Follows
  <2>3. QED
    BY <1>3, <2>1, <2>2
<1>8. Ordered(d, t + 1, FALSE)
  BY <1>2, <1>3, <1>5, <1>6, <1>7 DEF Ordered
<1>9. Resumes(d, pend, r, t + 1, FALSE)
  <2>1. CASE pend = << >> /\ c = << >>
    BY <1>2, <1>3, <1>4, <2>1 DEF Resumes
  <2>2. CASE pend = << >> /\ c # << >>
    BY <1>3, <1>4, <2>2 DEF Resumes
  <2>3. CASE \E g \in Frame : pend = <<g>>
    <3>1. PICK g \in Frame : pend = <<g>> /\ g.n \in Nat
      BY <2>3 DEF Frame
    <3>2. g.n <= t /\ (\/ c # << >> /\ c[1] = Payload(g) /\ g.n = r + 1
                       \/ \A i \in 1..Len(c) : g.n < c[i].frame.n)
      BY <1>4, <3>1 DEF Resumes
    <3>3. CASE c # << >> /\ c[1] = Payload(g) /\ g.n = r + 1
      BY <1>3, <3>1, <3>2, <3>3 DEF Resumes
    <3>4. CASE \A i \in 1..Len(c) : g.n < c[i].frame.n
      <4>1. \A i \in 1..Len(d) : g.n < d[i].frame.n
        BY <1>2, <1>3, <3>1, <3>2, <3>4
      <4>2. QED
        BY <3>1, <3>2, <4>1 DEF Resumes
    <3>5. QED
      BY <3>2, <3>3, <3>4
  <2>4. QED
    BY <1>4, <2>1, <2>2, <2>3 DEF Resumes
<1>10. QED
  BY <1>1, <1>8, <1>9 DEF WireOk

\* The payload right behind its header.
LEMMA PayloadSent ==
  ASSUME NEW c \in Seq(Chunk), NEW pend \in Seq(Frame), NEW r \in Nat, NEW t \in Nat,
         WireOk(c, pend, r, t, FALSE), NEW f \in Frame, Bodied(f),
         c # << >>, c[Len(c)] = Header(f)
  PROVE  WireOk(Append(c, Payload(f)), pend, r, t, FALSE)
<1>1. PICK d : d = Append(c, Payload(f))
  OBVIOUS
<1>2. /\ Payload(f) \in Chunk /\ Payload(f).part = "payload" /\ Payload(f).frame = f
      /\ Header(f).frame = f /\ f.n \in Nat
  BY DEF Payload, Header, Chunk, Frame
<1>3. /\ d \in Seq(Chunk) /\ Len(d) = Len(c) + 1 /\ Len(c) \in Nat /\ d # << >>
      /\ \A i \in 1..Len(c) : d[i] = c[i] /\ c[i].frame.n \in Nat
      /\ d[Len(c) + 1] = Payload(f) /\ Len(c) \in 1..Len(c)
  <2>1. /\ d \in Seq(Chunk) /\ Len(d) = Len(c) + 1 /\ d # << >>
        /\ \A i \in 1..Len(c) : d[i] = c[i]
        /\ d[Len(c) + 1] = Payload(f)
    BY <1>1, <1>2, ChunkAppended
  <2>2. Len(c) \in Nat /\ Len(c) # 0 /\ \A i \in 1..Len(c) : c[i].frame.n \in Nat
    BY ChunkFrames
  <2>3. QED
    BY <2>1, <2>2
<1>4. Ordered(c, t, FALSE) /\ Resumes(c, pend, r, t, FALSE)
  BY DEF WireOk
<1>5. f.n = t
  BY <1>2, <1>4 DEF Ordered
<1>6. \A i \in 1..Len(d) : d[i].frame.n <= t
  BY <1>2, <1>3, <1>4, <1>5 DEF Ordered
<1>7. \A i, j \in 1..Len(d) :
        i < j => d[i].frame.n < d[j].frame.n \/ (j = i + 1 /\ d[j].part = "payload")
  <2> SUFFICES ASSUME NEW i \in 1..Len(d), NEW j \in 1..Len(d), i < j
               PROVE  d[i].frame.n < d[j].frame.n \/ (j = i + 1 /\ d[j].part = "payload")
    OBVIOUS
  <2>1. CASE j \in 1..Len(c)
    <3>1. i \in 1..Len(c)
      BY <2>1, <1>3
    <3>2. QED
      BY <1>3, <1>4, <2>1, <3>1 DEF Ordered
  <2>2. CASE j = Len(c) + 1 /\ i = Len(c)
    BY <1>2, <1>3, <2>2
  <2>3. CASE j = Len(c) + 1 /\ i < Len(c)
    <3>1. c[i].frame.n < c[Len(c)].frame.n \/ c[Len(c)].part = "payload"
      BY <1>3, <1>4, <2>3 DEF Ordered
    <3>2. QED
      BY <1>2, <1>3, <2>3, <3>1 DEF Header
  <2>4. QED
    BY <1>3, <2>1, <2>2, <2>3
<1>8. \A i, j \in 1..Len(d) : j = i + 1 => Follows(d[i], d[j])
  <2> SUFFICES ASSUME NEW i \in 1..Len(c), i + 1 \in 1..Len(d)
               PROVE  Follows(d[i], d[i + 1])
    BY <1>3
  <2>1. CASE i + 1 \in 1..Len(c)
    BY <1>3, <1>4, <2>1 DEF Ordered
  <2>2. CASE i + 1 = Len(c) + 1
    BY <1>2, <1>3, <2>2 DEF Follows
  <2>3. QED
    BY <1>3, <2>1, <2>2
<1>9. Ordered(d, t, FALSE)
  BY <1>2, <1>3, <1>5, <1>6, <1>7, <1>8 DEF Ordered
<1>10. Resumes(d, pend, r, t, FALSE)
  <2>1. CASE pend = << >>
    BY <1>3, <1>4, <2>1 DEF Resumes
  <2>2. CASE \E g \in Frame : pend = <<g>>
    <3>1. PICK g \in Frame : pend = <<g>> /\ g.n \in Nat
      BY <2>2 DEF Frame
    <3>2. g.n <= t /\ (\/ c # << >> /\ c[1] = Payload(g) /\ g.n = r + 1
                       \/ \A i \in 1..Len(c) : g.n < c[i].frame.n)
      BY <1>4, <3>1 DEF Resumes
    <3>3. CASE c # << >> /\ c[1] = Payload(g) /\ g.n = r + 1
      BY <1>3, <3>1, <3>2, <3>3 DEF Resumes
    <3>4. CASE \A i \in 1..Len(c) : g.n < c[i].frame.n
      <4>1. \A i \in 1..Len(d) : g.n < d[i].frame.n
        BY <1>2, <1>3, <3>1, <3>2, <3>4
      <4>2. QED
        BY <3>1, <3>2, <4>1 DEF Resumes
    <3>5. QED
      BY <3>2, <3>3, <3>4
  <2>3. QED
    BY <1>4, <2>1, <2>2 DEF Resumes
<1>11. QED
  BY <1>1, <1>9, <1>10 DEF WireOk

\* A send, whatever becomes of it.
LEMMA SentOk ==
  ASSUME NEW c \in Seq(Chunk), NEW pend \in Seq(Frame), NEW r \in Nat, NEW t \in Nat,
         WireOk(c, pend, r, t, FALSE), NEW f \in Frame, f.n = t + 1,
         NEW o \in Outcome, o = "torn" => Bodied(f)
  PROVE  WireOk(c \o conn_send_unchecked(f, o), pend, r, IF o = "lost" THEN t ELSE t + 1,
                FALSE)
<1>1. Header(f) \in Chunk /\ Payload(f) \in Chunk
  BY DEF Header, Payload, Chunk
<1>2. CASE o = "lost"
  <2>1. c \o conn_send_unchecked(f, o) = c
    BY <1>2, ConcatEmptySeq DEF conn_send_unchecked
  <2>2. QED
    BY <1>2, <2>1
<1>3. PICK d \in Seq(Chunk) : d = Append(c, Header(f))
  BY <1>1, AppendProperties
<1>4. WireOk(d, pend, r, t + 1, FALSE)
  BY <1>3, HeaderSent
<1>5. CASE o = "torn" \/ (o = "sent" /\ ~Bodied(f))
  <2>1. c \o conn_send_unchecked(f, o) = d
    BY <1>1, <1>3, <1>5, AppendIsConcat DEF conn_send_unchecked
  <2>2. QED
    BY <1>4, <1>5, <2>1
<1>6. CASE o = "sent" /\ Bodied(f)
  <2>1. d # << >> /\ d[Len(d)] = Header(f)
    BY <1>1, <1>3, AppendProperties, LenProperties
  <2>2. WireOk(Append(d, Payload(f)), pend, r, t + 1, FALSE)
    <3>1. t + 1 \in Nat
      OBVIOUS
    <3>2. QED
      BY <1>4, <1>6, <2>1, <3>1, PayloadSent
  <2>3. c \o conn_send_unchecked(f, o) = Append(d, Payload(f))
    <3>1. conn_send_unchecked(f, o) = <<Header(f)>> \o <<Payload(f)>>
      BY <1>1, <1>6 DEF conn_send_unchecked
    <3>2. Append(d, Payload(f)) = (c \o <<Header(f)>>) \o <<Payload(f)>>
      BY <1>1, <1>3, AppendIsConcat
    <3>3. <<Header(f)>> \in Seq(Chunk) /\ <<Payload(f)>> \in Seq(Chunk)
      BY <1>1
    <3>4. QED
      BY <3>1, <3>2, <3>3, ConcatAssociative
  <2>4. QED
    BY <1>6, <2>2, <2>3
<1>7. QED
  BY <1>2, <1>5, <1>6 DEF Outcome

\* What is left of a channel when its first chunk is read.
LEMMA ChunkRead ==
  ASSUME NEW c \in Seq(Chunk), c # << >>
  PROVE  /\ Tail(c) \in Seq(Chunk) /\ Len(c) >= 1 /\ Len(Tail(c)) = Len(c) - 1
         /\ Head(c) = c[1] /\ c[1] \in Chunk
         /\ \A i \in 1..(Len(c) - 1) : Tail(c)[i] = c[i + 1]
         /\ Tail(c) = << >> <=> Len(c) = 1
<1>1. /\ Tail(c) \in Seq(Chunk) /\ Len(Tail(c)) = Len(c) - 1
      /\ \A i \in 1..Len(Tail(c)) : Tail(c)[i] = c[i + 1]
  BY HeadTailProperties
<1>2. Len(c) >= 1 /\ c[1] \in Chunk
  BY ChunkFrames
<1>3. Tail(c) = << >> <=> Len(Tail(c)) = 0
  BY <1>1, ChunkFrames
<1>4. Head(c) = c[1]
  OBVIOUS
<1>5. QED
  BY <1>1, <1>2, <1>3, <1>4, ChunkFrames

\* Reading keeps the order.
LEMMA TailOrdered ==
  ASSUME NEW c \in Seq(Chunk), c # << >>, NEW t, NEW gone, Ordered(c, t, gone)
  PROVE  Ordered(Tail(c), t, gone)
<1>1. PICK d : d = Tail(c)
  OBVIOUS
<1>2. /\ d \in Seq(Chunk) /\ Len(c) \in Nat /\ Len(c) >= 1 /\ Len(d) = Len(c) - 1
      /\ \A i \in 1..Len(d) : d[i] = c[i + 1] /\ i + 1 \in 1..Len(c)
      /\ d = << >> <=> Len(c) = 1
  BY <1>1, ChunkRead, ChunkFrames
<1>3. \A i \in 1..Len(d) : d[i].frame.n <= t
  BY <1>2 DEF Ordered
<1>4. \A i, j \in 1..Len(d) :
        i < j => d[i].frame.n < d[j].frame.n \/ (j = i + 1 /\ d[j].part = "payload")
  <2> SUFFICES ASSUME NEW i \in 1..Len(d), NEW j \in 1..Len(d), i < j
               PROVE  d[i].frame.n < d[j].frame.n \/ (j = i + 1 /\ d[j].part = "payload")
    OBVIOUS
  <2>1. i + 1 \in 1..Len(c) /\ j + 1 \in 1..Len(c) /\ i + 1 < j + 1
        /\ (j + 1 = (i + 1) + 1 => j = i + 1)
    BY <1>2
  <2>2. c[i + 1].frame.n < c[j + 1].frame.n
        \/ (j + 1 = (i + 1) + 1 /\ c[j + 1].part = "payload")
    BY <2>1 DEF Ordered
  <2>3. QED
    BY <1>2, <2>1, <2>2
<1>5. \A i, j \in 1..Len(d) : j = i + 1 => Follows(d[i], d[j])
  <2> SUFFICES ASSUME NEW i \in 1..Len(d), i + 1 \in 1..Len(d) PROVE Follows(d[i], d[i + 1])
    OBVIOUS
  <2>1. i + 1 \in 1..Len(c) /\ (i + 1) + 1 \in 1..Len(c)
    BY <1>2
  <2>2. Follows(c[i + 1], c[(i + 1) + 1])
    BY <2>1 DEF Ordered
  <2>3. QED
    BY <1>2, <2>2
<1>6. gone \/ d = << >> \/ d[Len(d)].frame.n = t
  <2>1. d # << >> => Len(d) \in 1..Len(d) /\ d[Len(d)] = c[Len(c)]
    BY <1>2
  <2>2. QED
    BY <2>1 DEF Ordered
<1>7. QED
  BY <1>1, <1>3, <1>4, <1>5, <1>6 DEF Ordered

\* The second chunk of a channel belongs behind the first.
LEMMA SecondChunk ==
  ASSUME NEW c \in Seq(Chunk), c # << >>, NEW t, NEW gone, Ordered(c, t, gone),
         Tail(c) # << >>
  PROVE  /\ Tail(c)[1] \in Chunk /\ Follows(c[1], Tail(c)[1])
         /\ Tail(c)[1].part = "header" =>
              \A i \in 1..Len(Tail(c)) : c[1].frame.n < Tail(c)[i].frame.n
<1>1. PICK d : d = Tail(c)
  OBVIOUS
<1>2. /\ Len(c) \in Nat /\ Len(c) >= 2 /\ Len(d) = Len(c) - 1 /\ c[2] \in Chunk
      /\ \A i \in 1..Len(d) : d[i] = c[i + 1]
  <2>1. Len(c) \in Nat /\ Len(c) >= 2 /\ Len(d) = Len(c) - 1
        /\ \A i \in 1..Len(d) : d[i] = c[i + 1]
    BY <1>1, ChunkRead, ChunkFrames
  <2>2. QED
    BY <2>1, ChunkFrames
<1>3. 1 \in 1..Len(c) /\ 2 \in 1..Len(c) /\ 2 = 1 + 1 /\ d[1] = c[2]
  BY <1>2
<1>4. Follows(c[1], c[2])
  BY <1>3 DEF Ordered
<1>5. ASSUME c[2].part = "header", NEW i \in 1..Len(d)
      PROVE  c[1].frame.n < d[i].frame.n
  <2>1. i + 1 \in 1..Len(c) /\ 1 < i + 1 /\ d[i] = c[i + 1]
    BY <1>2
  <2>2. c[1].frame.n < c[i + 1].frame.n \/ (i + 1 = 1 + 1 /\ c[i + 1].part = "payload")
    BY <1>3, <2>1 DEF Ordered
  <2>3. QED
    BY <1>5, <2>1, <2>2
<1>6. QED
  BY <1>1, <1>2, <1>3, <1>4, <1>5

\* The frame that is dispatched is the next one, and the one behind it is the
\* next to come.
LEMMA DispatchOk ==
  ASSUME NEW c \in Seq(Chunk), c # << >>, NEW pend \in Seq(Frame), NEW r \in Nat,
         NEW t \in Nat, NEW gone \in BOOLEAN, WireOk(c, pend, r, t, gone),
         \/ pend = << >> /\ c[1].part = "header" /\ ~Bodied(c[1].frame)
         \/ pend = <<c[1].frame>> /\ c[1].part = "payload"
  PROVE  /\ c[1].frame.n = r + 1
         /\ WireOk(Tail(c), << >>, c[1].frame.n, t, gone)
<1>1. Ordered(c, t, gone) /\ Resumes(c, pend, r, t, gone)
  BY DEF WireOk
<1>2. c[1] \in Chunk /\ c[1].frame \in Frame /\ c[1].frame.n \in Nat /\ 1 \in 1..Len(c)
      /\ Len(c) \in Nat
  BY ChunkFrames
<1>3. c[1].frame.n = r + 1
  <2>1. CASE pend = << >>
    BY <1>1, <2>1 DEF Resumes
  <2>2. CASE pend = <<c[1].frame>>
    <3>1. pend[1] = c[1].frame /\ pend # << >>
      BY <2>2
    <3>2. QED
      BY <1>1, <1>2, <3>1 DEF Resumes
  <2>3. QED
    BY <2>1, <2>2
<1>4. PICK d : d = Tail(c)
  OBVIOUS
<1>5. Ordered(d, t, gone)
  BY <1>1, <1>4, TailOrdered
<1>6. ASSUME d # << >> PROVE d[1].part = "header" /\ d[1].frame.n = c[1].frame.n + 1
  <2>1. Follows(c[1], d[1]) /\ d[1].part \in {"header", "payload"}
    BY <1>1, <1>4, <1>6, SecondChunk DEF Chunk
  <2>2. d[1].part = "payload" => FALSE
    <3> SUFFICES ASSUME d[1].part = "payload" PROVE FALSE
      OBVIOUS
    <3>1. c[1] = Header(d[1].frame) /\ Bodied(d[1].frame)
      BY <2>1 DEF Follows
    <3>2. c[1].part = "header" /\ c[1].frame = d[1].frame
      BY <3>1 DEF Header
    <3>3. QED
      BY <3>1, <3>2
  <2>3. QED
    BY <2>1, <2>2 DEF Follows
<1>7. ASSUME d = << >> PROVE gone \/ c[1].frame.n = t
  <2>1. Len(c) = 1
    BY <1>4, <1>7, ChunkRead
  <2>2. QED
    BY <1>1, <2>1 DEF Ordered
<1>8. Resumes(d, << >>, c[1].frame.n, t, gone)
  BY <1>6, <1>7 DEF Resumes
<1>9. QED
  BY <1>3, <1>4, <1>5, <1>8 DEF WireOk

\* A header whose payload is awaited: the payload is next, or the frame is torn.
LEMMA HeaderRead ==
  ASSUME NEW c \in Seq(Chunk), c # << >>, NEW r \in Nat,
         NEW t \in Nat, NEW gone \in BOOLEAN, WireOk(c, << >>, r, t, gone)
  PROVE  WireOk(Tail(c), <<c[1].frame>>, r, t, gone)
<1>1. Ordered(c, t, gone) /\ Resumes(c, << >>, r, t, gone)
  BY DEF WireOk
<1>2. c[1] \in Chunk /\ c[1].frame \in Frame /\ c[1].frame.n \in Nat /\ 1 \in 1..Len(c)
  BY ChunkFrames
<1>3. c[1].frame.n = r + 1 /\ c[1].frame.n <= t
  BY <1>1, <1>2 DEF Resumes, Ordered
<1>4. PICK d \in Seq(Chunk) : d = Tail(c)
  BY ChunkRead
<1>5. Ordered(d, t, gone)
  BY <1>1, <1>4, TailOrdered
<1>6. (d # << >> /\ d[1] = Payload(c[1].frame)) \/ \A i \in 1..Len(d) : c[1].frame.n < d[i].frame.n
  <2>1. CASE d = << >>
    BY <2>1
  <2>2. CASE d # << >>
    <3>1. /\ d[1] \in Chunk /\ Follows(c[1], d[1])
          /\ d[1].part = "header" => \A i \in 1..Len(d) : c[1].frame.n < d[i].frame.n
      BY <1>1, <1>4, <2>2, SecondChunk
    <3>2. CASE d[1].part = "payload"
      <4>1. c[1] = Header(d[1].frame)
        BY <3>1, <3>2 DEF Follows
      <4>2. c[1].frame = d[1].frame
        BY <4>1 DEF Header
      <4>3. d[1] = Payload(c[1].frame)
        BY <3>1, <3>2, <4>2 DEF Payload, Chunk
      <4>4. QED
        BY <2>2, <4>3
    <3>3. QED
      BY <3>1, <3>2 DEF Chunk
  <2>3. QED
    BY <2>1, <2>2
<1>7. PICK pend : pend = <<c[1].frame>>
  OBVIOUS
<1>8. pend[1] = c[1].frame /\ \E f \in Frame : pend = <<f>>
  BY <1>2, <1>7
<1>9. Resumes(d, pend, r, t, gone)
  BY <1>3, <1>6, <1>8 DEF Resumes
<1>10. QED
  BY <1>4, <1>5, <1>7, <1>9 DEF WireOk

\* Bytes of later frames are read in the place of a torn payload.
LEMMA TornRead ==
  ASSUME NEW c \in Seq(Chunk), c # << >>, NEW pend, pend # << >>, NEW r \in Nat,
         NEW t \in Nat, NEW gone \in BOOLEAN, WireOk(c, pend, r, t, gone),
         c[1] # Payload(pend[1])
  PROVE  WireOk(Tail(c), pend, r, t, gone)
<1>1. Ordered(c, t, gone) /\ Resumes(c, pend, r, t, gone)
  BY DEF WireOk
<1>2. PICK d \in Seq(Chunk) : d = Tail(c)
  BY ChunkRead
<1>3. Ordered(d, t, gone)
  BY <1>1, <1>2, TailOrdered
<1>4. \A i \in 1..Len(c) : pend[1].n < c[i].frame.n
  BY <1>1 DEF Resumes
<1>5. \A i \in 1..Len(d) : i + 1 \in 1..Len(c) /\ d[i] = c[i + 1]
  BY <1>2, ChunkRead, ChunkFrames
<1>6. \A i \in 1..Len(d) : pend[1].n < d[i].frame.n
  BY <1>4, <1>5
<1>7. Resumes(d, pend, r, t, gone)
  BY <1>1, <1>6 DEF Resumes
<1>8. QED
  BY <1>2, <1>3, <1>7 DEF WireOk

\* The network drops the end of what a sender that is gone had sent.
LEMMA PrefixOk ==
  ASSUME NEW c \in Seq(Chunk), NEW pend, NEW r, NEW t, WireOk(c, pend, r, t, TRUE),
         NEW k \in 0..(Len(c) - 1)
  PROVE  WireOk(SubSeq(c, 1, k), pend, r, t, TRUE)
<1>1. PICK d : d = SubSeq(c, 1, k)
  OBVIOUS
<1>2. /\ d \in Seq(Chunk) /\ Len(d) = k /\ k \in Nat /\ Len(c) \in Nat /\ k < Len(c)
      /\ \A i \in 1..Len(d) : d[i] = c[i] /\ i \in 1..Len(c)
      /\ d = << >> <=> k = 0
  <2>1. Len(c) \in Nat /\ k \in Nat /\ k < Len(c) /\ \A i \in 1..k : c[i] \in Chunk
    BY ChunkFrames
  <2>2. d \in Seq(Chunk) /\ Len(d) = k /\ \A i \in 1..k : d[i] = c[i]
    BY <1>1, <2>1, SubSeqProperties
  <2>3. d = << >> <=> k = 0
    BY <2>2, ChunkFrames
  <2>4. QED
    BY <2>1, <2>2, <2>3
<1>3. Ordered(c, t, TRUE) /\ Resumes(c, pend, r, t, TRUE)
  BY DEF WireOk
<1>4. Ordered(d, t, TRUE)
  <2>1. \A i \in 1..Len(d) : d[i].frame.n <= t
    BY <1>2, <1>3 DEF Ordered
  <2>2. \A i, j \in 1..Len(d) :
          i < j => d[i].frame.n < d[j].frame.n \/ (j = i + 1 /\ d[j].part = "payload")
    BY <1>2, <1>3 DEF Ordered
  <2>3. \A i, j \in 1..Len(d) : j = i + 1 => Follows(d[i], d[j])
    BY <1>2, <1>3 DEF Ordered
  <2>4. QED
    BY <2>1, <2>2, <2>3 DEF Ordered
<1>5. c # << >> /\ (d # << >> => d[1] = c[1])
  BY <1>2, ChunkFrames
<1>6. Resumes(d, pend, r, t, TRUE)
  <2>1. CASE pend = << >>
    BY <1>3, <1>5, <2>1 DEF Resumes
  <2>2. CASE pend # << >>
    BY <1>2, <1>3, <1>5, <2>2 DEF Resumes
  <2>3. QED
    BY <2>1, <2>2
<1>7. QED
  BY <1>1, <1>4, <1>6 DEF WireOk

\* What is on its way to an end that reads.
Dir(e) ==
  state[e] # "CLOSED" =>
    WireOk(chan[e], pending[e], rx[e], tx[Peer(e)], state[Peer(e)] = "CLOSED")

OrderInv == \A e \in Endpoint : Dir(e)

\* What an end that takes a frame sends: nothing, or one frame.
Answers(e, wire) ==
  \/ wire = << >> /\ UNCHANGED tx
  \/ \E f \in Frame, o \in Outcome :
       f.n = tx[e] + 1 /\ Sends(e, f, o) /\ wire = conn_send_unchecked(f, o)

\* A complete frame is taken off the stream and dispatched.
Taken(e) ==
  /\ FrameComplete(e)
  /\ \E wire : Consume(e, wire) /\ Answers(e, wire)
  /\ state'[e] = "CLOSED" \/ pending'[e] = << >>
  /\ pending'[Peer(e)] = pending[Peer(e)]

\* The two ends.
LEMMA Peers ==
  ASSUME NEW e \in Endpoint
  PROVE  /\ Peer(e) \in Endpoint /\ Peer(e) # e /\ Peer(Peer(e)) = e
         /\ \A d \in Endpoint : d = e \/ d = Peer(e)
BY DEF Peer, Endpoint

\* The fields of one direction, and their types.
LEMMA DirType ==
  ASSUME TypeOK, NEW e \in Endpoint
  PROVE  /\ chan[e] \in Seq(Chunk) /\ pending[e] \in Seq(Frame) /\ rx[e] \in Nat
         /\ tx[e] \in Nat /\ tx[Peer(e)] \in Nat
BY PeerType DEF TypeOK

\* A direction nothing happens in; its sender may close.
LEMMA KeptDir ==
  ASSUME NEW e \in Endpoint, Dir(e), state'[e] = state[e], chan'[e] = chan[e],
         pending'[e] = pending[e], rx'[e] = rx[e], tx'[Peer(e)] = tx[Peer(e)],
         state[Peer(e)] = "CLOSED" => state'[Peer(e)] = "CLOSED"
  PROVE  Dir(e)'
<1> SUFFICES ASSUME state[e] # "CLOSED"
             PROVE  WireOk(chan[e], pending[e], rx[e], tx[Peer(e)], state'[Peer(e)] = "CLOSED")
  BY DEF Dir
<1>1. WireOk(chan[e], pending[e], rx[e], tx[Peer(e)], state[Peer(e)] = "CLOSED")
  BY DEF Dir
<1>2. CASE state'[Peer(e)] = "CLOSED"
  BY <1>1, <1>2, GoneOk
<1>3. CASE state'[Peer(e)] # "CLOSED"
  BY <1>1, <1>3
<1>4. QED
  BY <1>2, <1>3

\* An end that is closed reads nothing more.
LEMMA ClosedDir ==
  ASSUME NEW e \in Endpoint, state'[e] = "CLOSED"
  PROVE  Dir(e)'
BY DEF Dir

\* A frame is sent towards p.
LEMMA SendsDir ==
  ASSUME TypeOK, NEW e \in Endpoint, Dir(Peer(e)), state[e] # "CLOSED",
         NEW f \in Frame, NEW o \in Outcome, f.n = tx[e] + 1, Sends(e, f, o),
         chan'[Peer(e)] = chan[Peer(e)] \o conn_send_unchecked(f, o),
         state'[Peer(e)] = state[Peer(e)], pending'[Peer(e)] = pending[Peer(e)],
         rx'[Peer(e)] = rx[Peer(e)]
  PROVE  Dir(Peer(e))'
<1>1. PICK p \in Endpoint : p = Peer(e) /\ Peer(p) = e
  BY Peers
<1>2. /\ chan[p] \in Seq(Chunk) /\ pending[p] \in Seq(Frame) /\ rx[p] \in Nat
      /\ tx[e] \in Nat /\ tx \in [Endpoint -> Nat]
  BY DEF TypeOK
<1> SUFFICES ASSUME state[p] # "CLOSED"
             PROVE  WireOk(chan'[p], pending[p], rx[p], tx'[e], state'[e] = "CLOSED")
  BY <1>1 DEF Dir
<1>3. WireOk(chan[p], pending[p], rx[p], tx[e], FALSE)
  <2>1. WireOk(chan[p], pending[p], rx[p], tx[e], state[e] = "CLOSED")
    BY <1>1 DEF Dir
  <2>2. QED
    BY <2>1
<1>4. o = "torn" => Bodied(f)
  BY DEF Sends
<1>5. tx'[e] = IF o = "lost" THEN tx[e] ELSE tx[e] + 1
  BY <1>2 DEF Sends
<1>6. WireOk(chan'[p], pending[p], rx[p], tx'[e], FALSE)
  BY <1>1, <1>2, <1>3, <1>4, <1>5, SentOk
<1>7. CASE state'[e] = "CLOSED"
  BY <1>6, <1>7, GoneOk
<1>8. CASE state'[e] # "CLOSED"
  BY <1>6, <1>8
<1>9. QED
  BY <1>7, <1>8

\* The frame of a send by e: numbered next.
LEMMA OwnFrame ==
  ASSUME TypeOK, NEW e \in Endpoint, NEW type \in Type, NEW id \in Ids
  PROVE  NewFrame(e, type, id) \in Frame /\ NewFrame(e, type, id).n = tx[e] + 1
BY NewFrameType DEF NewFrame

\* The answer sent with a frame that is taken.
LEMMA AnswerFrame ==
  ASSUME NEW e \in Endpoint, NEW f \in Frame, NEW o \in Outcome, f.n = tx[e] + 1,
         Sends(e, f, o)
  PROVE  Answers(e, conn_send_unchecked(f, o))
BY DEF Answers

\* Only the reader's half-read frame changes, when it is done with it.
LEMMA PendingOwn ==
  ASSUME TypeOK, NEW e \in Endpoint,
         \/ pending' = [pending EXCEPT ![e] = << >>]
         \/ \E reason : conn_set_closed(e, reason)
  PROVE  pending'[Peer(e)] = pending[Peer(e)]
         /\ (state'[e] = "CLOSED" \/ pending'[e] = << >>)
BY Peers DEF conn_set_closed, TypeOK

\* A frame that poll refuses is taken.
LEMMA RejectTaken ==
  ASSUME TypeOK, NEW e \in Endpoint, FrameComplete(e), Consume(e, << >>), SendsNothing,
         NEW reason, conn_set_closed(e, reason)
  PROVE  Taken(e)
<1>1. Answers(e, << >>)
  BY DEF Answers, SendsNothing
<1>2. QED
  BY <1>1, PendingOwn DEF Taken

\* A frame that the application was handed is taken.
LEMMA OnMessageTaken ==
  ASSUME TypeOK, NEW e \in Endpoint, FrameComplete(e), NEW replies,
         OnMessage(e, Arrived(e), replies)
  PROVE  Taken(e)
<1>1. CASE SendsNothing /\ Handled(e, << >>)
  <2>1. Answers(e, << >>)
    BY <1>1 DEF Answers, SendsNothing
  <2>2. QED
    BY <1>1, <2>1, PendingOwn DEF Taken, Handled
<1>2. ASSUME NEW o \in Outcome, Sends(e, NewFrame(e, "ERROR", Arrived(e).id), o),
             Handled(e, conn_send_unchecked(NewFrame(e, "ERROR", Arrived(e).id), o))
      PROVE  Taken(e)
  <2>1. Arrived(e).id \in Ids /\ "ERROR" \in Type
    BY ArrivedType DEF FrameComplete, Frame, Type
  <2>2. PICK f \in Frame : f = NewFrame(e, "ERROR", Arrived(e).id) /\ f.n = tx[e] + 1
    BY <2>1, OwnFrame
  <2>3. Answers(e, conn_send_unchecked(f, o))
    BY <1>2, <2>2, AnswerFrame
  <2>4. QED
    BY <1>2, <2>2, <2>3, PendingOwn DEF Taken, Handled
<1>3. QED
  BY <1>1, <1>2 DEF OnMessage

\* The server's answer to a HELLO.
LEMMA HelloTaken ==
  ASSUME TypeOK, conn_handle_hello_server
  PROVE  Taken("server")
<1>1. /\ FrameComplete("server") /\ "server" \in Endpoint
      /\ Arrived("server") \in Frame /\ Arrived("server").id \in Ids
      /\ "HELLO_NACK" \in Type /\ "HELLO_ACK" \in Type
  <2>1. FrameComplete("server") /\ "server" \in Endpoint
    BY DEF conn_handle_hello_server, PreOpen, Endpoint
  <2>2. QED
    BY <2>1, ArrivedType DEF FrameComplete, Frame, Type
<1>2. PICK f \in Frame : f = Arrived("server") /\ f.id \in Ids
  BY <1>1
<1>3. CASE Reject("server")
  BY <1>1, <1>3, RejectTaken DEF Reject
<1>4. ASSUME NEW why \in Reason, NEW reason, conn_refuse_hello(f, why, reason)
      PROVE  Taken("server")
  <2>1. PICK o \in Outcome :
          LET nack == [conn_send_negotiation(f, "HELLO_NACK") EXCEPT !.reason = why] IN
          /\ Sends("server", nack, o)
          /\ Consume("server", conn_send_unchecked(nack, o))
          /\ conn_set_closed("server", reason)
    BY <1>4 DEF conn_refuse_hello
  <2>2. PICK g \in Frame : g = conn_send_negotiation(f, "HELLO_NACK") /\ g.n = tx["server"] + 1
    BY <1>1, <1>2, OwnFrame DEF conn_send_negotiation
  <2>3. PICK nack \in Frame : nack = [g EXCEPT !.reason = why] /\ nack.n = tx["server"] + 1
    <3>1. [g EXCEPT !.reason = why].n = g.n
      BY DEF Frame
    <3>2. QED
      BY <2>2, <3>1, FrameExcept
  <2>4. Sends("server", nack, o) /\ Consume("server", conn_send_unchecked(nack, o))
        /\ conn_set_closed("server", reason)
    BY <2>1, <2>2, <2>3
  <2>5. Answers("server", conn_send_unchecked(nack, o))
    BY <1>1, <2>3, <2>4, AnswerFrame
  <2>6. QED
    BY <1>1, <2>4, <2>5, PendingOwn DEF Taken
<1>5. ASSUME NEW mask \in OnHello, conn_accept_hello(f, mask)
      PROVE  Taken("server")
  <2>1. PICK o \in Outcome :
          LET agreed == conn_agree(mask, f.caps)
              ack == [conn_send_negotiation(f, "HELLO_ACK") EXCEPT !.caps = agreed] IN
          /\ Sends("server", ack, o)
          /\ Consume("server", conn_send_unchecked(ack, o))
          /\ \/ pending' = [pending EXCEPT !["server"] = << >>]
             \/ conn_set_closed("server", "protocol")
    BY <1>5 DEF conn_accept_hello
  <2>2. PICK g \in Frame : g = conn_send_negotiation(f, "HELLO_ACK") /\ g.n = tx["server"] + 1
    BY <1>1, <1>2, OwnFrame DEF conn_send_negotiation
  <2>a. conn_agree(mask, f.caps) \in SUBSET Caps
    BY CapsAssumption DEF conn_agree, Frame
  <2>3. PICK ack \in Frame : /\ ack = [g EXCEPT !.caps = conn_agree(mask, f.caps)]
                             /\ ack.n = tx["server"] + 1
    <3>1. [g EXCEPT !.caps = conn_agree(mask, f.caps)].n = g.n
      BY DEF Frame
    <3>2. QED
      BY <2>2, <2>a, <3>1, FrameExcept
  <2>4. Sends("server", ack, o) /\ Consume("server", conn_send_unchecked(ack, o))
    BY <2>1, <2>2, <2>3
  <2>5. Answers("server", conn_send_unchecked(ack, o))
    BY <1>1, <2>3, <2>4, AnswerFrame
  <2>6. QED
    BY <1>1, <2>1, <2>4, <2>5, PendingOwn DEF Taken
<1>6. QED
  BY <1>2, <1>3, <1>4, <1>5 DEF conn_handle_hello_server, Reason

\* PONG has no payload to tear: it goes out, or nothing does.
LEMMA PingTaken ==
  ASSUME TypeOK, NEW e \in Endpoint, conn_handle_ping(e)
  PROVE  Taken(e)
<1>1. FrameComplete(e)
  BY DEF conn_handle_ping, OpenFrame
<1>2. Arrived(e).id \in Ids /\ "PONG" \in Type
  BY <1>1, ArrivedType DEF FrameComplete, Frame, Type
<1>3. PICK f \in Frame : f = NewFrame(e, "PONG", Arrived(e).id) /\ f.n = tx[e] + 1
  BY <1>2, OwnFrame
<1>4. PICK o \in Outcome :
        /\ Sends(e, f, o)
        /\ IF o = "sent" THEN Handled(e, conn_send_unchecked(f, o))
           ELSE Consume(e, << >>) /\ conn_set_closed(e, "protocol")
  BY <1>3 DEF conn_handle_ping
<1>5. CASE o = "sent"
  <2>1. Answers(e, conn_send_unchecked(f, o))
    BY <1>3, <1>4, AnswerFrame
  <2>2. QED
    BY <1>1, <1>4, <1>5, <2>1, PendingOwn DEF Taken, Handled
<1>6. CASE o # "sent"
  <2>1. ~Bodied(f)
    BY <1>3 DEF NewFrame, Bodied
  <2>2. o = "lost"
    BY <1>4, <1>6, <2>1 DEF Sends, Outcome
  <2>3. Answers(e, << >>)
    BY <1>4, <2>2 DEF Sends, Answers
  <2>4. QED
    BY <1>1, <1>4, <1>6, <2>3, PendingOwn DEF Taken
<1>7. QED
  BY <1>5, <1>6

\* A turn of poll reads a chunk, the end of the stream, or takes a frame.
LEMMA PollTakes ==
  ASSUME TypeOK, NEW e \in Endpoint, pai_proto_conn_poll(e)
  PROVE  RecvHeader(e) \/ RecvTornPayload(e) \/ RecvEof(e) \/ Taken(e)
<1>1. CASE e = "server" /\ conn_handle_hello_server
  BY <1>1, HelloTaken
<1>2. CASE e = "client" /\ conn_handle_ack_client
  <2>1. FrameComplete(e)
    BY <1>2 DEF conn_handle_ack_client, PreOpen
  <2>2. CASE Reject(e)
    BY <2>1, <2>2, RejectTaken DEF Reject
  <2>3. CASE Consume(e, << >>) /\ SendsNothing /\ pending' = [pending EXCEPT ![e] = << >>]
    <3>1. Answers(e, << >>)
      BY <2>3 DEF Answers, SendsNothing
    <3>2. QED
      BY <2>1, <2>3, <3>1, PendingOwn DEF Taken
  <2>4. QED
    BY <1>2, <2>2, <2>3 DEF conn_handle_ack_client
<1>3. CASE e = "client" /\ conn_handle_nack_client
  BY <1>3, RejectTaken DEF conn_handle_nack_client, PreOpen
<1>4. CASE conn_handle_preopen(e) \/ conn_handle_misplaced(e) \/ conn_reject_stream(e)
           \/ conn_handle_close(e)
  BY <1>4, RejectTaken DEF conn_handle_preopen, conn_handle_misplaced, conn_reject_stream,
     conn_handle_close, Reject, PreOpen, StreamFrame, OpenFrame
<1>5. CASE conn_handle_ping(e)
  BY <1>5, PingTaken
<1>6. CASE conn_handle_stream(e)
  <2>1. FrameComplete(e) /\ OnMessage(e, Arrived(e), Arrived(e).type # "STREAM_DATA")
    BY <1>6 DEF conn_handle_stream, StreamFrame, OpenFrame
  <2>2. QED
    BY <2>1, OnMessageTaken
<1>7. CASE conn_handle_message(e)
  <2>1. FrameComplete(e) /\ OnMessage(e, Arrived(e), replies_to(Arrived(e)))
    BY <1>7 DEF conn_handle_message, OpenFrame
  <2>2. QED
    BY <2>1, OnMessageTaken
<1>8. QED
  BY <1>1, <1>2, <1>3, <1>4, <1>5, <1>6, <1>7 DEF pai_proto_conn_poll

\* The reader's direction when it takes a frame.
LEMMA TakenReads ==
  ASSUME TypeOK, NEW e \in Endpoint, Dir(e), Taken(e), state'[Peer(e)] = state[Peer(e)]
  PROVE  Dir(e)' /\ rx'[e] = rx[e] + 1
<1>1. /\ state[e] # "CLOSED" /\ chan[e] # << >>
      /\ chan[e] \in Seq(Chunk) /\ pending[e] \in Seq(Frame) /\ rx[e] \in Nat
      /\ tx \in [Endpoint -> Nat] /\ tx[Peer(e)] \in Nat /\ Peer(e) \in Endpoint /\ Peer(e) # e
  BY DirType, Peers DEF Taken, FrameComplete, TypeOK
<1>2. PICK c : c = chan[e]
  OBVIOUS
<1>3. Head(c) = c[1] /\ Tail(c) \in Seq(Chunk)
  BY <1>1, <1>2, ChunkRead
<1>4. /\ \/ pending[e] = << >> /\ c[1].part = "header" /\ ~Bodied(c[1].frame)
         \/ pending[e] = <<c[1].frame>> /\ c[1].part = "payload"
      /\ WireOk(c, pending[e], rx[e], tx[Peer(e)], state[Peer(e)] = "CLOSED")
  BY <1>1, <1>2, <1>3 DEF Taken, FrameComplete, Dir
<1>5. /\ c[1].frame.n = rx[e] + 1
      /\ WireOk(Tail(c), << >>, c[1].frame.n, tx[Peer(e)], state[Peer(e)] = "CLOSED")
  <2>1. PICK gone \in BOOLEAN : gone = (state[Peer(e)] = "CLOSED")
    OBVIOUS
  <2>2. QED
    BY <1>1, <1>2, <1>4, <2>1, DispatchOk
<1>6. PICK wire : Consume(e, wire) /\ Answers(e, wire)
  BY DEF Taken
<1>7. chan'[e] = Tail(c) /\ rx'[e] = c[1].frame.n
  <2>1. chan \in [Endpoint -> Seq(Chunk)] /\ rx \in [Endpoint -> Nat]
    BY DEF TypeOK
  <2>2. QED
    BY <1>1, <1>2, <1>3, <1>6, <2>1 DEF Consume, Arrived
<1>8. tx'[Peer(e)] = tx[Peer(e)]
  BY <1>1, <1>6 DEF Answers, Sends
<1>9. QED
  BY <1>5, <1>7, <1>8 DEF Taken, Dir

\* The other direction when a frame is taken: what the handler answered is on
\* its way.
LEMMA TakenAnswers ==
  ASSUME TypeOK, NEW e \in Endpoint, Dir(Peer(e)), Taken(e),
         state'[Peer(e)] = state[Peer(e)], rx'[Peer(e)] = rx[Peer(e)]
  PROVE  Dir(Peer(e))'
<1>1. PICK wire : Consume(e, wire) /\ Answers(e, wire)
  BY DEF Taken
<1>2. Peer(e) \in Endpoint /\ Peer(e) # e /\ Peer(Peer(e)) = e /\ state[e] # "CLOSED"
      /\ pending'[Peer(e)] = pending[Peer(e)]
  BY Peers DEF Taken, FrameComplete
<1>3. chan[Peer(e)] \in Seq(Chunk) /\ chan'[Peer(e)] = chan[Peer(e)] \o wire
  BY <1>1, <1>2 DEF Consume, TypeOK
<1>4. CASE wire = << >> /\ UNCHANGED tx
  <2>1. chan'[Peer(e)] = chan[Peer(e)]
    BY <1>3, <1>4, ConcatEmptySeq
  <2>2. QED
    BY <1>2, <1>4, <2>1, KeptDir
<1>5. ASSUME NEW f \in Frame, NEW o \in Outcome, f.n = tx[e] + 1, Sends(e, f, o),
             wire = conn_send_unchecked(f, o)
      PROVE  Dir(Peer(e))'
  BY <1>2, <1>3, <1>5, SendsDir
<1>6. QED
  BY <1>1, <1>4, <1>5 DEF Answers

\* Reading a chunk, and not yet all of a frame.
LEMMA ChunkDir ==
  ASSUME TypeOK, NEW e \in Endpoint, Dir(e), RecvHeader(e) \/ RecvTornPayload(e),
         state'[Peer(e)] = state[Peer(e)]
  PROVE  Dir(e)'
<1> SUFFICES ASSUME state'[e] # "CLOSED" PROVE Dir(e)'
  BY ClosedDir
<1>1. /\ state[e] # "CLOSED" /\ chan[e] # << >> /\ UNCHANGED <<rx, tx>>
      /\ chan[e] \in Seq(Chunk) /\ pending[e] \in Seq(Frame) /\ rx[e] \in Nat
      /\ tx[Peer(e)] \in Nat /\ chan'[e] = Tail(chan[e])
  <2>1. chan \in [Endpoint -> Seq(Chunk)]
    BY DEF TypeOK
  <2>2. QED
    BY <2>1, DirType DEF RecvHeader, RecvTornPayload, SendsNothing
<1>2. PICK gone \in BOOLEAN : gone = (state[Peer(e)] = "CLOSED")
  OBVIOUS
<1>3. PICK c : c = chan[e]
  OBVIOUS
<1>4. Head(c) = c[1] /\ WireOk(c, pending[e], rx[e], tx[Peer(e)], gone)
  BY <1>1, <1>2, <1>3, ChunkRead DEF Dir
<1>5. state \in [Endpoint -> State] /\ pending \in [Endpoint -> Seq(Frame)]
  BY DEF TypeOK
<1>6. WireOk(Tail(c), pending'[e], rx[e], tx[Peer(e)], gone)
  <2>1. CASE RecvHeader(e)
    <3>1. pending[e] = << >> /\ pending'[e] = <<c[1].frame>>
      BY <1>3, <1>4, <1>5, <2>1 DEF RecvHeader, conn_set_closed, Arrived
    <3>2. QED
      BY <1>1, <1>3, <1>4, <3>1, HeaderRead
  <2>2. CASE RecvTornPayload(e)
    <3>1. pending'[e] = pending[e] /\ pending[e] # << >> /\ c[1] # Payload(pending[e][1])
      BY <1>3, <1>4, <1>5, <2>2 DEF RecvTornPayload, conn_set_closed
    <3>2. QED
      BY <1>1, <1>3, <1>4, <3>1, TornRead
  <2>3. QED
    BY <2>1, <2>2
<1>7. QED
  BY <1>1, <1>2, <1>3, <1>6 DEF Dir

\* The other direction while a chunk or the end of the stream is read.
LEMMA ReadKeeps ==
  ASSUME TypeOK, NEW e \in Endpoint, Dir(Peer(e)),
         RecvHeader(e) \/ RecvTornPayload(e) \/ RecvEof(e),
         state'[Peer(e)] = state[Peer(e)]
  PROVE  Dir(Peer(e))'
<1>1. Peer(e) \in Endpoint /\ Peer(e) # e /\ Peer(Peer(e)) = e /\ state[e] # "CLOSED"
  BY Peers DEF RecvHeader, RecvTornPayload, RecvEof
<1>2. UNCHANGED <<tx, rx>>
  BY DEF RecvHeader, RecvTornPayload, RecvEof, SendsNothing
<1>3. chan'[Peer(e)] = chan[Peer(e)]
  BY <1>1 DEF RecvHeader, RecvTornPayload, RecvEof, TypeOK
<1>4. pending'[Peer(e)] = pending[Peer(e)]
  BY <1>1 DEF RecvHeader, RecvTornPayload, RecvEof, conn_set_closed, TypeOK
<1>5. QED
  BY <1>1, <1>2, <1>3, <1>4, KeptDir

\* A turn of poll's loop.
LEMMA PollDir ==
  ASSUME TypeOK, OrderInv, NEW e \in Endpoint, pai_proto_conn_poll(e)
  PROVE  OrderInv' /\ \A d \in Endpoint : rx'[d] # rx[d] => rx'[d] = rx[d] + 1
<1>1. /\ Peer(e) \in Endpoint /\ Dir(e) /\ Dir(Peer(e))
      /\ \A d \in Endpoint : d = e \/ d = Peer(e)
      /\ state'[Peer(e)] = state[Peer(e)] /\ rx'[Peer(e)] = rx[Peer(e)]
  BY Peers, PollStates, PollHistory DEF OrderInv
<1>2. CASE Taken(e)
  BY <1>1, <1>2, TakenReads, TakenAnswers DEF OrderInv
<1>3. CASE RecvHeader(e) \/ RecvTornPayload(e)
  <2>1. UNCHANGED rx
    BY <1>3 DEF RecvHeader, RecvTornPayload
  <2>2. QED
    BY <1>1, <1>3, <2>1, ChunkDir, ReadKeeps DEF OrderInv
<1>4. CASE RecvEof(e)
  <2>1. UNCHANGED rx /\ state'[e] = "CLOSED"
    BY <1>4 DEF RecvEof, conn_set_closed, TypeOK
  <2>2. QED
    BY <1>1, <1>4, <2>1, ClosedDir, ReadKeeps DEF OrderInv
<1>5. QED
  BY <1>2, <1>3, <1>4, PollTakes

\* A frame an application, or another implementation, puts on the wire.
LEMMA SenderDir ==
  ASSUME TypeOK, OrderInv, NEW e \in Endpoint, state[e] # "CLOSED",
         NEW f \in Frame, NEW o \in Outcome, f.n = tx[e] + 1, Sends(e, f, o),
         chan' = [chan EXCEPT ![Peer(e)] = @ \o conn_send_unchecked(f, o)],
         UNCHANGED <<pending, rx>>, UNCHANGED state \/ state' = [state EXCEPT ![e] = "NEGOTIATING"]
  PROVE  OrderInv'
<1>1. /\ Peer(e) \in Endpoint /\ Peer(e) # e /\ Peer(Peer(e)) = e /\ Dir(e) /\ Dir(Peer(e))
      /\ \A d \in Endpoint : d = e \/ d = Peer(e)
  BY Peers DEF OrderInv
<1>2. /\ chan'[Peer(e)] = chan[Peer(e)] \o conn_send_unchecked(f, o) /\ chan'[e] = chan[e]
      /\ state'[Peer(e)] = state[Peer(e)] /\ tx'[Peer(e)] = tx[Peer(e)]
  BY <1>1 DEF TypeOK, Sends
<1>3. Dir(Peer(e))'
  BY <1>1, <1>2, SendsDir
<1>4. Dir(e)'
  <2>1. WireOk(chan[e], pending[e], rx[e], tx[Peer(e)], state[Peer(e)] = "CLOSED")
    BY <1>1 DEF Dir
  <2>2. QED
    BY <1>2, <2>1 DEF Dir
<1>5. QED
  BY <1>1, <1>3, <1>4 DEF OrderInv

\* The client's HELLO.
LEMMA StartDir ==
  ASSUME TypeOK, OrderInv, pai_proto_conn_start
  PROVE  OrderInv'
<1>1. PICK o \in Outcome :
        LET hello == [NewFrame("client", "HELLO", 1) EXCEPT !.caps = local_caps["client"]] IN
        /\ Sends("client", hello, o)
        /\ chan' = [chan EXCEPT !["server"] = @ \o conn_send_unchecked(hello, o)]
        /\ UNCHANGED state \/ state' = [state EXCEPT !["client"] = "NEGOTIATING"]
  BY DEF pai_proto_conn_start
<1>2. /\ "client" \in Endpoint /\ Peer("client") = "server" /\ "HELLO" \in Type /\ 1 \in Ids
      /\ local_caps["client"] \in SUBSET Caps /\ state["client"] # "CLOSED"
  BY IdsAssumption DEF Endpoint, Peer, Type, TypeOK, pai_proto_conn_start
<1>3. PICK g \in Frame : g = NewFrame("client", "HELLO", 1) /\ g.n = tx["client"] + 1
  BY <1>2, OwnFrame
<1>4. PICK f \in Frame : f = [g EXCEPT !.caps = local_caps["client"]] /\ f.n = tx["client"] + 1
  <2>1. [g EXCEPT !.caps = local_caps["client"]].n = g.n
    BY DEF Frame
  <2>2. QED
    BY <1>2, <1>3, <2>1, FrameExcept
<1>5. /\ Sends("client", f, o)
      /\ chan' = [chan EXCEPT ![Peer("client")] = @ \o conn_send_unchecked(f, o)]
      /\ UNCHANGED <<pending, rx>>
      /\ UNCHANGED state \/ state' = [state EXCEPT !["client"] = "NEGOTIATING"]
  BY <1>1, <1>2, <1>3, <1>4 DEF pai_proto_conn_start
<1>6. QED
  BY <1>2, <1>4, <1>5, SenderDir

\* Sends between polls.
LEMMA SendDir ==
  ASSUME TypeOK, OrderInv, NEW e \in Endpoint, pai_proto_conn_send(e) \/ ForeignSend(e)
  PROVE  OrderInv'
<1>1. state[e] # "CLOSED" /\ UNCHANGED <<state, pending, rx>> /\ tx[e] + 1 \in Nat
      /\ Major[e] \in Nat /\ "sent" \in Outcome
  <2>1. state[e] # "CLOSED" /\ UNCHANGED <<state, pending, rx>>
    BY DEF pai_proto_conn_send, ForeignSend
  <2>2. tx[e] + 1 \in Nat /\ Major[e] \in Nat /\ "sent" \in Outcome
    BY MajorAssumption DEF TypeOK, Outcome
  <2>3. QED
    BY <2>1, <2>2
<1>2. \E g \in Frame, v \in Nat, o \in Outcome :
        LET f == [g EXCEPT !.ver = v, !.n = tx[e] + 1] IN
        /\ Sends(e, f, o)
        /\ chan' = [chan EXCEPT ![Peer(e)] = @ \o conn_send_unchecked(f, o)]
  <2>1. CASE pai_proto_conn_send(e)
    BY <1>1, <2>1, FramesAssumption DEF pai_proto_conn_send
  <2>2. CASE ForeignSend(e)
    <3>1. PICK g \in WildFrames[e] :
            LET f == [g EXCEPT !.n = tx[e] + 1] IN
            /\ Sends(e, f, "sent")
            /\ chan' = [chan EXCEPT ![Peer(e)] = @ \o conn_send_unchecked(f, "sent")]
      BY <2>2 DEF ForeignSend
    <3>2. g \in Frame
      BY FramesAssumption
    <3>3. g.ver \in Nat /\ [g EXCEPT !.n = tx[e] + 1] = [g EXCEPT !.ver = g.ver, !.n = tx[e] + 1]
      BY <3>2 DEF Frame
    <3>4. QED
      BY <1>1, <3>1, <3>2, <3>3
  <2>3. QED
    BY <2>1, <2>2
<1>3. PICK g \in Frame, v \in Nat, o \in Outcome :
        LET f == [g EXCEPT !.ver = v, !.n = tx[e] + 1] IN
        /\ Sends(e, f, o)
        /\ chan' = [chan EXCEPT ![Peer(e)] = @ \o conn_send_unchecked(f, o)]
  BY <1>2
<1>4. PICK f \in Frame : f = [g EXCEPT !.ver = v, !.n = tx[e] + 1] /\ f.n = tx[e] + 1
  <2>1. [g EXCEPT !.ver = v, !.n = tx[e] + 1].n = tx[e] + 1
    BY DEF Frame
  <2>2. QED
    BY <1>1, <2>1, FrameExcept
<1>5. QED
  BY <1>1, <1>3, <1>4, SenderDir

\* The owner destroys an end, or the network drops what a gone peer had sent.
LEMMA LossDir ==
  ASSUME TypeOK, OrderInv, NEW e \in Endpoint, pai_proto_conn_destroy(e) \/ Reset(e)
  PROVE  OrderInv'
<1>1. /\ Peer(e) \in Endpoint /\ Peer(e) # e /\ Peer(Peer(e)) = e /\ Dir(e) /\ Dir(Peer(e))
      /\ \A d \in Endpoint : d = e \/ d = Peer(e)
  BY Peers DEF OrderInv
<1>2. UNCHANGED <<tx, rx>> /\ state[e] # "CLOSED"
  BY DEF pai_proto_conn_destroy, Reset, SendsNothing
<1>3. /\ state'[Peer(e)] = state[Peer(e)] /\ pending'[Peer(e)] = pending[Peer(e)]
      /\ chan'[Peer(e)] = chan[Peer(e)]
  BY <1>1 DEF pai_proto_conn_destroy, Reset, TypeOK
<1>4. Dir(Peer(e))'
  BY <1>1, <1>2, <1>3, KeptDir
<1>5. CASE pai_proto_conn_destroy(e)
  <2>1. state'[e] = "CLOSED"
    BY <1>5 DEF pai_proto_conn_destroy, TypeOK
  <2>2. QED
    BY <1>1, <1>4, <2>1, ClosedDir DEF OrderInv
<1>6. CASE Reset(e)
  <2>1. /\ state[Peer(e)] = "CLOSED" /\ UNCHANGED <<state, pending>>
        /\ chan[e] \in Seq(Chunk) /\ chan \in [Endpoint -> Seq(Chunk)]
    BY <1>6 DEF Reset, TypeOK
  <2>2. PICK k \in 0..(Len(chan[e]) - 1) : chan'[e] = SubSeq(chan[e], 1, k)
    BY <1>6, <2>1 DEF Reset
  <2>3. WireOk(chan[e], pending[e], rx[e], tx[Peer(e)], TRUE)
    <3>1. WireOk(chan[e], pending[e], rx[e], tx[Peer(e)], state[Peer(e)] = "CLOSED")
      BY <1>1, <1>2 DEF Dir
    <3>2. QED
      BY <3>1, GoneOk
  <2>4. WireOk(chan'[e], pending[e], rx[e], tx[Peer(e)], TRUE)
    BY <2>1, <2>2, <2>3, PrefixOk
  <2>5. Dir(e)'
    BY <1>2, <2>1, <2>4 DEF Dir
  <2>6. QED
    BY <1>1, <1>4, <2>5 DEF OrderInv
<1>7. QED
  BY <1>5, <1>6

\* Every step keeps what is on the way in order, and dispatches the next frame
\* or none.
LEMMA NextOrder ==
  ASSUME TypeOK, OrderInv, [ForeignNext]_vars
  PROVE  OrderInv' /\ \A d \in Endpoint : rx'[d] # rx[d] => rx'[d] = rx[d] + 1
<1>1. CASE UNCHANGED vars
  BY <1>1 DEF vars, OrderInv, Dir
<1>2. CASE \E e \in Endpoint : pai_proto_conn_poll(e)
  BY <1>2, PollDir
<1>3. CASE pai_proto_conn_start
  <2>1. UNCHANGED rx
    BY <1>3 DEF pai_proto_conn_start
  <2>2. QED
    BY <1>3, <2>1, StartDir
<1>4. ASSUME NEW e \in Endpoint,
             \/ pai_proto_conn_send(e) \/ ForeignSend(e)
             \/ pai_proto_conn_destroy(e) \/ Reset(e)
      PROVE  OrderInv' /\ UNCHANGED rx
  <2>1. UNCHANGED rx
    BY <1>4 DEF pai_proto_conn_send, ForeignSend, pai_proto_conn_destroy, Reset
  <2>2. QED
    BY <1>4, <2>1, SendDir, LossDir
<1>5. QED
  BY <1>1, <1>2, <1>3, <1>4 DEF ForeignNext, Next

\* Frames are dispatched whole, in order and without a gap, although a send may
\* be lost, a frame torn, an end destroyed and the last chunks dropped, and
\* whatever another implementation sends: a frame that comes after a torn one
\* is never dispatched.
THEOREM FramesInOrder == ForeignSpec => InOrder
<1> DEFINE Step == \A e \in Endpoint : rx'[e] # rx[e] => rx'[e] = rx[e] + 1
<1>1. Init => TypeOK /\ OrderInv
  <2> SUFFICES ASSUME Init PROVE OrderInv
    BY InitType
  <2>1. ASSUME NEW e \in Endpoint PROVE Dir(e)
    <3>1. chan[e] = << >> /\ pending[e] = << >> /\ rx[e] = 0 /\ tx[Peer(e)] = 0
      BY PeerType DEF Init
    <3>2. Ordered(<< >>, 0, state[Peer(e)] = "CLOSED")
      BY DEF Ordered
    <3>3. Resumes(<< >>, << >>, 0, 0, state[Peer(e)] = "CLOSED")
      BY DEF Resumes
    <3>4. QED
      BY <3>1, <3>2, <3>3 DEF Dir, WireOk
  <2>2. QED
    BY <2>1 DEF OrderInv
<1>2. TypeOK /\ OrderInv /\ [ForeignNext]_vars => (TypeOK /\ OrderInv)'
  BY ForeignNextType, NextOrder
<1>3. TypeOK /\ OrderInv /\ [ForeignNext]_vars => [Step]_rx
  BY NextOrder
<1>4. QED
  BY <1>1, <1>2, <1>3, PTL DEF ForeignSpec, ForeignNext, InOrder

-----------------------------------------------------------------------------
(* Automatic replies: every frame an end sends by itself is paid for.       *)

Automatic == {"HELLO", "HELLO_ACK", "HELLO_NACK", "ERROR", "PONG"}

\* The chunk completes a frame that may be answered by an ERROR or a PONG.
Answerable(c) == c.frame.type \notin Automatic /\ (c.part = "payload" \/ ~Bodied(c.frame))

\* How many replies what is on the way may still cause.
Owing(c) == {i \in 1..Len(c) : Answerable(c[i])}
Owed(c) == Cardinality(Owing(c))

\* The HELLO and the answer to it that are still to come.
Unasked == IF state["client"] = "NEW" THEN 1 ELSE 0
Unanswered == IF state["server"] \in {"OPEN", "CLOSED"} THEN 0 ELSE 1

\* What was sent and what it may still cause is paid for by the negotiation's
\* two frames, the faults and twice the application's frames.
ReplyInv ==
  tx["client"] + tx["server"] + Owed(chan["client"]) + Owed(chan["server"])
      + Unasked + Unanswered
    <= 2 + faults + 2 * (sends["client"] + sends["server"])

\* The count is a number.
LEMMA OwedType ==
  ASSUME NEW c \in Seq(Chunk)
  PROVE  IsFiniteSet(Owing(c)) /\ Owed(c) \in Nat
<1>1. Len(c) \in Nat
  BY ChunkFrames
<1>2. IsFiniteSet(1..Len(c))
  BY <1>1, FS_Interval
<1>3. Owing(c) \in SUBSET (1..Len(c))
  BY DEF Owing
<1>4. IsFiniteSet(Owing(c))
  BY <1>2, <1>3, FS_Subset
<1>5. QED
  BY <1>4, FS_CardinalityType DEF Owed

\* Nothing on the way causes nothing.
LEMMA OwedEmpty == Owed(<< >>) = 0
<1>1. Owing(<< >>) = {}
  BY DEF Owing
<1>2. QED
  BY <1>1, FS_EmptySet DEF Owed

\* One more chunk on the way.
LEMMA OwedAppend ==
  ASSUME NEW c \in Seq(Chunk), NEW x \in Chunk
  PROVE  Owed(Append(c, x)) = Owed(c) + (IF Answerable(x) THEN 1 ELSE 0)
<1>1. PICK d : d = Append(c, x)
  OBVIOUS
<1>2. PICK n \in Nat : n = Len(c)
  BY ChunkFrames
<1>3. Len(d) = n + 1 /\ d[n + 1] = x /\ \A i \in 1..n : d[i] = c[i]
  BY <1>1, <1>2, ChunkAppended
<1>4. IsFiniteSet(Owing(c)) /\ Owed(c) \in Nat /\ n + 1 \notin Owing(c)
  <2>1. n + 1 \notin 1..n
    OBVIOUS
  <2>2. QED
    BY <1>2, <2>1, OwedType DEF Owing
<1>5. CASE Answerable(x)
  <2>1. Owing(d) = Owing(c) \cup {n + 1}
    BY <1>2, <1>3, <1>5 DEF Owing
  <2>2. QED
    BY <1>1, <1>4, <1>5, <2>1, FS_AddElement DEF Owed
<1>6. CASE ~Answerable(x)
  <2>1. Owing(d) = Owing(c)
    BY <1>2, <1>3, <1>6 DEF Owing
  <2>2. QED
    BY <1>1, <1>4, <1>6, <2>1 DEF Owed
<1>7. QED
  BY <1>5, <1>6

\* A frame on the way may cause one reply, an automatic one none.
LEMMA OwedSent ==
  ASSUME NEW c \in Seq(Chunk), NEW f \in Frame, NEW o \in Outcome
  PROVE  /\ Owed(c \o conn_send_unchecked(f, o)) \in Nat
         /\ Owed(c \o conn_send_unchecked(f, o))
              <= Owed(c) + (IF f.type \in Automatic THEN 0 ELSE 1)
<1>1. PICK h \in Chunk, p \in Chunk : h = Header(f) /\ p = Payload(f)
  BY DEF Header, Payload, Chunk
<1>2. /\ Answerable(h) <=> f.type \notin Automatic /\ ~Bodied(f)
      /\ Answerable(p) <=> f.type \notin Automatic
  BY <1>1 DEF Answerable, Header, Payload
<1>3. Owed(c) \in Nat
  BY OwedType
<1>4. CASE o = "lost"
  <2>1. c \o conn_send_unchecked(f, o) = c
    BY <1>4, ConcatEmptySeq DEF conn_send_unchecked
  <2>2. QED
    BY <1>3, <2>1
<1>5. PICK d \in Seq(Chunk) : d = Append(c, h)
  BY AppendProperties
<1>6. Owed(d) = Owed(c) + (IF Answerable(h) THEN 1 ELSE 0)
  BY <1>5, OwedAppend
<1>7. CASE o = "torn" \/ (o = "sent" /\ ~Bodied(f))
  <2>1. c \o conn_send_unchecked(f, o) = d
    BY <1>1, <1>5, <1>7, AppendIsConcat DEF conn_send_unchecked
  <2>2. QED
    BY <1>2, <1>3, <1>6, <2>1
<1>8. CASE o = "sent" /\ Bodied(f)
  <2>1. Owed(Append(d, p)) = Owed(d) + (IF Answerable(p) THEN 1 ELSE 0)
    BY OwedAppend
  <2>2. c \o conn_send_unchecked(f, o) = Append(d, p)
    <3>1. conn_send_unchecked(f, o) = <<h>> \o <<p>>
      BY <1>1, <1>8 DEF conn_send_unchecked
    <3>2. Append(d, p) = (c \o <<h>>) \o <<p>>
      BY <1>5, AppendIsConcat
    <3>3. <<h>> \in Seq(Chunk) /\ <<p>> \in Seq(Chunk)
      OBVIOUS
    <3>4. QED
      BY <3>1, <3>2, <3>3, ConcatAssociative
  <2>3. ~Answerable(h)
    BY <1>2, <1>8
  <2>4. Owed(d) = Owed(c)
    BY <1>3, <1>6, <2>3
  <2>5. QED
    BY <1>2, <1>3, <2>1, <2>2, <2>4
<1>9. QED
  BY <1>4, <1>7, <1>8 DEF Outcome

\* A chunk that was read causes nothing any more.
LEMMA OwedRead ==
  ASSUME NEW c \in Seq(Chunk), c # << >>
  PROVE  /\ Owed(Tail(c)) \in Nat
         /\ Owed(Tail(c)) + (IF Answerable(Head(c)) THEN 1 ELSE 0) <= Owed(c)
<1>1. PICK n \in Nat : n = Len(c) /\ n >= 1
  BY ChunkFrames, ChunkRead
<1>2. PICK d \in Seq(Chunk) : d = Tail(c)
  BY ChunkRead
<1>3. Head(c) = c[1] /\ Len(d) = n - 1 /\ \A i \in 1..(n - 1) : d[i] = c[i + 1]
  BY <1>1, <1>2, ChunkRead
<1>4. PICK s : s = Owing(c) \ {1}
  OBVIOUS
<1>5. IsFiniteSet(Owing(c)) /\ Owed(c) \in Nat /\ Owed(d) \in Nat
  BY OwedType
<1>6. /\ IsFiniteSet(s)
      /\ Cardinality(s) = IF 1 \in Owing(c) THEN Owed(c) - 1 ELSE Owed(c)
  BY <1>4, <1>5, FS_RemoveElement DEF Owed
<1>7. 1 \in Owing(c) <=> Answerable(Head(c))
  BY <1>1, <1>3 DEF Owing
<1>8. PICK g : g = [i \in Owing(d) |-> i + 1]
  OBVIOUS
<1>9. g \in Injection(Owing(d), s)
  <2>1. \A i \in Owing(d) : i \in 1..(n - 1) /\ i + 1 \in s
    BY <1>1, <1>3, <1>4 DEF Owing
  <2>2. g \in [Owing(d) -> s]
    BY <1>8, <2>1
  <2>3. \A a, b \in Owing(d) : g[a] = g[b] => a = b
    BY <1>8, <2>1
  <2>4. QED
    BY <1>8, <2>2, <2>3 DEF Injection, IsInjective
<1>10. Owed(d) <= Cardinality(s)
  BY <1>6, <1>9, FS_Injection DEF Owed
<1>11. QED
  BY <1>2, <1>5, <1>6, <1>7, <1>10

\* What a gone peer had sent and the network drops causes nothing.
LEMMA OwedPrefix ==
  ASSUME NEW c \in Seq(Chunk), NEW k \in 0..Len(c)
  PROVE  Owed(SubSeq(c, 1, k)) \in Nat /\ Owed(SubSeq(c, 1, k)) <= Owed(c)
<1>1. PICK d : d = SubSeq(c, 1, k)
  OBVIOUS
<1>2. Len(c) \in Nat
  BY ChunkFrames
<1>3. d \in Seq(Chunk) /\ Len(d) = k /\ \A i \in 1..k : d[i] = c[i]
  BY <1>1, <1>2
<1>4. Owing(d) \in SUBSET Owing(c)
  BY <1>2, <1>3 DEF Owing
<1>5. IsFiniteSet(Owing(c)) /\ Owed(d) \in Nat
  BY <1>3, OwedType
<1>6. QED
  BY <1>1, <1>4, <1>5, FS_Subset DEF Owed

\* A step of e that pays for what it adds.
LEMMA Paid ==
  ASSUME TypeOK, TypeOK', ReplyInv, NEW e \in Endpoint,
         tx'[Peer(e)] = tx[Peer(e)], sends'[Peer(e)] = sends[Peer(e)],
         tx'[e] + Owed(chan'[e]) + Owed(chan'[Peer(e)]) + Unasked' + Unanswered'
             + faults + 2 * sends[e]
           <= tx[e] + Owed(chan[e]) + Owed(chan[Peer(e)]) + Unasked + Unanswered
                + faults' + 2 * sends'[e]
  PROVE  ReplyInv'
<1>1. /\ \A d \in Endpoint : tx[d] \in Nat /\ sends[d] \in Nat /\ Owed(chan[d]) \in Nat
      /\ \A d \in Endpoint : tx'[d] \in Nat /\ sends'[d] \in Nat /\ Owed(chan'[d]) \in Nat
      /\ faults \in Nat /\ faults' \in Nat
  BY OwedType DEF TypeOK
<1>2. Unasked \in Nat /\ Unanswered \in Nat /\ Unasked' \in Nat /\ Unanswered' \in Nat
  BY DEF Unasked, Unanswered
<1>3. /\ \/ e = "client" /\ Peer(e) = "server"
         \/ e = "server" /\ Peer(e) = "client"
      /\ "client" \in Endpoint /\ "server" \in Endpoint
  BY DEF Endpoint, Peer
<1>4. CASE e = "client" /\ Peer(e) = "server"
  BY <1>1, <1>2, <1>3, <1>4 DEF ReplyInv
<1>5. CASE e = "server" /\ Peer(e) = "client"
  BY <1>1, <1>2, <1>3, <1>5 DEF ReplyInv
<1>6. QED
  BY <1>3, <1>4, <1>5

\* The same, each amount under a name of its own.
LEMMA Balance ==
  ASSUME TypeOK, TypeOK', ReplyInv, NEW e \in Endpoint,
         tx'[Peer(e)] = tx[Peer(e)], sends'[Peer(e)] = sends[Peer(e)],
         NEW a, NEW a2, NEW b, NEW b2, NEW c, NEW c2, NEW u, NEW u2, NEW v, NEW v2,
         NEW f, NEW f2, NEW s, NEW s2,
         tx[e] = a, tx'[e] = a2, Owed(chan[e]) = b, Owed(chan'[e]) = b2,
         Owed(chan[Peer(e)]) = c, Owed(chan'[Peer(e)]) = c2,
         Unasked = u, Unasked' = u2, Unanswered = v, Unanswered' = v2,
         faults = f, faults' = f2, sends[e] = s, sends'[e] = s2,
         a2 + b2 + c2 + u2 + v2 + f + 2 * s <= a + b + c + u + v + f2 + 2 * s2
  PROVE  ReplyInv'
<1>1. tx'[e] + Owed(chan'[e]) + Owed(chan'[Peer(e)]) + Unasked' + Unanswered'
          + faults + 2 * sends[e]
        <= tx[e] + Owed(chan[e]) + Owed(chan[Peer(e)]) + Unasked + Unanswered
             + faults' + 2 * sends'[e]
  BY Zenon
<1>2. QED
  BY <1>1, Paid

\* The numbers of one end.
LEMMA Amounts ==
  ASSUME TypeOK, NEW e \in Endpoint
  PROVE  /\ chan[e] \in Seq(Chunk) /\ Owed(chan[e]) \in Nat /\ tx[e] \in Nat
         /\ sends[e] \in Nat /\ faults \in Nat /\ Unasked \in Nat /\ Unanswered \in Nat
         /\ Peer(e) \in Endpoint /\ Peer(e) # e
         /\ chan[Peer(e)] \in Seq(Chunk) /\ Owed(chan[Peer(e)]) \in Nat
<1>1. chan[e] \in Seq(Chunk) /\ tx[e] \in Nat /\ sends[e] \in Nat /\ faults \in Nat
  BY DEF TypeOK
<1>2. Peer(e) \in Endpoint /\ Peer(e) # e
  BY PeerType
<1>3. chan[Peer(e)] \in Seq(Chunk)
  BY <1>2 DEF TypeOK
<1>4. QED
  BY <1>1, <1>2, <1>3, OwedType DEF Unasked, Unanswered

\* Neither the HELLO nor its answer is taken back.
Forward == Unasked' <= Unasked /\ Unanswered' <= Unanswered

\* A state only moves on: the client asks, an end opens or closes.
LEMMA ForwardStep ==
  ASSUME TypeOK, \/ UNCHANGED state
                 \/ \E e \in Endpoint, s \in {"OPEN", "CLOSED"} : state' = [state EXCEPT ![e] = s]
                 \/ state' = [state EXCEPT !["client"] = "NEGOTIATING"]
  PROVE  Forward
<1>1. state \in [Endpoint -> State] /\ "client" \in Endpoint /\ "server" \in Endpoint
  BY DEF TypeOK, Endpoint
<1>2. state'["client"] = "NEW" => state["client"] = "NEW"
  BY <1>1
<1>3. state["server"] \in {"OPEN", "CLOSED"} => state'["server"] \in {"OPEN", "CLOSED"}
  BY <1>1
<1>4. QED
  BY <1>2, <1>3 DEF Forward, Unasked, Unanswered

\* Reading without an answer.
LEMMA QuietPays ==
  ASSUME TypeOK, TypeOK', ReplyInv, NEW e \in Endpoint, Forward, UNCHANGED <<tx, sends>>,
         faults' >= faults, chan'[Peer(e)] = chan[Peer(e)],
         \/ chan'[e] = chan[e]
         \/ chan[e] # << >> /\ chan'[e] = Tail(chan[e])
         \/ \E i \in 0..Len(chan[e]) : chan'[e] = SubSeq(chan[e], 1, i)
  PROVE  ReplyInv'
<1>1. Owed(chan'[e]) <= Owed(chan[e]) /\ Owed(chan'[e]) \in Nat
  <2>1. CASE chan'[e] = chan[e]
    BY <2>1, Amounts
  <2>2. CASE chan[e] # << >> /\ chan'[e] = Tail(chan[e])
    <3>1. chan[e] \in Seq(Chunk) /\ Owed(chan[e]) \in Nat
      BY Amounts
    <3>2. QED
      BY <2>2, <3>1, OwedRead
  <2>3. CASE \E i \in 0..Len(chan[e]) : chan'[e] = SubSeq(chan[e], 1, i)
    <3>1. chan[e] \in Seq(Chunk)
      BY Amounts
    <3>2. QED
      BY <2>3, <3>1, OwedPrefix
  <2>4. QED
    BY <2>1, <2>2, <2>3
<1>2. Unasked' \in Nat /\ Unanswered' \in Nat /\ faults' \in Nat
  BY DEF Unasked, Unanswered, TypeOK
<1>3. Forward
  OBVIOUS
<1>4. PICK a, a2, b, b2, c, c2, u, u2, v, v2, k, k2, s, s2 :
         /\ tx[e] = a /\ tx'[e] = a2 /\ Owed(chan[e]) = b /\ Owed(chan'[e]) = b2
         /\ Owed(chan[Peer(e)]) = c /\ Owed(chan'[Peer(e)]) = c2 /\ Unasked = u /\ Unasked' = u2
         /\ Unanswered = v /\ Unanswered' = v2 /\ faults = k /\ faults' = k2
         /\ sends[e] = s /\ sends'[e] = s2
  OBVIOUS
<1>5. /\ a \in Nat /\ b \in Nat /\ b2 \in Nat /\ c \in Nat /\ u \in Nat /\ u2 \in Nat
      /\ v \in Nat /\ v2 \in Nat /\ k \in Nat /\ k2 \in Nat /\ s \in Nat
  BY <1>1, <1>2, <1>4, Amounts
<1>6. a2 = a /\ c2 = c /\ s2 = s /\ b2 <= b /\ u2 <= u /\ v2 <= v /\ k <= k2
  BY <1>1, <1>2, <1>4, <1>5 DEF Forward
<1>7. a2 + b2 + c2 + u2 + v2 + k + 2 * s <= a + b + c + u + v + k2 + 2 * s2
  <2>1. b2 + u2 <= b + u
    BY <1>5, <1>6
  <2>2. v2 + k <= v + k2
    BY <1>5, <1>6
  <2>3. a + b2 + c + u2 + v2 + k + 2 * s <= a + b + c + u + v + k2 + 2 * s
    BY <1>5, <2>1, <2>2
  <2>4. QED
    BY <1>6, <2>3
<1>8. tx'[Peer(e)] = tx[Peer(e)] /\ sends'[Peer(e)] = sends[Peer(e)]
  OBVIOUS
<1>9. QED
  BY <1>4, <1>7, <1>8, Balance

\* Reading with an answer: what was read stood for one, or it is the answer to
\* the HELLO.
LEMMA ReplyPays ==
  ASSUME TypeOK, TypeOK', ReplyInv, NEW e \in Endpoint, Forward, UNCHANGED sends,
         NEW f \in Frame, NEW o \in Outcome, f.type \in Automatic, Sends(e, f, o),
         chan[e] # << >>, Consume(e, conn_send_unchecked(f, o)),
         \/ Answerable(Head(chan[e]))
         \/ Unanswered = 1 /\ Unanswered' = 0
  PROVE  ReplyInv'
<1>1. PICK p : p = Peer(e)
  OBVIOUS
<1>2. /\ chan[e] \in Seq(Chunk) /\ Owed(chan[e]) \in Nat /\ tx[e] \in Nat
      /\ sends[e] \in Nat /\ faults \in Nat /\ Unasked \in Nat /\ Unanswered \in Nat
      /\ p \in Endpoint /\ p # e /\ chan[p] \in Seq(Chunk) /\ Owed(chan[p]) \in Nat
      /\ tx \in [Endpoint -> Nat] /\ chan \in [Endpoint -> Seq(Chunk)]
  BY <1>1, Amounts DEF TypeOK
<1>3. chan'[e] = Tail(chan[e]) /\ chan'[p] = chan[p] \o conn_send_unchecked(f, o)
  BY <1>1, <1>2 DEF Consume
<1>4. /\ Owed(chan'[e]) \in Nat
      /\ Owed(chan'[e]) + (IF Answerable(Head(chan[e])) THEN 1 ELSE 0) <= Owed(chan[e])
  BY <1>2, <1>3, OwedRead
<1>5. Owed(chan'[p]) \in Nat /\ Owed(chan'[p]) <= Owed(chan[p])
  BY <1>2, <1>3, OwedSent
<1>6. /\ faults' = IF o = "sent" THEN faults ELSE faults + 1
      /\ tx'[e] = IF o = "lost" THEN tx[e] ELSE tx[e] + 1
      /\ tx'[p] = tx[p]
  BY <1>2 DEF Sends
<1>7. tx'[e] + faults <= tx[e] + faults' + 1 /\ tx'[e] \in Nat /\ faults' \in Nat
  BY <1>2, <1>6
<1>8. Unasked' \in Nat /\ Unanswered' \in Nat /\ Unasked' <= Unasked /\ Unanswered' <= Unanswered
  BY DEF Unasked, Unanswered, Forward
<1>9. Owed(chan'[e]) + Unanswered' + 1 <= Owed(chan[e]) + Unanswered
  BY <1>2, <1>4, <1>8
<1>10. PICK a, a2, b, b2, c, c2, u, u2, v, v2, k, k2, s, s2 :
         /\ tx[e] = a /\ tx'[e] = a2 /\ Owed(chan[e]) = b /\ Owed(chan'[e]) = b2
         /\ Owed(chan[p]) = c /\ Owed(chan'[p]) = c2 /\ Unasked = u /\ Unasked' = u2
         /\ Unanswered = v /\ Unanswered' = v2 /\ faults = k /\ faults' = k2
         /\ sends[e] = s /\ sends'[e] = s2
  OBVIOUS
<1>11. /\ a \in Nat /\ b \in Nat /\ b2 \in Nat /\ c \in Nat /\ c2 \in Nat /\ u \in Nat /\ u2 \in Nat
       /\ v \in Nat /\ v2 \in Nat /\ k \in Nat /\ k2 \in Nat /\ s \in Nat /\ a2 \in Nat
  BY <1>2, <1>4, <1>5, <1>7, <1>8, <1>10
<1>12. a2 + k <= a + k2 + 1
  BY <1>7, <1>10
<1>13. b2 + v2 + 1 <= b + v
  BY <1>9, <1>10
<1>14. c2 <= c /\ u2 <= u /\ s2 = s
  BY <1>5, <1>8, <1>10
<1>15. a2 + b2 + c2 + u2 + v2 + k + 2 * s <= a + b + c + u + v + k2 + 2 * s2
  <2>1. c2 + u2 <= c + u
    BY <1>11, <1>14
  <2>2. a2 + b2 + v2 + k <= a + b + v + k2
    BY <1>11, <1>12, <1>13
  <2>3. a2 + b2 + c2 + u2 + v2 + k + 2 * s <= a + b + c + u + v + k2 + 2 * s
    BY <1>11, <2>1, <2>2
  <2>4. QED
    BY <1>14, <2>3
<1>16. tx'[p] = tx[p] /\ sends'[p] = sends[p]
  BY <1>6
<1>17. QED
  BY <1>1, <1>10, <1>15, <1>16, Balance

\* Sending without reading: a frame of the application, or the HELLO.
LEMMA SendPays ==
  ASSUME TypeOK, TypeOK', ReplyInv, NEW e \in Endpoint, Forward,
         NEW f \in Frame, NEW o \in Outcome, Sends(e, f, o),
         chan' = [chan EXCEPT ![Peer(e)] = @ \o conn_send_unchecked(f, o)],
         \/ sends' = [sends EXCEPT ![e] = @ + 1]
         \/ /\ UNCHANGED sends /\ f.type \in Automatic
            /\ o = "sent" => Unasked = 1 /\ Unasked' = 0
  PROVE  ReplyInv'
<1>1. PICK p : p = Peer(e)
  OBVIOUS
<1>2. /\ chan[e] \in Seq(Chunk) /\ Owed(chan[e]) \in Nat /\ tx[e] \in Nat
      /\ sends[e] \in Nat /\ faults \in Nat /\ Unasked \in Nat /\ Unanswered \in Nat
      /\ p \in Endpoint /\ p # e /\ chan[p] \in Seq(Chunk) /\ Owed(chan[p]) \in Nat
      /\ tx \in [Endpoint -> Nat] /\ chan \in [Endpoint -> Seq(Chunk)]
      /\ sends \in [Endpoint -> Nat]
  BY <1>1, Amounts DEF TypeOK
<1>3. chan'[e] = chan[e] /\ chan'[p] = chan[p] \o conn_send_unchecked(f, o)
  BY <1>1, <1>2
<1>4. /\ Owed(chan'[p]) \in Nat
      /\ Owed(chan'[p]) <= Owed(chan[p]) + (IF f.type \in Automatic THEN 0 ELSE 1)
  BY <1>2, <1>3, OwedSent
<1>5. /\ faults' = IF o = "sent" THEN faults ELSE faults + 1
      /\ tx'[e] = IF o = "lost" THEN tx[e] ELSE tx[e] + 1
      /\ tx'[p] = tx[p]
  BY <1>2 DEF Sends
<1>6. Unasked' \in Nat /\ Unanswered' \in Nat /\ Unasked' <= Unasked /\ Unanswered' <= Unanswered
  BY DEF Unasked, Unanswered, Forward
<1>7. sends'[p] = sends[p]
  BY <1>2
<1>8. /\ tx'[e] + faults <= tx[e] + faults' + 1 /\ tx'[e] \in Nat /\ faults' \in Nat
      /\ o # "sent" => tx'[e] + faults <= tx[e] + faults'
  BY <1>2, <1>5
<1>9. PICK a, a2, b, b2, c, c2, u, u2, v, v2, k, k2, s, s2 :
         /\ tx[e] = a /\ tx'[e] = a2 /\ Owed(chan[e]) = b /\ Owed(chan'[e]) = b2
         /\ Owed(chan[p]) = c /\ Owed(chan'[p]) = c2 /\ Unasked = u /\ Unasked' = u2
         /\ Unanswered = v /\ Unanswered' = v2 /\ faults = k /\ faults' = k2
         /\ sends[e] = s /\ sends'[e] = s2
  OBVIOUS
<1>10. /\ a \in Nat /\ b \in Nat /\ c \in Nat /\ c2 \in Nat /\ u \in Nat /\ u2 \in Nat
       /\ v \in Nat /\ v2 \in Nat /\ k \in Nat /\ k2 \in Nat /\ s \in Nat /\ a2 \in Nat
  BY <1>2, <1>4, <1>6, <1>8, <1>9
<1>11. a2 + k <= a + k2 + 1 /\ (o # "sent" => a2 + k <= a + k2)
  BY <1>8, <1>9
<1>12. b2 = b /\ u2 <= u /\ v2 <= v
  BY <1>3, <1>6, <1>9
<1>13. a2 + b2 + c2 + u2 + v2 + k + 2 * s <= a + b + c + u + v + k2 + 2 * s2
  <2>1. CASE sends' = [sends EXCEPT ![e] = @ + 1]
    <3>1. s2 = s + 1
      BY <1>2, <1>9, <2>1
    <3>2. c2 <= c + 1
      <4>1. CASE f.type \in Automatic
        BY <1>2, <1>4, <1>9, <1>10, <4>1
      <4>2. CASE f.type \notin Automatic
        BY <1>4, <1>9, <4>2
      <4>3. QED
        BY <4>1, <4>2
    <3>3. a2 + k + c2 <= a + k2 + c + 2
      BY <1>10, <1>11, <3>2
    <3>4. b + u2 + v2 <= b + u + v
      BY <1>10, <1>12
    <3>5. a2 + b + c2 + u2 + v2 + k + 2 * s <= a + b + c + u + v + k2 + 2 * (s + 1)
      BY <1>10, <3>3, <3>4
    <3>6. QED
      BY <1>12, <3>1, <3>5
  <2>2. CASE UNCHANGED sends /\ f.type \in Automatic /\ (o = "sent" => Unasked = 1 /\ Unasked' = 0)
    <3>1. s2 = s
      BY <1>9, <2>2
    <3>2. c2 <= c
      BY <1>2, <1>4, <1>9, <1>10, <2>2
    <3>3. o = "sent" => u = 1 /\ u2 = 0
      BY <1>9, <2>2
    <3>4. a2 + u2 + k <= a + u + k2
      BY <1>10, <1>11, <1>12, <3>3
    <3>5. a2 + b + c2 + u2 + v2 + k + 2 * s <= a + b + c + u + v + k2 + 2 * s
      BY <1>10, <1>12, <3>2, <3>4
    <3>6. QED
      BY <1>12, <3>1, <3>5
  <2>3. QED
    BY <2>1, <2>2
<1>14. tx'[p] = tx[p] /\ sends'[p] = sends[p]
  BY <1>5, <1>7
<1>15. QED
  BY <1>1, <1>9, <1>13, <1>14, Balance

\* A frame taken without an answer.
LEMMA TakenQuietly ==
  ASSUME TypeOK, TypeOK', ReplyInv, NEW e \in Endpoint, FrameComplete(e), Forward,
         Consume(e, << >>), UNCHANGED tx, faults' >= faults
  PROVE  ReplyInv'
<1>1. chan[e] # << >> /\ UNCHANGED sends
  BY DEF FrameComplete, Consume
<1>2. chan' = [chan EXCEPT ![e] = Tail(@)]
  BY ConsumeNothing
<1>3. chan'[Peer(e)] = chan[Peer(e)] /\ chan'[e] = Tail(chan[e])
  BY <1>2, PeerType DEF TypeOK
<1>4. QED
  BY <1>1, <1>3, QuietPays

\* Closing, by itself, takes back neither the HELLO nor its answer.
LEMMA ClosedForward ==
  ASSUME TypeOK, NEW e \in Endpoint, NEW reason, conn_set_closed(e, reason)
  PROVE  Forward
BY ForwardStep DEF conn_set_closed

\* A frame refused by poll is not answered.
LEMMA RefusedQuietly ==
  ASSUME TypeOK, TypeOK', ReplyInv, NEW e \in Endpoint, FrameComplete(e),
         Consume(e, << >>), SendsNothing, NEW reason, conn_set_closed(e, reason)
  PROVE  ReplyInv'
<1>1. Forward
  BY ClosedForward
<1>2. UNCHANGED tx /\ faults' >= faults
  BY DEF SendsNothing, TypeOK
<1>3. QED
  BY <1>1, <1>2, TakenQuietly

\* The chunk that completes a frame stands for the reply to it.
LEMMA CompletesFrame ==
  ASSUME NEW e \in Endpoint, FrameComplete(e), Arrived(e).type \notin Automatic
  PROVE  chan[e] # << >> /\ Answerable(Head(chan[e]))
BY DEF FrameComplete, Arrived, Answerable

\* on_message accepts, or refuses a frame that is not itself automatic.
LEMMA OnMessagePays ==
  ASSUME TypeOK, TypeOK', ReplyInv, NEW e \in Endpoint, FrameComplete(e), NEW replies,
         replies => Arrived(e).type \notin Automatic, OnMessage(e, Arrived(e), replies)
  PROVE  ReplyInv'
<1>1. Forward
  BY ForwardStep DEF OnMessage, Handled
<1>2. CASE SendsNothing /\ Handled(e, << >>)
  <2>1. UNCHANGED tx /\ faults' >= faults /\ Consume(e, << >>)
    BY <1>2 DEF SendsNothing, Handled, TypeOK
  <2>2. QED
    BY <1>1, <2>1, TakenQuietly
<1>3. ASSUME NEW o \in Outcome, replies, Sends(e, NewFrame(e, "ERROR", Arrived(e).id), o),
             Handled(e, conn_send_unchecked(NewFrame(e, "ERROR", Arrived(e).id), o))
      PROVE  ReplyInv'
  <2>1. Arrived(e).id \in Ids /\ "ERROR" \in Type
    BY ArrivedType DEF FrameComplete, Frame, Type
  <2>2. PICK f \in Frame : f = NewFrame(e, "ERROR", Arrived(e).id)
    BY <2>1, NewFrameType
  <2>3. f.type \in Automatic
    BY <2>2 DEF NewFrame, Automatic
  <2>4. chan[e] # << >> /\ Answerable(Head(chan[e]))
    BY <1>3, CompletesFrame
  <2>5. Sends(e, f, o) /\ Consume(e, conn_send_unchecked(f, o)) /\ UNCHANGED sends
    BY <1>3, <2>2 DEF Handled, Consume
  <2>6. QED
    BY <1>1, <2>3, <2>4, <2>5, ReplyPays
<1>4. QED
  BY <1>2, <1>3 DEF OnMessage

\* PING is paid for by whoever sent it; a PONG has no payload to tear.
LEMMA PingPays ==
  ASSUME TypeOK, TypeOK', ReplyInv, NEW e \in Endpoint, conn_handle_ping(e)
  PROVE  ReplyInv'
<1>1. FrameComplete(e) /\ Arrived(e).type = "PING"
  BY DEF conn_handle_ping, OpenFrame
<1>2. Arrived(e).id \in Ids /\ "PONG" \in Type
  BY <1>1, ArrivedType DEF FrameComplete, Frame, Type
<1>3. PICK f \in Frame : f = NewFrame(e, "PONG", Arrived(e).id)
  BY <1>2, NewFrameType
<1>4. PICK o \in Outcome :
        /\ Sends(e, f, o)
        /\ IF o = "sent" THEN Handled(e, conn_send_unchecked(f, o))
           ELSE Consume(e, << >>) /\ conn_set_closed(e, "protocol")
  BY <1>3 DEF conn_handle_ping
<1>5. f.type \in Automatic /\ ~Bodied(f)
  BY <1>3 DEF NewFrame, Automatic, Bodied
<1>6. CASE o = "sent"
  <2>1. Forward
    BY <1>4, <1>6, ForwardStep DEF Handled
  <2>2. chan[e] # << >> /\ Answerable(Head(chan[e]))
    BY <1>1, CompletesFrame DEF Automatic
  <2>3. Consume(e, conn_send_unchecked(f, o)) /\ UNCHANGED sends
    BY <1>4, <1>6 DEF Handled, Consume
  <2>4. QED
    BY <1>4, <1>5, <2>1, <2>2, <2>3, ReplyPays
<1>7. CASE o # "sent"
  <2>1. o = "lost"
    BY <1>4, <1>5, <1>7 DEF Sends, Outcome
  <2>2. UNCHANGED tx /\ faults' >= faults
    BY <1>4, <2>1 DEF Sends, TypeOK
  <2>3. Forward
    BY <1>4, <1>7, ClosedForward
  <2>4. QED
    BY <1>1, <1>4, <1>7, <2>2, <2>3, TakenQuietly
<1>8. QED
  BY <1>6, <1>7

\* The server answers a HELLO once: it is OPEN or CLOSED when it has.
LEMMA HelloPays ==
  ASSUME TypeOK, TypeOK', ReplyInv, conn_handle_hello_server
  PROVE  ReplyInv'
<1>1. /\ FrameComplete("server") /\ "server" \in Endpoint /\ chan["server"] # << >>
      /\ state["server"] \notin {"OPEN", "CLOSED"}
  BY DEF conn_handle_hello_server, PreOpen, FrameComplete, Endpoint
<1>2. PICK f \in Frame : f = Arrived("server") /\ f.id \in Ids
  BY <1>1, ArrivedType DEF Frame
<1>3. CASE Reject("server")
  BY <1>1, <1>3, RefusedQuietly DEF Reject
<1>4. ASSUME NEW g \in Frame, NEW o \in Outcome, g.type \in Automatic,
             Sends("server", g, o), Consume("server", conn_send_unchecked(g, o)),
             NEW st \in {"OPEN", "CLOSED"}, state' = [state EXCEPT !["server"] = st]
      PROVE  ReplyInv'
  <2>1. Forward
    BY <1>1, <1>4, ForwardStep
  <2>2. state'["server"] = st
    BY <1>1, <1>4 DEF TypeOK
  <2>3. Unanswered = 1 /\ Unanswered' = 0
    BY <1>1, <2>2 DEF Unanswered
  <2>4. UNCHANGED sends
    BY <1>4 DEF Consume
  <2>5. QED
    BY <1>1, <1>4, <2>1, <2>3, <2>4, ReplyPays
<1>5. ASSUME NEW why \in Reason, NEW reason, conn_refuse_hello(f, why, reason)
      PROVE  ReplyInv'
  <2>1. PICK g \in Frame : g = conn_send_negotiation(f, "HELLO_NACK")
    BY <1>1, <1>2, NewFrameType DEF conn_send_negotiation, Type
  <2>2. PICK nack \in Frame : nack = [g EXCEPT !.reason = why]
    BY FrameExcept
  <2>3. nack.type \in Automatic
    BY <2>1, <2>2 DEF conn_send_negotiation, NewFrame, Automatic
  <2>4. PICK o \in Outcome :
          /\ Sends("server", nack, o)
          /\ Consume("server", conn_send_unchecked(nack, o))
          /\ conn_set_closed("server", reason)
    BY <1>5, <2>1, <2>2 DEF conn_refuse_hello
  <2>5. state' = [state EXCEPT !["server"] = "CLOSED"]
    BY <2>4 DEF conn_set_closed
  <2>6. QED
    BY <1>4, <2>3, <2>4, <2>5
<1>6. ASSUME NEW mask \in OnHello, conn_accept_hello(f, mask)
      PROVE  ReplyInv'
  <2>1. PICK g \in Frame : g = conn_send_negotiation(f, "HELLO_ACK")
    BY <1>1, <1>2, NewFrameType DEF conn_send_negotiation, Type
  <2>2. conn_agree(mask, f.caps) \in SUBSET Caps
    BY CapsAssumption DEF conn_agree, Frame
  <2>3. PICK ack \in Frame : ack = [g EXCEPT !.caps = conn_agree(mask, f.caps)]
    BY <2>2, FrameExcept
  <2>4. ack.type \in Automatic
    BY <2>1, <2>3 DEF conn_send_negotiation, NewFrame, Automatic
  <2>5. PICK o \in Outcome :
          /\ Sends("server", ack, o)
          /\ Consume("server", conn_send_unchecked(ack, o))
          /\ \/ state' = [state EXCEPT !["server"] = "OPEN"]
             \/ conn_set_closed("server", "protocol")
    BY <1>6, <2>1, <2>3 DEF conn_accept_hello
  <2>6. \E st \in {"OPEN", "CLOSED"} : state' = [state EXCEPT !["server"] = st]
    BY <2>5 DEF conn_set_closed
  <2>7. QED
    BY <1>4, <2>4, <2>5, <2>6
<1>7. QED
  BY <1>2, <1>3, <1>5, <1>6 DEF conn_handle_hello_server, Reason

\* Reading a chunk that completes nothing, or the end of the stream.
LEMMA RecvPays ==
  ASSUME TypeOK, TypeOK', ReplyInv, NEW e \in Endpoint,
         RecvHeader(e) \/ RecvTornPayload(e) \/ RecvEof(e)
  PROVE  ReplyInv'
<1>1. UNCHANGED <<tx, sends>>
  BY DEF RecvHeader, RecvTornPayload, RecvEof, SendsNothing
<1>2. faults' >= faults
  BY DEF RecvHeader, RecvTornPayload, RecvEof, SendsNothing, TypeOK
<1>3. \/ UNCHANGED chan
      \/ chan[e] # << >> /\ chan' = [chan EXCEPT ![e] = Tail(@)]
  BY DEF RecvHeader, RecvTornPayload, RecvEof
<1>4. /\ chan'[Peer(e)] = chan[Peer(e)]
      /\ chan'[e] = chan[e] \/ (chan[e] # << >> /\ chan'[e] = Tail(chan[e]))
  BY <1>3, PeerType DEF TypeOK
<1>5. Forward
  <2>1. CASE UNCHANGED state
    BY <2>1, ForwardStep
  <2>2. CASE \E reason : conn_set_closed(e, reason)
    BY <2>2, ClosedForward
  <2>3. QED
    BY <2>1, <2>2 DEF RecvHeader, RecvTornPayload, RecvEof
<1>6. QED
  BY <1>1, <1>2, <1>4, <1>5, QuietPays

\* A turn of poll's loop.
LEMMA PollPays ==
  ASSUME TypeOK, TypeOK', ReplyInv, NEW e \in Endpoint, pai_proto_conn_poll(e)
  PROVE  ReplyInv'
<1>1. CASE RecvHeader(e) \/ RecvTornPayload(e) \/ RecvEof(e)
  BY <1>1, RecvPays
<1>2. CASE e = "server" /\ conn_handle_hello_server
  BY <1>2, HelloPays
<1>3. CASE e = "client" /\ conn_handle_ack_client
  <2>1. FrameComplete(e)
    BY <1>3 DEF conn_handle_ack_client, PreOpen
  <2>2. CASE Reject(e)
    BY <2>1, <2>2, RefusedQuietly DEF Reject
  <2>3. CASE Consume(e, << >>) /\ SendsNothing /\ state' = [state EXCEPT ![e] = "OPEN"]
    <3>1. Forward
      BY <2>3, ForwardStep
    <3>2. UNCHANGED tx /\ faults' >= faults
      BY <2>3 DEF SendsNothing, TypeOK
    <3>3. QED
      BY <2>1, <2>3, <3>1, <3>2, TakenQuietly
  <2>4. QED
    BY <1>3, <2>2, <2>3 DEF conn_handle_ack_client
<1>4. CASE e = "client" /\ conn_handle_nack_client
  BY <1>4, RefusedQuietly DEF conn_handle_nack_client, PreOpen
<1>5. CASE conn_handle_preopen(e) \/ conn_handle_misplaced(e) \/ conn_reject_stream(e)
           \/ conn_handle_close(e)
  BY <1>5, RefusedQuietly DEF conn_handle_preopen, conn_handle_misplaced,
     conn_reject_stream, conn_handle_close, Reject, PreOpen, StreamFrame, OpenFrame
<1>6. CASE conn_handle_ping(e)
  BY <1>6, PingPays
<1>7. CASE conn_handle_stream(e)
  <2>1. /\ FrameComplete(e) /\ OnMessage(e, Arrived(e), Arrived(e).type # "STREAM_DATA")
        /\ Arrived(e).type \in {"TOKEN", "STREAM_DATA", "STREAM_CLOSE"}
    BY <1>7 DEF conn_handle_stream, StreamFrame, OpenFrame
  <2>2. Arrived(e).type \notin Automatic
    BY <2>1 DEF Automatic
  <2>3. QED
    BY <2>1, <2>2, OnMessagePays
<1>8. CASE conn_handle_message(e)
  <2>1. /\ FrameComplete(e) /\ OnMessage(e, Arrived(e), replies_to(Arrived(e)))
        /\ Arrived(e).type \in {"COMPLETE", "PONG", "ERROR", "REQUEST"}
    BY <1>8 DEF conn_handle_message, OpenFrame
  <2>2. replies_to(Arrived(e)) => Arrived(e).type \notin Automatic
    BY <2>1 DEF Automatic, replies_to
  <2>3. QED
    BY <2>1, <2>2, OnMessagePays
<1>9. QED
  BY <1>1, <1>2, <1>3, <1>4, <1>5, <1>6, <1>7, <1>8 DEF pai_proto_conn_poll

\* The client's HELLO: once it is out, the client is not NEW any more.
LEMMA StartPays ==
  ASSUME TypeOK, TypeOK', ReplyInv, pai_proto_conn_start
  PROVE  ReplyInv'
<1>1. /\ "client" \in Endpoint /\ Peer("client") = "server" /\ "HELLO" \in Type /\ 1 \in Ids
      /\ local_caps["client"] \in SUBSET Caps /\ state["client"] = "NEW"
  BY IdsAssumption DEF Endpoint, Peer, Type, TypeOK, pai_proto_conn_start
<1>2. PICK g \in Frame : g = NewFrame("client", "HELLO", 1)
  BY <1>1, NewFrameType
<1>3. PICK f \in Frame : f = [g EXCEPT !.caps = local_caps["client"]]
  BY <1>1, FrameExcept
<1>4. f.type \in Automatic
  BY <1>2, <1>3 DEF NewFrame, Automatic
<1>5. PICK o \in Outcome :
        /\ Sends("client", f, o)
        /\ chan' = [chan EXCEPT !["server"] = @ \o conn_send_unchecked(f, o)]
        /\ state' = IF o = "sent" THEN [state EXCEPT !["client"] = "NEGOTIATING"] ELSE state
  BY <1>2, <1>3 DEF pai_proto_conn_start
<1>6. Forward
  BY <1>5, ForwardStep
<1>7. o = "sent" => Unasked = 1 /\ Unasked' = 0
  <2>1. o = "sent" => state'["client"] = "NEGOTIATING"
    BY <1>1, <1>5 DEF TypeOK
  <2>2. QED
    BY <1>1, <2>1 DEF Unasked
<1>8. UNCHANGED sends
  BY DEF pai_proto_conn_start
<1>9. QED
  BY <1>1, <1>4, <1>5, <1>6, <1>7, <1>8, SendPays

\* A frame an application, or another implementation, puts on the wire.
LEMMA CallPays ==
  ASSUME TypeOK, TypeOK', ReplyInv, NEW e \in Endpoint, pai_proto_conn_send(e) \/ ForeignSend(e)
  PROVE  ReplyInv'
<1>1. UNCHANGED state /\ sends' = [sends EXCEPT ![e] = @ + 1]
  BY DEF pai_proto_conn_send, ForeignSend
<1>2. tx[e] + 1 \in Nat /\ Major[e] \in Nat /\ "sent" \in Outcome
  BY MajorAssumption DEF TypeOK, Outcome
<1>3. \E f \in Frame, o \in Outcome :
        /\ Sends(e, f, o)
        /\ chan' = [chan EXCEPT ![Peer(e)] = @ \o conn_send_unchecked(f, o)]
  <2>1. CASE pai_proto_conn_send(e)
    <3>1. PICK g \in AppFrames[e], o \in Outcome :
            LET f == [g EXCEPT !.ver = Major[e], !.n = tx[e] + 1] IN
            /\ Sends(e, f, o)
            /\ chan' = [chan EXCEPT ![Peer(e)] = @ \o conn_send_unchecked(f, o)]
      BY <2>1 DEF pai_proto_conn_send
    <3>2. g \in Frame
      BY FramesAssumption
    <3>3. [g EXCEPT !.ver = Major[e], !.n = tx[e] + 1] \in Frame
      BY <1>2, <3>2, FrameExcept
    <3>4. QED
      BY <3>1, <3>3
  <2>2. CASE ForeignSend(e)
    <3>1. PICK g \in WildFrames[e] :
            LET f == [g EXCEPT !.n = tx[e] + 1] IN
            /\ Sends(e, f, "sent")
            /\ chan' = [chan EXCEPT ![Peer(e)] = @ \o conn_send_unchecked(f, "sent")]
      BY <2>2 DEF ForeignSend
    <3>2. g \in Frame
      BY FramesAssumption
    <3>3. [g EXCEPT !.n = tx[e] + 1] \in Frame
      BY <1>2, <3>2 DEF Frame
    <3>4. QED
      BY <1>2, <3>1, <3>3
  <2>3. QED
    BY <2>1, <2>2
<1>4. Forward
  BY <1>1, ForwardStep
<1>5. QED
  BY <1>1, <1>3, <1>4, SendPays

\* An end destroyed, or chunks dropped.
LEMMA LossPays ==
  ASSUME TypeOK, TypeOK', ReplyInv, NEW e \in Endpoint, pai_proto_conn_destroy(e) \/ Reset(e)
  PROVE  ReplyInv'
<1>1. UNCHANGED <<tx, sends>>
  BY DEF pai_proto_conn_destroy, Reset, SendsNothing
<1>2. Forward
  BY ForwardStep DEF pai_proto_conn_destroy, Reset
<1>3. faults' >= faults
  BY DEF pai_proto_conn_destroy, Reset, SendsNothing, TypeOK
<1>4. /\ chan'[Peer(e)] = chan[Peer(e)]
      /\ \/ chan'[e] = chan[e]
         \/ \E k \in 0..Len(chan[e]) : chan'[e] = SubSeq(chan[e], 1, k)
  <2>1. CASE pai_proto_conn_destroy(e)
    BY <2>1 DEF pai_proto_conn_destroy
  <2>2. CASE Reset(e)
    <3>1. PICK n \in Nat : n = Len(chan[e])
      BY ChunkFrames DEF TypeOK
    <3>2. PICK k \in 0..(n - 1) : chan' = [chan EXCEPT ![e] = SubSeq(@, 1, k)]
      BY <2>2, <3>1 DEF Reset
    <3>3. k \in 0..Len(chan[e])
      BY <3>1
    <3>4. QED
      BY <3>2, <3>3, PeerType DEF TypeOK
  <2>3. QED
    BY <2>1, <2>2
<1>5. QED
  BY <1>1, <1>2, <1>3, <1>4, QuietPays

\* The steps keep the account.
LEMMA NextPays == TypeOK /\ ReplyInv /\ [ForeignNext]_vars => ReplyInv'
<1> SUFFICES ASSUME TypeOK, ReplyInv, [ForeignNext]_vars
             PROVE  ReplyInv'
  OBVIOUS
<1>1. TypeOK'
  BY ForeignNextType
<1>2. CASE UNCHANGED vars
  BY <1>2 DEF vars, ReplyInv, Owed, Owing, Answerable, Unasked, Unanswered
<1>3. CASE pai_proto_conn_start
  BY <1>1, <1>3, StartPays
<1>4. CASE \E e \in Endpoint : pai_proto_conn_poll(e)
  BY <1>1, <1>4, PollPays
<1>5. CASE \E e \in Endpoint : pai_proto_conn_send(e) \/ ForeignSend(e)
  BY <1>1, <1>5, CallPays
<1>6. CASE \E e \in Endpoint : pai_proto_conn_destroy(e) \/ Reset(e)
  BY <1>1, <1>6, LossPays
<1>7. QED
  BY <1>2, <1>3, <1>4, <1>5, <1>6 DEF ForeignNext, Next

\* Automatic replies never answer each other: the ERRORs, PONGs and answers to
\* HELLOs that conn_handle_open and conn_handle_preopen send by themselves are
\* at most one for each frame of an application, whatever the two ends, or
\* another implementation in their place, send.
THEOREM RepliesBounded == ForeignSpec => []NoReplyStorm
<1>1. Init => TypeOK /\ ReplyInv
  <2> SUFFICES ASSUME Init PROVE ReplyInv
    BY InitType
  <2>1. /\ chan["client"] = << >> /\ chan["server"] = << >> /\ tx["client"] = 0
        /\ tx["server"] = 0 /\ faults = 0 /\ sends["client"] = 0 /\ sends["server"] = 0
    BY DEF Init, Endpoint
  <2>2. /\ Owed(chan["client"]) = 0 /\ Owed(chan["server"]) = 0
        /\ Unasked \in 0..1 /\ Unanswered \in 0..1
    BY <2>1, OwedEmpty DEF Unasked, Unanswered
  <2>3. QED
    BY <2>1, <2>2 DEF ReplyInv
<1>2. TypeOK /\ ReplyInv /\ [ForeignNext]_vars => (TypeOK /\ ReplyInv)'
  BY ForeignNextType, NextPays
<1>3. TypeOK /\ ReplyInv => NoReplyStorm
  <2> SUFFICES ASSUME TypeOK, ReplyInv PROVE NoReplyStorm
    OBVIOUS
  <2>1. "client" \in Endpoint /\ "server" \in Endpoint
    BY DEF Endpoint
  <2>2. PICK a, b, c, d, u, v, s :
          /\ tx["client"] = a /\ tx["server"] = b /\ Owed(chan["client"]) = c
          /\ Owed(chan["server"]) = d /\ Unasked = u /\ Unanswered = v
          /\ 2 + faults + 2 * (sends["client"] + sends["server"]) = s
    OBVIOUS
  <2>3. /\ a \in Nat /\ b \in Nat /\ c \in Nat /\ d \in Nat /\ u \in Nat /\ v \in Nat
        /\ s \in Nat
    <3>1. /\ a \in Nat /\ b \in Nat /\ c \in Nat /\ d \in Nat /\ u \in Nat /\ v \in Nat
          /\ faults \in Nat /\ sends["client"] \in Nat /\ sends["server"] \in Nat
      BY <2>1, <2>2, Amounts
    <3>2. 2 + faults + 2 * (sends["client"] + sends["server"]) \in Nat
      BY <3>1
    <3>3. QED
      BY <2>2, <3>1, <3>2
  <2>4. a + b + c + d + u + v <= s
    BY <2>2 DEF ReplyInv
  <2>5. a + b <= s
    BY <2>3, <2>4
  <2>6. QED
    BY <2>2, <2>5 DEF NoReplyStorm
<1>4. QED
  BY <1>1, <1>2, <1>3, PTL DEF ForeignSpec, ForeignNext

=============================================================================
