----------------------------- MODULE ProtoConn -----------------------------
(***************************************************************************)
(* The PAI protocol connection (protocol/connection.c): two endpoints, a   *)
(* client and a server, each driven by pai_proto_conn_poll, joined by a    *)
(* byte stream in each direction.                                          *)
(*                                                                         *)
(* A frame goes on the wire as a header and, when it has one, a payload:   *)
(* two transport sends, either of which may fail.  The stream is a         *)
(* sequence of such chunks; bytes inside a chunk are not told apart, since *)
(* a partly read header (or payload) only makes poll wait for the rest.    *)
(* Each action below is one turn of poll's loop or one call made by the    *)
(* application between two polls.                                          *)
(***************************************************************************)
EXTENDS Naturals, Sequences

CONSTANTS
  Known,       \* PAI_PROTO_CAP_KNOWN
  Foreign,     \* capability bits this build does not know
  Offer,       \* caps the client passes to conn_init
  OnHello,     \* masks the server's on_hello may return
  Major,       \* PAI_PROTO_VERSION_MAJOR of each endpoint's build
  Ids,         \* request ids in use; 0 is connection-level
  AppFrames,   \* frames each application may hand to conn_send
  WildFrames,  \* frames another implementation of an endpoint may send
  MaxStreams,  \* PAI_PROTO_MAX_STREAMS
  MaxSends,    \* bound: application sends per endpoint
  MaxFaults,   \* bound: failed sends, resets and failed mallocs
  MayDestroy   \* endpoints whose owner may destroy the connection

Endpoint == {"client", "server"}
Peer(e) == IF e = "client" THEN "server" ELSE "client"
State == {"NEW", "NEGOTIATING", "OPEN", "CLOSED"}
Caps == Known \cup Foreign
Slot == 1..MaxStreams

Type == {"HELLO", "HELLO_ACK", "HELLO_NACK", "PING", "PONG", "CLOSE", "TOKEN",
         "STREAM_DATA", "STREAM_CLOSE", "COMPLETE", "ERROR", "REQUEST"}
Reason == {"none", "version", "caps", "normal", "protocol", "gone", "app"}

\* start, end: the STREAM_START and STREAM_END flags; good: the payload
\* decodes as its type says; n: the sender's how-manieth frame (history).
Frame == [type: Type, id: Ids, start: BOOLEAN, end: BOOLEAN, good: BOOLEAN,
          caps: SUBSET Caps, reason: Reason, ver: Nat, n: Nat]
Chunk == [part: {"header", "payload"}, frame: Frame]

ASSUME CapsAssumption ==
  /\ Offer \subseteq Caps
  /\ OnHello \subseteq SUBSET Caps
ASSUME IdsAssumption == Ids \subseteq Nat /\ {0, 1} \subseteq Ids
ASSUME MajorAssumption == Major \in [Endpoint -> Nat]
ASSUME BoundsAssumption ==
  MaxStreams \in Nat \ {0} /\ MaxSends \in Nat /\ MaxFaults \in Nat
ASSUME FramesAssumption ==
  /\ AppFrames \in [Endpoint -> SUBSET Frame]
  /\ WildFrames \in [Endpoint -> SUBSET Frame]
  /\ MayDestroy \subseteq Endpoint

VARIABLES
  state,            \* conn->state
  local_caps,       \* conn->local_caps
  remote_caps,      \* conn->remote_caps
  negotiated_caps,  \* conn->negotiated_caps
  nack_reason,      \* conn->nack_reason
  pending,          \* <<f>>: f's header is in, its payload is not; or << >>
  streams,          \* conn->streams, 0 in a free slot
  stream_seqs,      \* conn->stream_seqs
  chan,             \* chan[e]: chunks on their way to e
  sends,            \* application sends so far
  faults,           \* faults so far
  tx, rx,           \* history: frames put on the wire, frames dispatched
  opened,           \* history: caps agreed on, as <<caps>>, once OPEN
  closes,           \* history: reasons passed to on_close
  view,             \* history: streams the application holds open
  tokens            \* history: TOKENs delivered on each of those streams

vars == <<state, local_caps, remote_caps, negotiated_caps, nack_reason,
          pending, streams, stream_seqs, chan, sends, faults, tx, rx, opened,
          closes, view, tokens>>

capVars == <<local_caps, remote_caps, negotiated_caps, nack_reason, opened>>
streamVars == <<streams, stream_seqs, view, tokens>>

-----------------------------------------------------------------------------
(***************************************************************************)
(* Sending.                                                                *)
(***************************************************************************)

\* PING and PONG travel without a payload; the model's other frames have one.
Bodied(f) == f.type \notin {"PING", "PONG"}

Header(f) == [part |-> "header", frame |-> f]
Payload(f) == [part |-> "payload", frame |-> f]

\* How a send may end: both parts accepted; nothing accepted; the header
\* accepted and the payload refused, which tears the frame.
Outcome == {"sent", "lost", "torn"}

\* What conn_send_unchecked leaves on the wire.
conn_send_unchecked(f, r) ==
  CASE r = "lost" -> << >>
    [] r = "torn" -> <<Header(f)>>
    [] OTHER -> IF Bodied(f) THEN <<Header(f), Payload(f)>> ELSE <<Header(f)>>

\* A frame of e's own making, numbered after the ones already on the wire.
NewFrame(e, type, id) ==
  [type |-> type, id |-> id, start |-> FALSE, end |-> FALSE, good |-> TRUE,
   caps |-> {}, reason |-> "none", ver |-> Major[e], n |-> tx[e] + 1]

\* The send's outcome is r: faults are charged, frames on the wire counted.
Sends(e, f, r) ==
  /\ r = "torn" => Bodied(f)
  /\ r # "sent" => faults < MaxFaults
  /\ faults' = IF r = "sent" THEN faults ELSE faults + 1
  /\ tx' = IF r = "lost" THEN tx ELSE [tx EXCEPT ![e] = @ + 1]

\* Nothing is sent in this step.
SendsNothing == UNCHANGED <<faults, tx>>

-----------------------------------------------------------------------------
(***************************************************************************)
(* Closing.                                                                *)
(***************************************************************************)

\* conn_set_closed: on_close is told once, the half-read frame is dropped.
\* Closing the transport is what the peer sees as end of stream.
conn_set_closed(e, reason) ==
  /\ state' = [state EXCEPT ![e] = "CLOSED"]
  /\ closes' = [closes EXCEPT ![e] = Append(@, reason)]
  /\ pending' = [pending EXCEPT ![e] = << >>]

\* The owner tears its endpoint down; on_close is not called.
pai_proto_conn_destroy(e) ==
  /\ e \in MayDestroy
  /\ state[e] # "CLOSED"
  /\ state' = [state EXCEPT ![e] = "CLOSED"]
  /\ pending' = [pending EXCEPT ![e] = << >>]
  /\ SendsNothing
  /\ UNCHANGED <<chan, sends, rx, closes, capVars, streamVars>>

-----------------------------------------------------------------------------
(***************************************************************************)
(* Application calls.                                                      *)
(***************************************************************************)

\* Client: HELLO with the local caps.  A failed send leaves the state NEW.
\* (Its request id is the allocator's next; nothing looks at it.)
pai_proto_conn_start ==
  /\ state["client"] = "NEW"
  /\ \E r \in Outcome :
       LET hello == [NewFrame("client", "HELLO", 1)
                       EXCEPT !.caps = local_caps["client"]] IN
       /\ Sends("client", hello, r)
       /\ chan' = [chan EXCEPT !["server"] = @ \o conn_send_unchecked(hello, r)]
       /\ state' = IF r = "sent"
                     THEN [state EXCEPT !["client"] = "NEGOTIATING"]
                     ELSE state
  /\ UNCHANGED <<pending, sends, rx, closes, capVars, streamVars>>

\* pai_proto_conn_send and send_raw: any message type, once OPEN.  A failed
\* send is reported to the caller and leaves the connection as it was.
pai_proto_conn_send(e) ==
  /\ state[e] = "OPEN"
  /\ sends[e] < MaxSends
  /\ sends' = [sends EXCEPT ![e] = @ + 1]
  /\ \E g \in AppFrames[e], r \in Outcome :
       LET f == [g EXCEPT !.ver = Major[e], !.n = tx[e] + 1] IN
       /\ Sends(e, f, r)
       /\ chan' = [chan EXCEPT ![Peer(e)] = @ \o conn_send_unchecked(f, r)]
  /\ UNCHANGED <<state, pending, rx, closes, capVars, streamVars>>

-----------------------------------------------------------------------------
(***************************************************************************)
(* The receive pump: reading chunks.                                       *)
(***************************************************************************)

FrameComplete_no_crc(e) ==                               \* mutant
  /\ state[e] # "CLOSED"
  /\ chan[e] # << >>
  /\ \/ pending[e] = << >> /\ ~Bodied(Head(chan[e]).frame)
     \/ pending[e] # << >>

\* e has all of the frame at the head of its stream and the CRC matches: a
\* header without payload, or the payload of the pending header.
FrameComplete(e) ==
  /\ state[e] # "CLOSED"
  /\ chan[e] # << >>
  /\ LET c == Head(chan[e]) IN
       \/ pending[e] = << >> /\ c.part = "header" /\ ~Bodied(c.frame)
       \/ pending[e] = <<c.frame>> /\ c.part = "payload"

\* Meaningful only when FrameComplete(e).
Arrived(e) == Head(chan[e]).frame

\* Take the arrived frame off the stream; wire is what its handler sends.
Consume(e, wire) ==
  /\ chan' = [chan EXCEPT ![e] = Tail(@), ![Peer(e)] = @ \o wire]
  /\ rx' = [rx EXCEPT ![e] = Arrived(e).n]
  /\ UNCHANGED sends

\* Phase 1: a header whose payload is still to come.
RecvHeader(e) ==
  /\ state[e] # "CLOSED"
  /\ pending[e] = << >>
  /\ chan[e] # << >>
  /\ Bodied(Arrived(e))
  /\ chan' = [chan EXCEPT ![e] = Tail(@)]
  /\ \/ /\ pending' = [pending EXCEPT ![e] = <<Arrived(e)>>]
        /\ SendsNothing
        /\ UNCHANGED <<state, closes>>
     \/ /\ faults < MaxFaults            \* the payload's malloc failed
        /\ faults' = faults + 1
        /\ conn_set_closed(e, "app")
        /\ UNCHANGED tx
  /\ UNCHANGED <<sends, rx, capVars, streamVars>>

\* The payload may be longer than the frames that follow a torn header; the
\* u32-pair payloads of negotiation and CLOSE are shorter than any header.
MayWantMore(f) == f.type \notin {"HELLO", "HELLO_ACK", "HELLO_NACK", "CLOSE"}

\* Phase 2 after a torn frame: the next frame's bytes are read as payload.
\* Either more are wanted, or the CRC does not match.
RecvTornPayload(e) ==
  /\ state[e] # "CLOSED"
  /\ pending[e] # << >>
  /\ chan[e] # << >>
  /\ Head(chan[e]) # Payload(pending[e][1])
  /\ chan' = [chan EXCEPT ![e] = Tail(@)]
  /\ \/ MayWantMore(pending[e][1]) /\ UNCHANGED <<state, closes, pending>>
     \/ conn_set_closed(e, "protocol")
  /\ SendsNothing
  /\ UNCHANGED <<sends, rx, capVars, streamVars>>

RecvEof_between_frames(e) ==                             \* mutant
  /\ state[e] # "CLOSED"
  /\ chan[e] = << >>
  /\ pending[e] = << >>
  /\ state[Peer(e)] = "CLOSED"
  /\ conn_set_closed(e, "gone")
  /\ SendsNothing
  /\ UNCHANGED <<chan, sends, rx, capVars, streamVars>>

RecvEof_after_close(e) ==                                \* mutant
  /\ chan[e] = << >>
  /\ state[Peer(e)] = "CLOSED"
  /\ Len(closes[e]) < 3
  /\ conn_set_closed(e, IF pending[e] = << >> THEN "gone" ELSE "protocol")
  /\ SendsNothing
  /\ UNCHANGED <<chan, sends, rx, capVars, streamVars>>

\* End of stream: between frames the peer is gone, inside one it is a
\* protocol error.
RecvEof(e) ==
  /\ state[e] # "CLOSED"
  /\ chan[e] = << >>
  /\ state[Peer(e)] = "CLOSED"
  /\ conn_set_closed(e, IF pending[e] = << >> THEN "gone" ELSE "protocol")
  /\ SendsNothing
  /\ UNCHANGED <<chan, sends, rx, capVars, streamVars>>

\* The handler answered with an error: poll closes the connection.
Reject(e) ==
  /\ Consume(e, << >>)
  /\ SendsNothing
  /\ conn_set_closed(e, "protocol")

\* The network drops the connection's last chunks once the peer is gone.
Reset(e) ==
  /\ state[Peer(e)] = "CLOSED"
  /\ state[e] # "CLOSED"
  /\ chan[e] # << >>
  /\ faults < MaxFaults
  /\ faults' = faults + 1
  /\ \E k \in 0..(Len(chan[e]) - 1) :
       chan' = [chan EXCEPT ![e] = SubSeq(@, 1, k)]
  /\ UNCHANGED <<state, pending, sends, tx, rx, closes, capVars, streamVars>>

-----------------------------------------------------------------------------
(***************************************************************************)
(* Negotiation.                                                            *)
(***************************************************************************)

\* The REPLY frame conn_send_negotiation builds echoes the request id.
conn_send_negotiation_next(f, type) == NewFrame("server", type, f.id + 1)  \* mutant
conn_send_negotiation(f, type) == NewFrame("server", type, f.id)

PreOpen(e) == FrameComplete(e) /\ state[e] # "OPEN"

\* A HELLO the server refuses: NACK (best effort), then close.
conn_refuse_hello(f, why, reason) ==
  \E r \in Outcome :
    LET nack == [conn_send_negotiation(f, "HELLO_NACK") EXCEPT !.reason = why] IN
    /\ Sends("server", nack, r)
    /\ Consume("server", conn_send_unchecked(nack, r))
    /\ conn_set_closed("server", reason)
    /\ UNCHANGED <<capVars, streamVars>>

\* The capabilities both sides have and this build knows.
conn_agree_any(mask, offer) == mask \cap offer          \* mutant
conn_agree_own(mask, offer) == mask \cap Known          \* mutant
conn_agree(mask, offer) == mask \cap offer \cap Known

\* Caps that decode, the same major version and a non-empty mask from
\* on_hello open the connection.  A failed ACK closes it again.
conn_accept_hello(f, mask) ==
  \E r \in Outcome :
    LET agreed == conn_agree(mask, f.caps)
        ack == [conn_send_negotiation(f, "HELLO_ACK") EXCEPT !.caps = agreed] IN
    /\ Sends("server", ack, r)
    /\ Consume("server", conn_send_unchecked(ack, r))
    /\ local_caps' = [local_caps EXCEPT !["server"] = mask \cap Known]
    /\ remote_caps' = [remote_caps EXCEPT !["server"] = f.caps \cap Known]
    /\ negotiated_caps' = [negotiated_caps EXCEPT !["server"] = agreed]
    /\ opened' = [opened EXCEPT !["server"] = <<agreed>>]
    /\ IF r = "sent"
         THEN /\ state' = [state EXCEPT !["server"] = "OPEN"]
              /\ pending' = [pending EXCEPT !["server"] = << >>]
              /\ UNCHANGED closes
         ELSE conn_set_closed("server", "protocol")
    /\ UNCHANGED <<nack_reason, streamVars>>

conn_handle_hello_server ==
  /\ PreOpen("server")
  /\ LET f == Arrived("server") IN
       /\ f.type = "HELLO"
       /\ \/ /\ ~f.good
             /\ Reject("server")
             /\ UNCHANGED <<capVars, streamVars>>
          \/ /\ f.good /\ f.ver # Major["server"]
             /\ conn_refuse_hello(f, "version", "protocol")
          \/ /\ f.good /\ f.ver = Major["server"]
             /\ \E mask \in OnHello :
                  IF mask = {} THEN conn_refuse_hello(f, "caps", "normal")
                               ELSE conn_accept_hello(f, mask)

\* The client opens with the caps the server put in the ACK.
conn_handle_ack_client ==
  /\ PreOpen("client")
  /\ LET f == Arrived("client") IN
       /\ f.type = "HELLO_ACK"
       /\ IF f.ver = Major["client"] /\ f.good
            THEN /\ Consume("client", << >>)
                 /\ SendsNothing
                 /\ remote_caps' = [remote_caps EXCEPT !["client"] = f.caps]
                 /\ negotiated_caps' =
                      [negotiated_caps EXCEPT !["client"] = f.caps \cap Known]
                 /\ opened' = [opened EXCEPT !["client"] = <<f.caps \cap Known>>]
                 /\ state' = [state EXCEPT !["client"] = "OPEN"]
                 /\ pending' = [pending EXCEPT !["client"] = << >>]
                 /\ UNCHANGED <<closes, local_caps, nack_reason>>
            ELSE Reject("client") /\ UNCHANGED capVars
  /\ UNCHANGED streamVars

\* A NACK is believed whatever version sent it.
conn_handle_nack_client ==
  /\ PreOpen("client")
  /\ Arrived("client").type = "HELLO_NACK"
  /\ Consume("client", << >>)
  /\ SendsNothing
  /\ nack_reason' = [nack_reason EXCEPT !["client"] = Arrived("client").reason]
  /\ conn_set_closed("client", "normal")
  /\ UNCHANGED <<local_caps, remote_caps, negotiated_caps, opened, streamVars>>

\* conn_handle_preopen: anything else before OPEN is a protocol error.
conn_handle_preopen(e) ==
  /\ PreOpen(e)
  /\ Arrived(e).type \notin
       IF e = "server" THEN {"HELLO"} ELSE {"HELLO_ACK", "HELLO_NACK"}
  /\ Reject(e)
  /\ UNCHANGED <<capVars, streamVars>>

-----------------------------------------------------------------------------
(***************************************************************************)
(* Open-state dispatch.                                                    *)
(***************************************************************************)

\* A frame of the right version arrived while OPEN.
OpenFrame(e) ==
  /\ FrameComplete(e)
  /\ state[e] = "OPEN"
  /\ Arrived(e).ver = Major[e]

\* Handled: take the frame, stay OPEN, put wire on the stream to the peer.
Handled(e, wire) ==
  /\ Consume(e, wire)
  /\ pending' = [pending EXCEPT ![e] = << >>]
  /\ UNCHANGED <<state, closes>>

\* A foreign version, or negotiation after OPEN: protocol error.
conn_handle_misplaced(e) ==
  /\ FrameComplete(e)
  /\ state[e] = "OPEN"
  /\ \/ Arrived(e).ver # Major[e]
     \/ Arrived(e).type \in {"HELLO", "HELLO_ACK", "HELLO_NACK"}
  /\ Reject(e)
  /\ UNCHANGED <<capVars, streamVars>>

\* PING is answered by the core; if the PONG cannot be sent the connection
\* closes.
conn_handle_ping(e) ==
  /\ OpenFrame(e)
  /\ Arrived(e).type = "PING"
  /\ \E r \in Outcome :
       LET pong == NewFrame(e, "PONG", Arrived(e).id) IN
       /\ Sends(e, pong, r)
       /\ IF r = "sent"
            THEN Handled(e, conn_send_unchecked(pong, r))
            ELSE /\ Consume(e, << >>)
                 /\ conn_set_closed(e, "protocol")
  /\ UNCHANGED <<capVars, streamVars>>

\* The peer says it is closing; its reason is passed on.
conn_handle_close(e) ==
  /\ OpenFrame(e)
  /\ Arrived(e).type = "CLOSE"
  /\ Consume(e, << >>)
  /\ SendsNothing
  /\ conn_set_closed(e, Arrived(e).reason)
  /\ UNCHANGED <<capVars, streamVars>>

\* A refusal by on_message is answered unless that could start a loop or the
\* frame is connection-level.
replies_to_all(f) == f.id # 0                            \* mutant
replies_to(f) == f.id # 0 /\ f.type \notin {"ERROR", "PONG"}

\* What on_message does: accept the frame, or refuse it and have the core
\* send a best-effort ERROR reply when `replies` allows one.
OnMessage(e, f, replies) ==
  \/ SendsNothing /\ Handled(e, << >>)
  \/ /\ replies
     /\ \E r \in Outcome :
          LET reply == NewFrame(e, "ERROR", f.id) IN
          /\ Sends(e, reply, r)
          /\ Handled(e, conn_send_unchecked(reply, r))

-----------------------------------------------------------------------------
(***************************************************************************)
(* Streams.                                                                *)
(***************************************************************************)

\* The lowest slot holding id; 0 when there is none.  A free slot holds 0.
stream_index(table, id) ==
  IF \E i \in Slot : table[i] = id
    THEN CHOOSE i \in Slot :
           table[i] = id /\ \A j \in Slot : table[j] = id => i <= j
    ELSE 0

stream_begin_ok_twice(e, f) ==                           \* mutant
  /\ f.id # 0
  /\ stream_index(streams[e], 0) # 0

\* STREAM_START can be honoured: a real id, not open yet, and a free slot.
stream_begin_ok(e, f) ==
  /\ f.id # 0
  /\ stream_index(streams[e], f.id) = 0
  /\ stream_index(streams[e], 0) # 0

stream_begin_stale(e, f) ==                              \* mutant
  IF f.start
    THEN LET i == stream_index(streams[e], 0) IN
         [table |-> [streams[e] EXCEPT ![i] = f.id], seqs |-> stream_seqs[e]]
    ELSE [table |-> streams[e], seqs |-> stream_seqs[e]]

\* The table and the ordinals once f's START flag has been dealt with.
stream_begin(e, f) ==
  IF f.start
    THEN LET i == stream_index(streams[e], 0) IN
         [table |-> [streams[e] EXCEPT ![i] = f.id],
          seqs  |-> [stream_seqs[e] EXCEPT ![i] = 0]]
    ELSE [table |-> streams[e], seqs |-> stream_seqs[e]]

\* Free id's slot, if it has one.
stream_end(s, id) ==
  LET i == stream_index(s.table, id) IN
  IF i = 0 THEN s ELSE [table |-> [s.table EXCEPT ![i] = 0],
                        seqs  |-> [s.seqs EXCEPT ![i] = 0]]

StreamFrame(e) ==
  /\ OpenFrame(e)
  /\ Arrived(e).type \in {"TOKEN", "STREAM_DATA", "STREAM_CLOSE"}

\* STREAM_CLOSE carries nothing to decode.
Decodes(f) == f.good \/ f.type = "STREAM_CLOSE"

\* conn_handle_stream's early returns.
StreamRefused(e, f) ==
  \/ f.start /\ ~stream_begin_ok(e, f)
  \/ ~f.start /\ stream_index(streams[e], f.id) = 0
  \/ ~Decodes(f)

\* A refused frame closes the connection.  An undecodable payload is found
\* out only after its START flag has opened the stream.
conn_reject_stream(e) ==
  /\ StreamFrame(e)
  /\ LET f == Arrived(e) IN
       /\ StreamRefused(e, f)
       /\ IF f.start /\ stream_begin_ok(e, f)
            THEN /\ streams' = [streams EXCEPT ![e] = stream_begin(e, f).table]
                 /\ stream_seqs' =
                      [stream_seqs EXCEPT ![e] = stream_begin(e, f).seqs]
                 /\ view' = [view EXCEPT ![e] = @ \cup {f.id}]
                 /\ tokens' = [tokens EXCEPT ![e][f.id] = 0]
            ELSE UNCHANGED streamVars
  /\ Reject(e)
  /\ UNCHANGED capVars

\* A stream frame taken: begin, data and end callbacks in that order.
conn_handle_stream(e) ==
  /\ StreamFrame(e)
  /\ LET f == Arrived(e)
         terminal == f.end \/ f.type = "STREAM_CLOSE"
         s == stream_begin(e, f)
         i == stream_index(s.table, f.id)
         s2 == IF terminal THEN stream_end(s, f.id)
               ELSE IF f.type = "TOKEN"
                 THEN [s EXCEPT !.seqs[i] = @ + 1] ELSE s
         count == (IF f.start THEN 0 ELSE tokens[e][f.id])
                    + (IF f.type = "TOKEN" THEN 1 ELSE 0)
     IN
       /\ ~StreamRefused(e, f)
       /\ streams' = [streams EXCEPT ![e] = s2.table]
       /\ stream_seqs' = [stream_seqs EXCEPT ![e] = s2.seqs]
       /\ view' = [view EXCEPT ![e] =
                     IF terminal THEN @ \ {f.id}
                     ELSE IF f.start THEN @ \cup {f.id} ELSE @]
       /\ tokens' = [tokens EXCEPT ![e][f.id] = IF terminal THEN 0 ELSE count]
       /\ OnMessage(e, f, f.type # "STREAM_DATA")
  /\ UNCHANGED capVars

\* Every other message goes to on_message.  COMPLETE frees its stream first;
\* the application learns of that end from the COMPLETE itself.
conn_handle_message(e) ==
  /\ OpenFrame(e)
  /\ LET f == Arrived(e)
         s == [table |-> streams[e], seqs |-> stream_seqs[e]]
         s2 == IF f.type = "COMPLETE" THEN stream_end(s, f.id) ELSE s
     IN
       /\ f.type \in {"COMPLETE", "PONG", "ERROR", "REQUEST"}
       /\ streams' = [streams EXCEPT ![e] = s2.table]
       /\ stream_seqs' = [stream_seqs EXCEPT ![e] = s2.seqs]
       /\ view' = [view EXCEPT ![e] =
                     IF f.type = "COMPLETE" THEN @ \ {f.id} ELSE @]
       /\ tokens' = IF f.type = "COMPLETE"
                      THEN [tokens EXCEPT ![e][f.id] = 0] ELSE tokens
       /\ OnMessage(e, f, replies_to(f))
  /\ UNCHANGED capVars

-----------------------------------------------------------------------------
(***************************************************************************)
(* Another implementation (the desktop client's proto/client.ts, an older  *)
(* payload) in the place of e's application and sending half: it may put   *)
(* any of WildFrames on the wire, whatever the state, with its own version.*)
(***************************************************************************)

ForeignSend(e) ==
  /\ state[e] # "CLOSED"
  /\ sends[e] < MaxSends
  /\ sends' = [sends EXCEPT ![e] = @ + 1]
  /\ \E g \in WildFrames[e] :
       LET f == [g EXCEPT !.n = tx[e] + 1] IN
       /\ Sends(e, f, "sent")
       /\ chan' = [chan EXCEPT ![Peer(e)] = @ \o conn_send_unchecked(f, "sent")]
  /\ UNCHANGED <<state, pending, rx, closes, capVars, streamVars>>

-----------------------------------------------------------------------------

Init ==
  /\ state = [e \in Endpoint |-> "NEW"]
  /\ local_caps = [e \in Endpoint |-> IF e = "client" THEN Offer \cap Known ELSE {}]
  /\ remote_caps = [e \in Endpoint |-> {}]
  /\ negotiated_caps = [e \in Endpoint |-> {}]
  /\ nack_reason = [e \in Endpoint |-> "none"]
  /\ pending = [e \in Endpoint |-> << >>]
  /\ streams = [e \in Endpoint |-> [i \in Slot |-> 0]]
  /\ stream_seqs = [e \in Endpoint |-> [i \in Slot |-> 0]]
  /\ chan = [e \in Endpoint |-> << >>]
  /\ sends = [e \in Endpoint |-> 0]
  /\ faults = 0
  /\ tx = [e \in Endpoint |-> 0]
  /\ rx = [e \in Endpoint |-> 0]
  /\ opened = [e \in Endpoint |-> << >>]
  /\ closes = [e \in Endpoint |-> << >>]
  /\ view = [e \in Endpoint |-> {}]
  /\ tokens = [e \in Endpoint |-> [id \in Ids |-> 0]]

\* One turn of pai_proto_conn_poll's loop at e.
pai_proto_conn_poll(e) ==
  \/ RecvHeader(e)
  \/ RecvTornPayload(e)
  \/ RecvEof(e)
  \/ e = "server" /\ conn_handle_hello_server
  \/ e = "client" /\ conn_handle_ack_client
  \/ e = "client" /\ conn_handle_nack_client
  \/ conn_handle_preopen(e)
  \/ conn_handle_misplaced(e)
  \/ conn_handle_ping(e)
  \/ conn_handle_close(e)
  \/ conn_reject_stream(e)
  \/ conn_handle_stream(e)
  \/ conn_handle_message(e)

Next ==
  \/ pai_proto_conn_start
  \/ \E e \in Endpoint :
       \/ pai_proto_conn_send(e)
       \/ pai_proto_conn_destroy(e)
       \/ pai_proto_conn_poll(e)
       \/ Reset(e)

Spec == Init /\ [][Next]_vars

\* The same with foreign frames on the wire as well.
ForeignSpec == Init /\ [][Next \/ \E e \in Endpoint : ForeignSend(e)]_vars

\* An end is polled while it negotiates: remote.c and ping.c call poll in a
\* loop until the client has opened or closed, or else destroy it, and a server
\* that took the connection polls for the HELLO.  Afterwards nothing is assumed:
\* remote.c polls only within an exchange, and never a connection that rests in
\* the pool.
Negotiating(e) == state[e] \in {"NEW", "NEGOTIATING"} /\ pai_proto_conn_poll(e)
FairSpec == Spec /\ \A e \in Endpoint : WF_vars(Negotiating(e))

-----------------------------------------------------------------------------
(***************************************************************************)
(* Properties.                                                             *)
(***************************************************************************)

\* Every field of both connections, the history and the channels keep their
\* types.
TypeOK ==
  /\ state \in [Endpoint -> State]
  /\ local_caps \in [Endpoint -> SUBSET Caps]
  /\ remote_caps \in [Endpoint -> SUBSET Caps]
  /\ negotiated_caps \in [Endpoint -> SUBSET Caps]
  /\ nack_reason \in [Endpoint -> Reason]
  /\ pending \in [Endpoint -> Seq(Frame)]
  /\ streams \in [Endpoint -> [Slot -> Ids]]
  /\ stream_seqs \in [Endpoint -> [Slot -> Nat]]
  /\ chan \in [Endpoint -> Seq(Chunk)]
  /\ sends \in [Endpoint -> Nat]
  /\ faults \in Nat
  /\ tx \in [Endpoint -> Nat]
  /\ rx \in [Endpoint -> Nat]
  /\ opened \in [Endpoint -> Seq(SUBSET Caps)]
  /\ closes \in [Endpoint -> Seq(Reason)]
  /\ view \in [Endpoint -> SUBSET Ids]
  /\ tokens \in [Endpoint -> [Ids -> Nat]]

\* When both ends have opened they agreed on the same capabilities, which
\* both of them know and the client offered.
CapsAgree ==
  /\ opened["client"] # << >> => opened["client"] = opened["server"]
  /\ \A e \in Endpoint :
       opened[e] # << >> => opened[e][1] \subseteq Offer \cap Known

\* Whatever the peer offers or answers, an end opens only with capabilities
\* it knows.
CapsKnown == \A e \in Endpoint : opened[e] # << >> => opened[e][1] \subseteq Known

\* The stream table is what the application believes: on a live connection
\* its non-free slots are, one each, the streams begun and not yet ended.
StreamsInStep ==
  \A e \in Endpoint :
    /\ \A i, j \in Slot :
         i # j /\ streams[e][i] # 0 => streams[e][i] # streams[e][j]
    /\ view[e] = {streams[e][i] : i \in Slot} \ {0}

\* The ordinal the next TOKEN of a stream will be delivered with is the
\* number of TOKENs already delivered on it, whatever its slot held before.
OrdinalsExact ==
  \A e \in Endpoint, i \in Slot :
    streams[e][i] # 0 => stream_seqs[e][i] = tokens[e][streams[e][i]]

\* Frames are dispatched whole, in order and without a gap: each one is the
\* successor, among those its peer put on the wire, of the one before it.
InOrder ==
  [][\A e \in Endpoint : rx'[e] # rx[e] => rx'[e] = rx[e] + 1]_rx

\* CLOSED is terminal: nothing more is dispatched and no callback is made.
ClosedIsFinal ==
  [][\A e \in Endpoint : state[e] = "CLOSED" =>
       /\ state'[e] = "CLOSED"
       /\ UNCHANGED <<rx[e], closes[e], view[e], negotiated_caps[e]>>]_vars

\* Whatever fails during negotiation, the client does not wait for ever.
NegotiationEnds ==
  state["client"] = "NEGOTIATING" ~> state["client"] \in {"OPEN", "CLOSED"}

\* When one end has closed the other closes too, if its owner goes on polling
\* it: there is no frame, no torn frame and no state in which poll overlooks
\* that the peer is gone.  An end that nobody polls, such as one that rests in
\* the pool of remote.c, learns nothing.
CloseSpreads ==
  \A e \in Endpoint :
    WF_vars(pai_proto_conn_poll(Peer(e))) =>
      (state[e] = "CLOSED" ~> state[Peer(e)] = "CLOSED")

\* Automatic replies never answer each other: beyond HELLOs and the one
\* answer to them, each application frame causes at most one more.
NoReplyStorm ==
  tx["client"] + tx["server"]
    <= 2 + faults + 2 * (sends["client"] + sends["server"])

\* The abstract handshake's names for the states of a connection.
Phase(st) ==
  CASE st = "OPEN" -> "open"
    [] st = "CLOSED" -> "closed"
    [] st = "NEGOTIATING" -> "asking"
    [] OTHER -> "idle"

\* The negotiation implements the abstract handshake.
HS == INSTANCE Handshake WITH
        Grantable <- Offer \cap Known,
        phase <- [e \in Endpoint |-> Phase(state[e])],
        asked <- tx["client"] > 0,
        agreed <- opened

\* Whatever is lost, torn, reset or destroyed on the way, negotiation steps
\* are steps of the handshake: a grant answers an asking client, a client
\* opens with exactly what was granted, and a closed end stays closed.
HandshakeSpec == HS!AbsSpec

-----------------------------------------------------------------------------
(***************************************************************************)
(* Why the capabilities agree: the inductive invariant of the negotiation. *)
(***************************************************************************)

Opening(e) == state[e] \in {"NEW", "NEGOTIATING"}
IsHello(f) == f.type = "HELLO" /\ f.caps = Offer \cap Known
IsGrant(f) == f.type = "HELLO_ACK" /\ <<f.caps>> = opened["server"]

\* An end has agreed on capabilities once it is OPEN and not before.
AgreedOnceOpen ==
  /\ local_caps["client"] = Offer \cap Known
  /\ state["server"] # "NEGOTIATING"
  /\ \A e \in Endpoint : state[e] = "OPEN" => opened[e] # << >>
  /\ \A e \in Endpoint : Opening(e) => opened[e] = << >>
  /\ opened["client"] = << >> \/ opened["client"] = opened["server"]
  /\ opened["server"] = << >>
       \/ \E caps \in SUBSET (Offer \cap Known) : opened["server"] = <<caps>>

\* Until the server has answered, only HELLOs are on their way to it, and a
\* whole HELLO means that the client is waiting for the answer.
AskedBeforeGrant ==
  /\ Opening("server") =>
       \A i \in DOMAIN chan["server"] : IsHello(chan["server"][i].frame)
  /\ (\E i \in DOMAIN chan["server"] : chan["server"][i].part = "payload")
       \/ opened["server"] # << >>
     => state["client"] # "NEW" /\ tx["client"] > 0

\* The first thing the server says is its answer: nothing before it, a NACK
\* if it granted nothing, the ACK with what it granted otherwise.
AnswerFirst ==
  Opening("client") =>
    /\ Opening("server") => chan["client"] = << >> /\ pending["client"] = << >>
    /\ state["server"] = "OPEN" =>
         pending["client"] # << >> \/ chan["client"] # << >>
    /\ IF opened["server"] = << >>
         THEN \A i \in DOMAIN chan["client"] :
                chan["client"][i].frame.type = "HELLO_NACK"
         ELSE IF pending["client"] # << >>
                THEN IsGrant(pending["client"][1])
                ELSE chan["client"] # << >> => IsGrant(chan["client"][1].frame)

NegotiationInv == AgreedOnceOpen /\ AskedBeforeGrant /\ AnswerFirst

=============================================================================
