---------------------------- MODULE MCProtoConn ----------------------------
(* Small instances of ProtoConn for TLC. *)
EXTENDS ProtoConn

MCMajorSame == [e \in Endpoint |-> 0]
MCOnHello == {{}, {"gen"}, {"emb", "new"}, {"gen", "emb"}}
MCOnHelloOne == {{"gen"}}
MCOnHelloNew == {{"gen", "new"}}

F(type, id) ==
  [type |-> type, id |-> id, start |-> FALSE, end |-> FALSE, good |-> TRUE,
   caps |-> {}, reason |-> "normal", ver |-> 0, n |-> 0]
Tok(id, s, t) == [F("TOKEN", id) EXCEPT !.start = s, !.end = t]

\* Control traffic in both directions.
MCControl ==
  [e \in Endpoint |-> {F("PING", 1), F("CLOSE", 0), F("ERROR", 1),
                       F("REQUEST", 1), F("HELLO_ACK", 1)}]
\* A server streaming to the client, well or badly.
MCStreamFrames ==
  [e \in Endpoint |->
     IF e = "client" THEN {}
     ELSE {Tok(1, TRUE, FALSE), Tok(1, FALSE, FALSE), Tok(1, FALSE, TRUE),
           Tok(2, TRUE, FALSE), Tok(2, FALSE, FALSE), Tok(0, FALSE, FALSE),
           [Tok(2, TRUE, FALSE) EXCEPT !.good = FALSE],
           F("STREAM_DATA", 1), F("STREAM_CLOSE", 1), F("COMPLETE", 1)}]

\* Frames neither conn_start nor conn_send would put on the wire.
MCWild ==
  [e \in Endpoint |->
     IF e = "client" THEN {[F("HELLO", 1) EXCEPT !.caps = {"gen", "new"}],
                           [F("HELLO", 1) EXCEPT !.good = FALSE]}
     ELSE {[F("HELLO_ACK", 1) EXCEPT !.caps = {"new"}], F("HELLO_NACK", 1),
           [F("ERROR", 1) EXCEPT !.ver = 1]}]
MCNone == [e \in Endpoint |-> {}]
=============================================================================
