----------------------------- MODULE ControlPlane -----------------------------
(***************************************************************************)
(* The control channel of a session: crates/transport/src/control.rs, with *)
(* the client that negotiates over it (macos/client/src/config.rs and      *)
(* session.rs), the host that answers (tools/nvenc-probe/src/main.rs) and  *)
(* the phase requests that follow on the same connection                   *)
(* (macos/client/src/phase.rs).                                            *)
(*                                                                         *)
(* Each member of Conns is one TCP connection, opened by one run of the    *)
(* client; the token the server issues for it is random and is modelled by *)
(* the connection itself.  A frame is two pieces on the wire, its header   *)
(* and its payload, because a read may find only the first of them and a   *)
(* write may leave only the first of them behind.  The host's program      *)
(* accepts one connection; here its server goes on accepting, on several   *)
(* threads, which the library allows ("the accept loop", control.rs:535)   *)
(* and its table and ceiling exist for.                                    *)
(***************************************************************************)
EXTENDS Naturals, Sequences, FiniteSets

CONSTANTS Conns,        \* TCP connections that may be opened
          Acceptors,    \* host threads inside accept_session
          MaxSessions,  \* MAX_SESSIONS (bound: 64 in the code)
          MaxShifts,    \* bound: phase requests sent on one connection
          None

ASSUME ControlAssumption ==
    /\ IsFiniteSet(Conns)
    /\ MaxSessions \in Nat \ {0}
    /\ MaxShifts \in Nat
    /\ None \notin Conns

VARIABLES client,     \* how far the client's run on this connection has come
          bound,      \* connections whose client has a decoder and a UDP socket
          written,    \* for each of its phase requests, how many pieces went out
          up, down,   \* pieces on the way to the host, and to the client
          closed,     \* the ends of the connection that are closed
          backlog,    \* connections no accept has returned yet
          accepting,  \* what each acceptor thread is at
          table,      \* SessionTable: the tokens issued and not yet removed
          host,       \* the host's exchange over the session
          reader,     \* FrameReader: the message whose payload is awaited
          heard,      \* phase requests handed to the relay
          streaming   \* connections whose client the host sends media to

clientVars == <<client, bound, written>>
wireVars == <<up, down, closed>>
serverVars == <<backlog, accepting, table>>
sessionVars == <<host, reader, heard, streaming>>
vars == <<clientVars, wireVars, serverVars, sessionVars>>

Shift(n) == [kind |-> "PhaseShift", n |-> n]
Message(kind) == [kind |-> kind, n |-> 0]
Messages == {Message(k) : k \in {"ClientHello", "ServerHello", "VideoConfig", "ConfigAck"}}
              \cup {Shift(n) : n \in 1..MaxShifts}
Piece == [half : {"header", "payload"}, of : Messages]

ASSUME ReaderAssumption == None \notin Messages

\* ControlFrame::write: both pieces, or, when it fails, what it had got to.
Frame(m) == <<[half |-> "header", of |-> m], [half |-> "payload", of |-> m]>>
Written(wire, m, n) == wire \o SubSeq(Frame(m), 1, n)

\* ControlFrame::read blocks for all of a frame; Arrived is when it has one.
Arrived(wire, m) == Len(wire) >= 2 /\ SubSeq(wire, 1, 2) = Frame(m)
AfterFrame(wire) == SubSeq(wire, 3, Len(wire))

Init ==
    /\ client = [c \in Conns |-> "idle"]
    /\ bound = {}
    /\ written = [c \in Conns |-> <<>>]
    /\ up = [c \in Conns |-> <<>>]
    /\ down = [c \in Conns |-> <<>>]
    /\ closed = [c \in Conns |-> {}]
    /\ backlog = {}
    /\ accepting = [a \in Acceptors |-> [at |-> "idle", conn |-> None]]
    /\ table = {}
    /\ host = [c \in Conns |-> "none"]
    /\ reader = [c \in Conns |-> None]
    /\ heard = [c \in Conns |-> <<>>]
    /\ streaming = {}

-----------------------------------------------------------------------------
(* The client. *)

\* negotiate: the kernel completes the connection before any accept.
Connect(c) ==
    /\ client[c] = "idle"
    /\ client' = [client EXCEPT ![c] = "hello"]
    /\ backlog' = backlog \cup {c}
    /\ UNCHANGED <<bound, written, wireVars, accepting, table, sessionVars>>

\* ControlClient::hello, the request.
Hello(c) ==
    /\ client[c] = "hello"
    /\ client' = [client EXCEPT ![c] = "greeting"]
    /\ up' = [up EXCEPT ![c] = Written(@, Message("ClientHello"), 2)]
    /\ UNCHANGED <<bound, written, down, closed, serverVars, sessionVars>>

\* hello's answer, then negotiate's one recv: ServerHello, VideoConfig.
Learn(c, from, kind, to) ==
    /\ client[c] = from
    /\ Arrived(down[c], Message(kind))
    /\ client' = [client EXCEPT ![c] = to]
    /\ down' = [down EXCEPT ![c] = AfterFrame(@)]
    /\ UNCHANGED <<bound, written, up, closed, serverVars, sessionVars>>
Greeted(c) == Learn(c, "greeting", "ServerHello", "greeted")
Configured(c) == Learn(c, "greeted", "VideoConfig", "configured")

\* run: the decoder is built for the configuration and the socket bound.
Prepare(c) ==
    /\ client[c] = "configured"
    /\ client' = [client EXCEPT ![c] = "prepared"]
    /\ bound' = bound \cup {c}
    /\ UNCHANGED <<written, wireVars, serverVars, sessionVars>>

\* Defect: the acknowledgement sent as soon as the configuration is known.
Acknowledge_Early(c) ==
    /\ client[c] \in {"configured", "prepared"}
    /\ client' = [client EXCEPT ![c] = "running"]
    /\ up' = [up EXCEPT ![c] = Written(@, Message("ConfigAck"), 2)]
    /\ UNCHANGED <<bound, written, down, closed, serverVars, sessionVars>>

\* acknowledge: "only now is the receiver actually ready" (session.rs:488).
Acknowledge(c) ==
    /\ client[c] = "prepared"
    /\ client' = [client EXCEPT ![c] = "running"]
    /\ up' = [up EXCEPT ![c] = Written(@, Message("ConfigAck"), 2)]
    /\ UNCHANGED <<bound, written, down, closed, serverVars, sessionVars>>

\* The phase loop's send: n pieces of the frame go out before it returns.  A
\* failed send is counted and the loop goes on.
Ask(c, n) ==
    /\ client[c] = "running"
    /\ Len(written[c]) < MaxShifts
    /\ written' = [written EXCEPT ![c] = Append(@, n)]
    /\ up' = [up EXCEPT ![c] = Written(@, Shift(Len(written[c]) + 1), n)]
    /\ UNCHANGED <<client, bound, down, closed, serverVars, sessionVars>>

\* The run ends, on an error, a read that timed out, or because it is over:
\* the sockets go with it.
Leave(c) ==
    /\ client[c] \notin {"idle", "gone"}
    /\ client' = [client EXCEPT ![c] = "gone"]
    /\ bound' = bound \ {c}
    /\ closed' = [closed EXCEPT ![c] = @ \cup {"client"}]
    /\ UNCHANGED <<written, up, down, serverVars, sessionVars>>

-----------------------------------------------------------------------------
(* The server: accept_session, on the acceptor thread a. *)

Idle == [at |-> "idle", conn |-> None]

\* accept_before: the connection may be one its client has already left.
Accept(a, c) ==
    /\ accepting[a] = Idle
    /\ c \in backlog
    /\ backlog' = backlog \ {c}
    /\ accepting' = [accepting EXCEPT ![a] = [at |-> "hello", conn |-> c]]
    /\ UNCHANGED <<clientVars, wireVars, table, sessionVars>>

\* An error of accept_session: the stream is dropped, the thread is free.
GiveUp(a) ==
    /\ accepting' = [accepting EXCEPT ![a] = Idle]
    /\ closed' = [closed EXCEPT ![accepting[a].conn] = @ \cup {"host"}]
    /\ UNCHANGED <<clientVars, up, down, backlog, table, sessionVars>>

\* Defect: the wait for ClientHello ends only with the connection.
HelloFails_AtTheEnd(a) ==
    /\ accepting[a].at = "hello"
    /\ "client" \in closed[accepting[a].conn]
    /\ GiveUp(a)

\* The wait for ClientHello ends at its timeout, whatever has arrived.
HelloFails(a) ==
    /\ accepting[a].at = "hello"
    /\ GiveUp(a)

HasRoom == Cardinality(table) < MaxSessions

\* Under the lock: the ceiling, then the token.
Refuse(a) ==
    /\ accepting[a].at = "hello"
    /\ Arrived(up[accepting[a].conn], Message("ClientHello"))
    /\ ~HasRoom
    /\ GiveUp(a)

Issue(a) ==
    LET c == accepting[a].conn IN
    /\ accepting[a].at = "hello"
    /\ Arrived(up[c], Message("ClientHello"))
    /\ HasRoom
    /\ up' = [up EXCEPT ![c] = AfterFrame(@)]
    /\ table' = table \cup {c}
    /\ accepting' = [accepting EXCEPT ![a].at = "reply"]
    /\ UNCHANGED <<clientVars, down, closed, backlog, sessionVars>>

\* ServerHello goes out and the session exists.
Reply(a) ==
    LET c == accepting[a].conn IN
    /\ accepting[a].at = "reply"
    /\ down' = [down EXCEPT ![c] = Written(@, Message("ServerHello"), 2)]
    /\ accepting' = [accepting EXCEPT ![a] = Idle]
    /\ host' = [host EXCEPT ![c] = "session"]
    /\ UNCHANGED <<clientVars, up, closed, backlog, table, reader, heard, streaming>>

\* It cannot go out to a client that has left: `?` returns before there is a
\* session whose drop would remove the token.
ReplyFails(a) ==
    /\ accepting[a].at = "reply"
    /\ "client" \in closed[accepting[a].conn]
    /\ GiveUp(a)

-----------------------------------------------------------------------------
(* The host's exchange over the session. *)

\* ControlSession::drop: the token goes, and the socket.
EndSession(c) ==
    /\ host' = [host EXCEPT ![c] = "ended"]
    /\ table' = table \ {c}
    /\ closed' = [closed EXCEPT ![c] = @ \cup {"host"}]

\* serve_config, the configuration.
SendConfig(c) ==
    /\ host[c] = "session"
    /\ host' = [host EXCEPT ![c] = "awaiting"]
    /\ down' = [down EXCEPT ![c] = Written(@, Message("VideoConfig"), 2)]
    /\ UNCHANGED <<clientVars, up, closed, serverVars, reader, heard, streaming>>

ConfigFails(c) ==
    /\ host[c] = "session"
    /\ "client" \in closed[c]
    /\ EndSession(c)
    /\ UNCHANGED <<clientVars, up, down, backlog, accepting, reader, heard, streaming>>

Broken == Message("broken")     \* poll returned an error
Nothing == Message("nothing")   \* poll returned Ok(None)

\* Defect: the partial frame is forgotten when the read times out.
Payload_Forgotten(m, wire, end) ==
    CASE wire = <<>> -> [reader |-> None, left |-> wire, got |-> end]
      [] wire # <<>> /\ Head(wire) = Frame(m)[2] -> [reader |-> None, left |-> Tail(wire), got |-> m]
      [] OTHER -> [reader |-> None, left |-> Tail(wire), got |-> Broken]

\* FrameReader::poll from the payload on; bytes of another frame in the place
\* of the payload do not parse.
Payload(m, wire, end) ==
    CASE wire = <<>> -> [reader |-> m, left |-> wire, got |-> end]
      [] wire # <<>> /\ Head(wire) = Frame(m)[2] -> [reader |-> None, left |-> Tail(wire), got |-> m]
      [] OTHER -> [reader |-> None, left |-> Tail(wire), got |-> Broken]

\* FrameReader::poll over what has arrived; end is what the next read after
\* it gives: a timeout, or the end of the stream.
Poll(waiting, wire, end) ==
    CASE waiting # None -> Payload(waiting, wire, end)
      [] waiting = None /\ wire = <<>> -> [reader |-> None, left |-> wire, got |-> end]
      [] waiting = None /\ wire # <<>> /\ Head(wire).half = "header" -> Payload(Head(wire).of, Tail(wire), end)
      [] OTHER -> [reader |-> None, left |-> Tail(wire), got |-> Broken]

\* next_message when k pieces have arrived before its timeout.
NextMessage(c, k) ==
    LET whole == k = Len(up[c]) /\ "client" \in closed[c]
        p == Poll(reader[c], SubSeq(up[c], 1, k), IF whole THEN Broken ELSE Nothing)
    IN [p EXCEPT !.left = @ \o SubSeq(up[c], k + 1, Len(up[c]))]

Took(c, p) ==
    /\ reader' = [reader EXCEPT ![c] = p.reader]
    /\ up' = [up EXCEPT ![c] = p.left]

\* serve_config's one next_message: the acknowledgement, after which media
\* may start, or the end of the session.
HearAck(c, k) ==
    LET p == NextMessage(c, k) IN
    /\ host[c] = "awaiting"
    /\ Took(c, p)
    /\ \/ /\ p.got = Message("ConfigAck")
          /\ host' = [host EXCEPT ![c] = "listening"]
          /\ streaming' = streaming \cup {c}
          /\ UNCHANGED <<table, closed>>
       \/ /\ p.got # Message("ConfigAck")
          /\ EndSession(c)
          /\ UNCHANGED streaming
    /\ UNCHANGED <<clientVars, down, backlog, accepting, heard>>

\* listen_for_phase: one turn of its loop.  Media does not depend on it.
Listen(c, k) ==
    LET p == NextMessage(c, k) IN
    /\ host[c] = "listening"
    /\ Took(c, p)
    /\ \/ /\ p.got = Broken
          /\ EndSession(c)
          /\ UNCHANGED heard
       \/ /\ p.got # Broken
          /\ heard' = [heard EXCEPT ![c] = IF p.got.kind = "PhaseShift" THEN Append(@, p.got.n) ELSE @]
          /\ UNCHANGED <<host, table, closed>>
    /\ UNCHANGED <<clientVars, down, backlog, accepting, streaming>>

-----------------------------------------------------------------------------
ClientStep(c) ==
    \/ Connect(c) \/ Hello(c) \/ Greeted(c) \/ Configured(c)
    \/ Prepare(c) \/ Acknowledge(c) \/ Leave(c)
    \/ \E n \in 0..2 : Ask(c, n)

AcceptorStep(a) ==
    \/ \E c \in Conns : Accept(a, c)
    \/ HelloFails(a) \/ Refuse(a) \/ Issue(a) \/ Reply(a) \/ ReplyFails(a)

SessionStep(c) ==
    \/ SendConfig(c) \/ ConfigFails(c)
    \/ \E k \in 0..Len(up[c]) : HearAck(c, k) \/ Listen(c, k)

Next ==
    \/ \E c \in Conns : ClientStep(c) \/ SessionStep(c)
    \/ \E a \in Acceptors : AcceptorStep(a)

Spec == Init /\ [][Next]_vars

\* The accept loop runs, the timeouts of the host's reads come, and a thread
\* whose message has arrived takes it; that clients ever send promises nothing.
Fairness ==
    /\ \A c \in Conns :
          /\ WF_vars(Greeted(c)) /\ WF_vars(Configured(c))
          /\ WF_vars(\E a \in Acceptors : Accept(a, c))
          /\ WF_vars(SendConfig(c) \/ ConfigFails(c))
          /\ WF_vars(\E k \in 0..Len(up[c]) : HearAck(c, k))
    /\ \A a \in Acceptors : WF_vars(HelloFails(a) \/ Refuse(a) \/ Issue(a)) /\ WF_vars(Reply(a))
FairSpec == Spec /\ Fairness

-----------------------------------------------------------------------------
Live == {c \in Conns : host[c] \in {"session", "awaiting", "listening"}}
Replying == {accepting[a].conn : a \in {x \in Acceptors : accepting[x].at = "reply"}}

ControlTypeOK ==
    /\ client \in [Conns -> {"idle", "hello", "greeting", "greeted", "configured",
                             "prepared", "running", "gone"}]
    /\ bound \subseteq Conns
    /\ written \in [Conns -> Seq(0..2)]
    /\ up \in [Conns -> Seq(Piece)] /\ down \in [Conns -> Seq(Piece)]
    /\ closed \in [Conns -> SUBSET {"client", "host"}]
    /\ backlog \subseteq Conns /\ table \subseteq Conns /\ streaming \subseteq Conns
    /\ accepting \in [Acceptors -> {Idle} \cup [at : {"hello", "reply"}, conn : Conns]]
    /\ host \in [Conns -> {"none", "session", "awaiting", "listening", "ended"}]
    /\ reader \in [Conns -> Messages \cup {None}]
    /\ heard \in [Conns -> Seq(1..MaxShifts)]

\* No media before the receiver: the host sends only to a client that has, or
\* had until it left, a decoder and a bound socket ("No media before the
\* receiver has acknowledged a decoder", nvenc-probe main.rs:719).
MediaWaitsForReceiver == \A c \in streaming : c \in bound \/ client[c] = "gone"

\* What reaches the relay is what the phase loop sent whole, in its order, with
\* none left out and none from behind a frame that was torn; and the listener
\* ends only for a client that left or tore a frame.  So a read that times out
\* inside a frame loses nothing, and nothing is read out of the middle of one.
Whole(c, n) == {i \in DOMAIN written[c] : i <= n /\ written[c][i] = 2}
Torn(c, n) == {i \in DOMAIN written[c] : i <= n /\ written[c][i] = 1}
ShiftsArriveWhole ==
    \A c \in Conns :
        /\ \A i \in DOMAIN heard[c] :
              /\ heard[c][i] \in Whole(c, heard[c][i])
              /\ Cardinality(Whole(c, heard[c][i])) = i
              /\ Torn(c, heard[c][i]) = {}
        /\ host[c] = "ended" /\ c \in streaming => client[c] = "gone" \/ Torn(c, MaxShifts) # {}

\* A session that exists can be found by its token, and there are never more
\* of them than the ceiling.
SessionsAreListed == Live \cup Replying \subseteq table /\ Cardinality(Live) <= MaxSessions

\* No wait depends on the other peers: a client that has said hello is given
\* its configuration, and one that has acknowledged it its media, or is told by
\* the end of the connection, however many silent clients came before it ("the
\* failure mode this file exists to prevent is waiting", control.rs:16).
EveryWaitEnds ==
    \A c \in Conns :
        /\ client[c] \in {"greeting", "greeted"} ~>
              client[c] \notin {"greeting", "greeted"} \/ "host" \in closed[c]
        /\ client[c] = "running" ~> c \in streaming \/ "host" \in closed[c]
=============================================================================
