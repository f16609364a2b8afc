---------------------------- MODULE SessionProofs ----------------------------
(***************************************************************************)
(* A client session.  The control channel for any connections, acceptor    *)
(* threads and ceiling: media waits for its receiver, the table lists      *)
(* every session, and the relay hears whole requests in order.  And the    *)
(* run it starts, for any number of units and refreshes and any length of  *)
(* its clocks: the backlog is exact and no frame is lost from the          *)
(* accounts.                                                               *)
(***************************************************************************)
EXTENDS ControlPlane, ClientRun, SequenceTheorems, FiniteSetTheorems, TLAPS

(***************************************************************************)
(* The control channel.                                                    *)
(***************************************************************************)
Ack == Message("ConfigAck")
CarriesAck(wire) == \E i \in 1..Len(wire) : wire[i].of = Ack

\* The acknowledgement in any of the places it can be between the client that
\* sends it and the media it starts.
AckUnderWay(c) ==
    \/ CarriesAck(up[c])
    \/ reader[c] = Ack
    \/ c \in streaming

\* Why media waits: whoever has acknowledged has its receiver.
AckMeansReceiver ==
    \A c \in Conns :
        /\ client[c] \in {"prepared", "running"} => c \in bound
        /\ AckUnderWay(c) => client[c] \in {"running", "gone"}

\* A connection is in one place: still the client's, waiting to be accepted,
\* with one acceptor, or with the host.
OnePlace ==
    /\ \A c \in Conns : client[c] = "idle" \/ c \in backlog => host[c] = "none"
    /\ \A a \in Acceptors : accepting[a] # Idle =>
          LET c == accepting[a].conn IN
          client[c] # "idle" /\ c \notin backlog /\ host[c] = "none"
    /\ \A a, b \in Acceptors :
          a # b /\ accepting[a] # Idle /\ accepting[b] # Idle =>
              accepting[a].conn # accepting[b].conn
    /\ \A c \in backlog : client[c] # "idle"

\* Cardinality(Live) <= MaxSessions follows from the ceiling of the table.
TableListsThem == Live \cup Replying \subseteq table /\ Cardinality(table) <= MaxSessions


-----------------------------------------------------------------------------
(* What is on the wire. *)

\* Every piece of s is a piece of t.
Within(s, t) == \A i \in 1..Len(s) : \E j \in 1..Len(t) : s[i] = t[j]

\* A write adds pieces of its own message only.
LEMMA WrittenFacts ==
  ASSUME NEW wire \in Seq(Piece), NEW m \in Messages, NEW n \in 0..2
  PROVE  /\ Written(wire, m, n) \in Seq(Piece)
         /\ \A i \in 1..Len(Written(wire, m, n)) :
               Written(wire, m, n)[i].of = m \/ \E j \in 1..Len(wire) : Written(wire, m, n)[i] = wire[j]
<1> DEFINE part == SubSeq(Frame(m), 1, n)
<1>1. Frame(m) \in Seq(Piece) /\ Len(Frame(m)) = 2  BY DEF Frame, Piece
<1>2. part \in Seq(Piece) /\ Len(part) = n /\ \A i \in 1..n : part[i] = Frame(m)[i]
  <2>1. \A i \in 1..n : i \in 1..Len(Frame(m)) /\ Frame(m)[i] \in Piece
    <3>1. \A i \in 1..n : i \in 1..Len(Frame(m))  BY <1>1
    <3>2. QED  BY <1>1, <3>1, ElementOfSeq
  <2>2. Len(part) = n /\ part \in Seq(Piece)  BY <2>1, SubSeqProperties
  <2>3. \A i \in 1..(n - 1 + 1) : part[i] = Frame(m)[1 + i - 1]  BY <2>1, SubSeqProperties
  <2>4. QED  BY <2>2, <2>3
<1>3. \A i \in 1..n : part[i].of = m  BY <1>2 DEF Frame
<1>4. Written(wire, m, n) = wire \o part  BY DEF Written
<1> HIDE DEF part
<1>5. Len(wire \o part) = Len(wire) + n /\ wire \o part \in Seq(Piece)  BY <1>2
<1>6. ASSUME NEW i \in 1..Len(wire \o part)
      PROVE  (wire \o part)[i].of = m \/ \E j \in 1..Len(wire) : (wire \o part)[i] = wire[j]
  <2>1. CASE i <= Len(wire)  BY <2>1, <1>2
  <2>2. CASE i > Len(wire)
    <3>1. i - Len(wire) \in 1..n  BY <2>2, <1>5
    <3>2. (wire \o part)[i] = part[i - Len(wire)]  BY <2>2, <1>2, <3>1
    <3>3. QED  BY <3>1, <3>2, <1>3
  <2>3. QED  BY <2>1, <2>2, <1>5
<1>7. QED  BY <1>4, <1>5, <1>6

\* A frame that is read leaves the rest as it was.
LEMMA AfterFrameFacts ==
  ASSUME NEW wire \in Seq(Piece), NEW m, Arrived(wire, m)
  PROVE  AfterFrame(wire) \in Seq(Piece) /\ Within(AfterFrame(wire), wire)
<1>1. Len(wire) \in Nat /\ Len(wire) >= 2  BY DEF Arrived
<1>2. /\ AfterFrame(wire) \in Seq(Piece)
      /\ Len(AfterFrame(wire)) = Len(wire) - 2
      /\ \A i \in 1..(Len(wire) - 2) : AfterFrame(wire)[i] = wire[i + 2]
  <2>1. \A i \in 3..Len(wire) : wire[i] \in Piece  BY <1>1
  <2>2. /\ AfterFrame(wire) \in Seq(Piece)
        /\ Len(AfterFrame(wire)) = IF 3 <= Len(wire) THEN Len(wire) - 3 + 1 ELSE 0
        /\ \A i \in 1..(Len(wire) - 3 + 1) : AfterFrame(wire)[i] = wire[3 + i - 1]
    BY <1>1, <2>1, SubSeqProperties DEF AfterFrame
  <2>3. CASE Len(wire) = 2  BY <1>1, <2>2, <2>3
  <2>4. CASE Len(wire) >= 3  BY <1>1, <2>2, <2>4
  <2>5. Len(wire) = 2 \/ Len(wire) >= 3
    <3>1. \A n \in Nat : n >= 2 => n = 2 \/ n >= 3  OBVIOUS
    <3>2. QED  BY <1>1, <3>1, Zenon
  <2>6. QED  BY <2>3, <2>4, <2>5, Zenon
<1>3. \A i \in 1..(Len(wire) - 2) : i + 2 \in 1..Len(wire)  BY <1>1
<1>4. QED  BY <1>2, <1>3 DEF Within

\* A tail is part of what it is the tail of.
LEMMA TailFacts ==
  ASSUME NEW wire \in Seq(Piece), wire # <<>>
  PROVE  /\ Head(wire) \in Piece /\ Head(wire) = wire[1] /\ 1 \in 1..Len(wire)
         /\ Tail(wire) \in Seq(Piece) /\ Len(Tail(wire)) = Len(wire) - 1
         /\ \A i \in 1..Len(Tail(wire)) : i + 1 \in 1..Len(wire) /\ Tail(wire)[i] = wire[i + 1]
OBVIOUS

\* What poll takes for a message, and what it leaves, came from the wire or
\* from the frame whose payload it awaited.
Grounded(p, waiting, wire) ==
    /\ p.reader \in Messages \cup {None}
    /\ p.left \in Seq(Piece) /\ Within(p.left, wire)
    /\ p.got \in Messages \cup {Nothing, Broken}
    /\ p.reader = Ack \/ p.got = Ack =>
          waiting = Ack \/ CarriesAck(wire)

LEMMA PayloadFacts ==
  ASSUME NEW m \in Messages, NEW wire \in Seq(Piece), NEW end \in {Nothing, Broken}
  PROVE  Grounded(Payload(m, wire, end), m, wire)
<1>1. Nothing # Ack /\ Broken # Ack /\ None # Ack
  BY ReaderAssumption DEF Nothing, Broken, Ack, Message, Messages
<1>2. CASE wire = <<>>
  <2>1. Payload(m, wire, end) = [reader |-> m, left |-> wire, got |-> end]  BY <1>2 DEF Payload
  <2>2. QED  BY <1>1, <2>1 DEF Grounded, Within, CarriesAck
<1>3. CASE wire # <<>> /\ Head(wire) = Frame(m)[2]
  <2>1. Payload(m, wire, end) = [reader |-> None, left |-> Tail(wire), got |-> m]
    BY <1>3 DEF Payload
  <2>2. Within(Tail(wire), wire)  BY <1>3, TailFacts DEF Within
  <2>3. QED  BY <1>1, <1>3, <2>1, <2>2, TailFacts DEF Grounded, CarriesAck
<1>4. CASE wire # <<>> /\ Head(wire) # Frame(m)[2]
  <2>1. Payload(m, wire, end) = [reader |-> None, left |-> Tail(wire), got |-> Broken]
    BY <1>4 DEF Payload
  <2>2. Within(Tail(wire), wire)  BY <1>4, TailFacts DEF Within
  <2>3. QED  BY <1>1, <1>4, <2>1, <2>2, TailFacts DEF Grounded, CarriesAck
<1>5. QED  BY <1>2, <1>3, <1>4

LEMMA PollFacts ==
  ASSUME NEW waiting \in Messages \cup {None}, NEW wire \in Seq(Piece),
         NEW end \in {Nothing, Broken}
  PROVE  Grounded(Poll(waiting, wire, end), waiting, wire)
<1>1. Nothing # Ack /\ Broken # Ack /\ None # Ack
  BY ReaderAssumption DEF Nothing, Broken, Ack, Message, Messages
<1>2. CASE waiting # None
  <2>1. Poll(waiting, wire, end) = Payload(waiting, wire, end)  BY <1>2 DEF Poll
  <2>2. QED  BY <1>2, <2>1, PayloadFacts
<1>3. CASE waiting = None /\ wire = <<>>
  <2>1. Poll(waiting, wire, end) = [reader |-> None, left |-> wire, got |-> end]
    BY <1>3 DEF Poll
  <2>2. QED  BY <1>1, <2>1 DEF Grounded, Within, CarriesAck
<1>4. CASE waiting = None /\ wire # <<>> /\ Head(wire).half = "header"
  <2> DEFINE p == Payload(Head(wire).of, Tail(wire), end)
  <2>1. Poll(waiting, wire, end) = p  BY <1>4 DEF Poll
  <2>2. Head(wire).of \in Messages  BY <1>4, TailFacts DEF Piece
  <2>3. Grounded(p, Head(wire).of, Tail(wire))  BY <1>4, <2>2, TailFacts, PayloadFacts
  <2> HIDE DEF p
  <2>4. Within(p.left, wire)
    <3>1. \A i \in 1..Len(p.left) : \E j \in 1..Len(Tail(wire)) : p.left[i] = Tail(wire)[j]
      BY <2>3 DEF Grounded, Within
    <3>2. QED  BY <1>4, <3>1, TailFacts DEF Within
  <2>5. p.reader = Ack \/ p.got = Ack => CarriesAck(wire)
    BY <1>4, <2>3, TailFacts DEF Grounded, CarriesAck
  <2>6. QED  BY <2>1, <2>3, <2>4, <2>5 DEF Grounded
<1>5. CASE waiting = None /\ wire # <<>> /\ Head(wire).half # "header"
  <2>1. Poll(waiting, wire, end) = [reader |-> None, left |-> Tail(wire), got |-> Broken]
    BY <1>5 DEF Poll
  <2>2. Within(Tail(wire), wire)  BY <1>5, TailFacts DEF Within
  <2>3. QED  BY <1>1, <1>5, <2>1, <2>2, TailFacts DEF Grounded, CarriesAck
<1>6. QED  BY <1>2, <1>3, <1>4, <1>5

LEMMA NextMessageFacts ==
  ASSUME ControlTypeOK, NEW c \in Conns, NEW k \in 0..Len(up[c])
  PROVE  Grounded(NextMessage(c, k), reader[c], up[c])
<1> DEFINE whole == k = Len(up[c]) /\ "client" \in closed[c]
           end == IF whole THEN Broken ELSE Nothing
           seen == SubSeq(up[c], 1, k)
           rest == SubSeq(up[c], k + 1, Len(up[c]))
           p == Poll(reader[c], seen, end)
<1>1. up[c] \in Seq(Piece) /\ reader[c] \in Messages \cup {None}  BY DEF ControlTypeOK
<1>2. seen \in Seq(Piece) /\ Len(seen) = k /\ \A i \in 1..k : i \in 1..Len(up[c]) /\ seen[i] = up[c][i]
  BY <1>1
<1>3. /\ rest \in Seq(Piece) /\ Len(rest) = Len(up[c]) - k
      /\ \A i \in 1..Len(rest) : i + k \in 1..Len(up[c]) /\ rest[i] = up[c][i + k]
  BY <1>1
<1>4. end \in {Nothing, Broken}  OBVIOUS
<1> HIDE DEF seen, rest, end
<1>5. Grounded(p, reader[c], seen)  BY <1>1, <1>2, <1>4, PollFacts
<1>6. NextMessage(c, k) = [p EXCEPT !.left = @ \o rest]
  BY DEF NextMessage, seen, rest, end
<1>7. /\ NextMessage(c, k).reader = p.reader /\ NextMessage(c, k).got = p.got
      /\ NextMessage(c, k).left = p.left \o rest
  <2>1. DOMAIN p = {"reader", "left", "got"}  BY DEF Poll, Payload
  <2>2. QED  BY <1>6, <2>1
<1> HIDE DEF p
<1>8. p.left \in Seq(Piece) /\ Within(p.left, up[c])
  BY <1>5, <1>2 DEF Grounded, Within
<1>9. Within(p.left \o rest, up[c])
  <2> SUFFICES ASSUME NEW i \in 1..Len(p.left \o rest)
               PROVE  \E j \in 1..Len(up[c]) : (p.left \o rest)[i] = up[c][j]
    BY DEF Within
  <2>1. /\ Len(p.left) \in Nat /\ Len(rest) \in Nat
        /\ Len(p.left \o rest) = Len(p.left) + Len(rest)
    BY <1>3, <1>8, ConcatProperties, LenProperties
  <2>2. (p.left \o rest)[i] = IF i <= Len(p.left) THEN p.left[i] ELSE rest[i - Len(p.left)]
    BY <2>1, <1>3, <1>8, ConcatProperties
  <2>3. CASE i <= Len(p.left)
    <3>1. i \in 1..Len(p.left)  BY <2>1, <2>3
    <3>2. QED  BY <2>2, <2>3, <3>1, <1>8 DEF Within
  <2>4. CASE i > Len(p.left)
    <3>1. i - Len(p.left) \in 1..Len(rest) /\ ~(i <= Len(p.left))  BY <2>1, <2>4
    <3>2. QED  BY <2>2, <3>1, <1>3
  <2>5. QED  BY <2>1, <2>3, <2>4
<1>10. p.left \o rest \in Seq(Piece)  BY <1>3, <1>8
<1>11. p.reader = Ack \/ p.got = Ack => reader[c] = Ack \/ CarriesAck(up[c])
  BY <1>5, <1>2 DEF Grounded, CarriesAck
<1>12. QED  BY <1>5, <1>7, <1>9, <1>10, <1>11 DEF Grounded

-----------------------------------------------------------------------------
(* Types. *)

\* Whatever the client does.
LEMMA ClientTyped ==
  ASSUME ControlTypeOK, NEW c \in Conns, ClientStep(c)
  PROVE  ControlTypeOK'
<1>1. \A k \in {"ClientHello", "ServerHello", "VideoConfig", "ConfigAck"} : Message(k) \in Messages
  BY DEF Messages
<1>2. up[c] \in Seq(Piece) /\ down[c] \in Seq(Piece)  BY DEF ControlTypeOK
<1>3. CASE Connect(c)
  BY <1>3 DEF Connect, wireVars, sessionVars, ControlTypeOK
<1>4. CASE Hello(c)
  <2>1. up'[c] \in Seq(Piece) /\ up' = [up EXCEPT ![c] = up'[c]]
    BY <1>4, <1>1, <1>2, WrittenFacts DEF Hello, ControlTypeOK
  <2>2. QED  BY <1>4, <2>1 DEF Hello, serverVars, sessionVars, ControlTypeOK
<1>5. ASSUME NEW from, NEW kind, NEW to \in {"greeted", "configured"}, Learn(c, from, kind, to)
      PROVE  ControlTypeOK'
  <2>1. AfterFrame(down[c]) \in Seq(Piece)  BY <1>5, <1>2, AfterFrameFacts DEF Learn
  <2>2. QED  BY <1>5, <2>1 DEF Learn, serverVars, sessionVars, ControlTypeOK
<1>6. CASE Greeted(c)  BY <1>5, <1>6 DEF Greeted
<1>7. CASE Configured(c)  BY <1>5, <1>7 DEF Configured
<1>8. CASE Prepare(c)
  BY <1>8 DEF Prepare, wireVars, serverVars, sessionVars, ControlTypeOK
<1>9. CASE Acknowledge(c)
  <2>1. Written(up[c], Message("ConfigAck"), 2) \in Seq(Piece)
    <3>1. Message("ConfigAck") \in Messages /\ 2 \in 0..2  BY <1>1
    <3>2. QED  BY <3>1, <1>2, WrittenFacts
  <2>2. QED  BY <1>9, <2>1 DEF Acknowledge, serverVars, sessionVars, ControlTypeOK
<1>10. CASE Leave(c)
  BY <1>10 DEF Leave, serverVars, sessionVars, ControlTypeOK
<1>11. ASSUME NEW n \in 0..2, Ask(c, n) PROVE ControlTypeOK'
  <2>1. written[c] \in Seq(0..2) /\ Len(written[c]) + 1 \in 1..MaxShifts
    BY <1>11, ControlAssumption DEF Ask, ControlTypeOK
  <2>2. Shift(Len(written[c]) + 1) \in Messages  BY <2>1 DEF Messages
  <2>3. Written(up[c], Shift(Len(written[c]) + 1), n) \in Seq(Piece)
    BY <1>2, <2>2, WrittenFacts
  <2>4. Append(written[c], n) \in Seq(0..2)  BY <2>1
  <2>5. QED  BY <1>11, <2>3, <2>4 DEF Ask, serverVars, sessionVars, ControlTypeOK
<1>12. QED
  BY <1>3, <1>4, <1>6, <1>7, <1>8, <1>9, <1>10, <1>11 DEF ClientStep

\* A thread that is not idle has a connection.
LEMMA Engaged ==
  ASSUME ControlTypeOK, NEW a \in Acceptors, accepting[a].at \in {"hello", "reply"}
  PROVE  /\ accepting[a] # Idle /\ accepting[a].conn \in Conns
         /\ accepting[a] \in [at : {"hello", "reply"}, conn : Conns]
BY DEF ControlTypeOK, Idle

LEMMA GiveUpTyped ==
  ASSUME ControlTypeOK, NEW a \in Acceptors, accepting[a].at \in {"hello", "reply"}, GiveUp(a)
  PROVE  ControlTypeOK'
BY Engaged DEF GiveUp, clientVars, sessionVars, ControlTypeOK

LEMMA AcceptorTyped ==
  ASSUME ControlTypeOK, NEW a \in Acceptors, AcceptorStep(a)
  PROVE  ControlTypeOK'
<1>1. ASSUME NEW c \in Conns, Accept(a, c) PROVE ControlTypeOK'
  BY <1>1 DEF Accept, clientVars, wireVars, sessionVars, ControlTypeOK
<1>2. CASE HelloFails(a)  BY <1>2, GiveUpTyped DEF HelloFails
<1>3. CASE Refuse(a)  BY <1>3, GiveUpTyped DEF Refuse
<1>4. CASE ReplyFails(a)  BY <1>4, GiveUpTyped DEF ReplyFails
<1>5. CASE Issue(a)
  <2> DEFINE c == accepting[a].conn
  <2>1. c \in Conns /\ accepting[a] \in [at : {"hello", "reply"}, conn : Conns]
    BY <1>5, Engaged DEF Issue
  <2>2. AfterFrame(up[c]) \in Seq(Piece)
    BY <1>5, <2>1, AfterFrameFacts DEF Issue, ControlTypeOK
  <2>3. accepting' \in [Acceptors -> {Idle} \cup [at : {"hello", "reply"}, conn : Conns]]
    BY <1>5, <2>1 DEF Issue, ControlTypeOK
  <2>4. up' \in [Conns -> Seq(Piece)]  BY <1>5, <2>2 DEF Issue, ControlTypeOK
  <2>5. table' \subseteq Conns  BY <1>5, <2>1 DEF Issue, ControlTypeOK
  <2>6. QED  BY <1>5, <2>3, <2>4, <2>5 DEF Issue, clientVars, sessionVars, ControlTypeOK
<1>6. CASE Reply(a)
  <2> DEFINE c == accepting[a].conn
  <2>1. c \in Conns  BY <1>6, Engaged DEF Reply
  <2>2. Message("ServerHello") \in Messages  BY DEF Messages
  <2>3. Written(down[c], Message("ServerHello"), 2) \in Seq(Piece)
    BY <2>1, <2>2, WrittenFacts DEF ControlTypeOK
  <2>4. down' \in [Conns -> Seq(Piece)]  BY <1>6, <2>3 DEF Reply, ControlTypeOK
  <2>5. QED  BY <1>6, <2>4 DEF Reply, clientVars, ControlTypeOK
<1>7. QED  BY <1>1, <1>2, <1>3, <1>4, <1>5, <1>6 DEF AcceptorStep

\* EndSession changes what the host holds of the connection, all of it.
LEMMA EndTyped ==
  ASSUME ControlTypeOK, NEW c \in Conns, EndSession(c)
  PROVE  /\ host' \in [Conns -> {"none", "session", "awaiting", "listening", "ended"}]
         /\ table' \subseteq Conns
         /\ closed' \in [Conns -> SUBSET {"client", "host"}]
BY DEF EndSession, ControlTypeOK

LEMMA TookTyped ==
  ASSUME ControlTypeOK, NEW c \in Conns, NEW k \in 0..Len(up[c]), Took(c, NextMessage(c, k))
  PROVE  reader' \in [Conns -> Messages \cup {None}] /\ up' \in [Conns -> Seq(Piece)]
<1> DEFINE p == NextMessage(c, k)
<1>1. p.reader \in Messages \cup {None} /\ p.left \in Seq(Piece)
  BY NextMessageFacts DEF Grounded
<1> HIDE DEF p
<1>2. Took(c, p)  BY DEF p
<1>3. QED  BY <1>1, <1>2 DEF Took, ControlTypeOK

LEMMA SessionTyped ==
  ASSUME ControlTypeOK, NEW c \in Conns, SessionStep(c)
  PROVE  ControlTypeOK'
<1>1. CASE SendConfig(c)
  <2>1. Message("VideoConfig") \in Messages  BY DEF Messages
  <2>2. Written(down[c], Message("VideoConfig"), 2) \in Seq(Piece)
    BY <2>1, WrittenFacts DEF ControlTypeOK
  <2>3. QED  BY <1>1, <2>2 DEF SendConfig, clientVars, serverVars, ControlTypeOK
<1>2. CASE ConfigFails(c)
  BY <1>2, EndTyped DEF ConfigFails, clientVars, ControlTypeOK
<1>3. ASSUME NEW k \in 0..Len(up[c]), HearAck(c, k) PROVE ControlTypeOK'
  <2>1. Took(c, NextMessage(c, k))  BY <1>3 DEF HearAck
  <2>2. /\ host' \in [Conns -> {"none", "session", "awaiting", "listening", "ended"}]
        /\ table' \subseteq Conns /\ streaming' \subseteq Conns
        /\ closed' \in [Conns -> SUBSET {"client", "host"}]
    <3>1. CASE EndSession(c) /\ UNCHANGED streaming
      BY <3>1, EndTyped DEF ControlTypeOK
    <3>2. CASE /\ host' = [host EXCEPT ![c] = "listening"]
               /\ streaming' = streaming \cup {c} /\ UNCHANGED <<table, closed>>
      BY <3>2 DEF ControlTypeOK
    <3>3. QED  BY <1>3, <3>1, <3>2 DEF HearAck
  <2>3. UNCHANGED <<client, bound, written, down, backlog, accepting, heard>>
    BY <1>3 DEF HearAck, clientVars
  <2>4. QED  BY <2>1, <2>2, <2>3, TookTyped DEF ControlTypeOK
<1>4. ASSUME NEW k \in 0..Len(up[c]), Listen(c, k) PROVE ControlTypeOK'
  <2> DEFINE p == NextMessage(c, k)
  <2>1. Took(c, p) /\ p.got \in Messages \cup {Nothing, Broken}
    BY <1>4, NextMessageFacts DEF Listen, Grounded
  <2> HIDE DEF p
  <2>2. \/ EndSession(c) /\ UNCHANGED heard
        \/ /\ heard' = [heard EXCEPT ![c] = IF p.got.kind = "PhaseShift" THEN Append(@, p.got.n) ELSE @]
           /\ UNCHANGED <<host, table, closed>>
    BY <1>4 DEF Listen, p
  <2>3. heard' \in [Conns -> Seq(1..MaxShifts)]
    <3>1. CASE UNCHANGED heard  BY <3>1 DEF ControlTypeOK
    <3>2. CASE heard' = [heard EXCEPT ![c] = IF p.got.kind = "PhaseShift" THEN Append(@, p.got.n) ELSE @]
      <4>1. p.got.kind = "PhaseShift" => p.got.n \in 1..MaxShifts
        BY <2>1 DEF Messages, Message, Shift, Nothing, Broken
      <4>2. heard[c] \in Seq(1..MaxShifts)  BY DEF ControlTypeOK
      <4>3. CASE p.got.kind = "PhaseShift"
        <5>1. Append(heard[c], p.got.n) \in Seq(1..MaxShifts)  BY <4>1, <4>2, <4>3
        <5>2. QED  BY <3>2, <4>3, <5>1 DEF ControlTypeOK
      <4>4. CASE p.got.kind # "PhaseShift"  BY <3>2, <4>4 DEF ControlTypeOK
      <4>5. QED  BY <4>3, <4>4
    <3>3. QED  BY <2>2, <3>1, <3>2
  <2>4. /\ host' \in [Conns -> {"none", "session", "awaiting", "listening", "ended"}]
        /\ table' \subseteq Conns /\ closed' \in [Conns -> SUBSET {"client", "host"}]
    BY <2>2, EndTyped DEF ControlTypeOK
  <2>5. UNCHANGED <<client, bound, written, down, backlog, accepting, streaming>>
    BY <1>4 DEF Listen, clientVars
  <2>6. Took(c, NextMessage(c, k))  BY <2>1 DEF p
  <2>7. QED  BY <2>3, <2>4, <2>5, <2>6, TookTyped DEF ControlTypeOK
<1>5. QED  BY <1>1, <1>2, <1>3, <1>4 DEF SessionStep

LEMMA TypeStep == ASSUME ControlTypeOK, [Next]_vars PROVE ControlTypeOK'
<1>1. CASE Next  BY <1>1, ClientTyped, AcceptorTyped, SessionTyped DEF Next
<1>2. CASE UNCHANGED vars
  BY <1>2 DEF vars, clientVars, wireVars, serverVars, sessionVars, ControlTypeOK
<1>3. QED  BY <1>1, <1>2

LEMMA TypeInit == Init => ControlTypeOK
BY DEF Init, ControlTypeOK, Idle

\* Whatever connections come, leave and are torn, and however many threads
\* accept them, the control channel stays well typed.
THEOREM ControlTypeCorrect == Spec => []ControlTypeOK
<1>1. Init => ControlTypeOK  BY TypeInit
<1>2. ControlTypeOK /\ [Next]_vars => ControlTypeOK'  BY TypeStep
<1>3. QED  BY <1>1, <1>2, PTL DEF Spec

-----------------------------------------------------------------------------
(* Media waits for its receiver. *)

LEMMA CarriesFacts ==
  /\ \A s, t : Within(s, t) /\ CarriesAck(s) => CarriesAck(t)
  /\ \A wire \in Seq(Piece), m \in Messages, n \in 0..2 :
        m # Ack /\ CarriesAck(Written(wire, m, n)) => CarriesAck(wire)
<1>1. \A s, t : Within(s, t) /\ CarriesAck(s) => CarriesAck(t)  BY DEF Within, CarriesAck
<1>2. ASSUME NEW wire \in Seq(Piece), NEW m \in Messages, NEW n \in 0..2,
             m # Ack, CarriesAck(Written(wire, m, n))
      PROVE  CarriesAck(wire)
  <2> DEFINE after == Written(wire, m, n)
  <2>1. PICK i \in 1..Len(after) : after[i].of = Ack  BY <1>2 DEF CarriesAck
  <2>2. after[i].of = m \/ \E j \in 1..Len(wire) : after[i] = wire[j]  BY WrittenFacts
  <2> HIDE DEF after
  <2>3. PICK j \in 1..Len(wire) : after[i] = wire[j]  BY <1>2, <2>1, <2>2
  <2>4. QED  BY <2>1, <2>3 DEF CarriesAck
<1>3. QED  BY <1>1, <1>2

\* The host only passes an acknowledgement on: nothing it does makes one.
LEMMA AckOnlyPassed ==
  ASSUME AckMeansReceiver, UNCHANGED <<client, bound>>,
         \A d \in Conns : AckUnderWay(d)' => AckUnderWay(d)
  PROVE  AckMeansReceiver'
BY DEF AckMeansReceiver

\* Nor does a client but by Acknowledge, and it leaves that state by Leave.
LEMMA ClientAck ==
  ASSUME ControlTypeOK, AckMeansReceiver, NEW c \in Conns, ClientStep(c)
  PROVE  AckMeansReceiver'
<1>1. client \in [Conns -> {"idle", "hello", "greeting", "greeted", "configured",
                            "prepared", "running", "gone"}]
      /\ up \in [Conns -> Seq(Piece)]
  BY DEF ControlTypeOK
<1>2. ASSUME UNCHANGED <<up, reader, streaming>>
      PROVE  \A d \in Conns : AckUnderWay(d)' = AckUnderWay(d)
  BY <1>2 DEF AckUnderWay, CarriesAck
<1>3. ASSUME NEW m \in Messages, NEW n \in 0..2, m # Ack,
             up' = [up EXCEPT ![c] = Written(@, m, n)], UNCHANGED <<reader, streaming>>
      PROVE  \A d \in Conns : AckUnderWay(d)' => AckUnderWay(d)
  <2> SUFFICES ASSUME NEW d \in Conns, AckUnderWay(d)' PROVE AckUnderWay(d)
    OBVIOUS
  <2>1. CASE d = c
    <3>1. up'[d] = Written(up[d], m, n) /\ up[d] \in Seq(Piece)  BY <1>1, <1>3, <2>1
    <3>2. CarriesAck(up'[d]) => CarriesAck(up[d])  BY <1>3, <3>1, CarriesFacts
    <3>3. CarriesAck(up[d])' = CarriesAck(up'[d])  BY DEF CarriesAck
    <3>4. QED  BY <1>3, <3>2, <3>3 DEF AckUnderWay
  <2>2. CASE d # c
    <3>1. up'[d] = up[d]  BY <1>1, <1>3, <2>2
    <3>2. QED  BY <1>3, <3>1 DEF AckUnderWay, CarriesAck
  <2>3. QED  BY <2>1, <2>2
<1>4. CASE Connect(c)
  BY <1>1, <1>2, <1>4 DEF Connect, wireVars, sessionVars, AckMeansReceiver
<1>5. CASE Hello(c)
  <2>1. Message("ClientHello") \in Messages /\ Message("ClientHello") # Ack /\ 2 \in 0..2
    BY DEF Messages, Message, Ack
  <2>2. \A d \in Conns : AckUnderWay(d)' => AckUnderWay(d)
    BY <1>3, <1>5, <2>1 DEF Hello, sessionVars
  <2>3. QED  BY <1>1, <1>5, <2>2 DEF Hello, AckMeansReceiver
<1>6. ASSUME NEW from \in {"greeting", "greeted"}, NEW kind,
             NEW to \in {"greeted", "configured"}, Learn(c, from, kind, to)
      PROVE  AckMeansReceiver'
  BY <1>1, <1>2, <1>6 DEF Learn, sessionVars, AckMeansReceiver
<1>7. CASE Greeted(c)  BY <1>6, <1>7 DEF Greeted
<1>8. CASE Configured(c)  BY <1>6, <1>8 DEF Configured
<1>9. CASE Prepare(c)
  BY <1>1, <1>2, <1>9 DEF Prepare, wireVars, sessionVars, AckMeansReceiver
<1>10. CASE Acknowledge(c)
  <2>1. \A d \in Conns \ {c} : AckUnderWay(d)' = AckUnderWay(d)
    BY <1>1, <1>10 DEF Acknowledge, sessionVars, AckUnderWay, CarriesAck
  <2>2. QED  BY <1>1, <1>10, <2>1 DEF Acknowledge, AckMeansReceiver
<1>11. ASSUME NEW n \in 0..2, Ask(c, n) PROVE AckMeansReceiver'
  <2>1. written[c] \in Seq(0..2) /\ Len(written[c]) + 1 \in 1..MaxShifts
    BY <1>11, ControlAssumption DEF Ask, ControlTypeOK
  <2>2. Shift(Len(written[c]) + 1) \in Messages  BY <2>1 DEF Messages
  <2>3. Shift(Len(written[c]) + 1) # Ack  BY DEF Shift, Ack, Message
  <2>4. \A d \in Conns : AckUnderWay(d)' => AckUnderWay(d)
    BY <1>3, <1>11, <2>2, <2>3 DEF Ask, sessionVars
  <2>5. QED  BY <1>11, <2>4, AckOnlyPassed DEF Ask
<1>12. CASE Leave(c)
  BY <1>1, <1>2, <1>12 DEF Leave, sessionVars, AckMeansReceiver
<1>13. QED
  BY <1>4, <1>5, <1>7, <1>8, <1>9, <1>10, <1>11, <1>12 DEF ClientStep

LEMMA AcceptorAck ==
  ASSUME ControlTypeOK, AckMeansReceiver, NEW a \in Acceptors, AcceptorStep(a)
  PROVE  AckMeansReceiver'
<1>1. ASSUME UNCHANGED <<up, reader, streaming>>
      PROVE  \A d \in Conns : AckUnderWay(d)' => AckUnderWay(d)
  BY <1>1 DEF AckUnderWay, CarriesAck
<1>2. ASSUME NEW c \in Conns, Accept(a, c) PROVE AckMeansReceiver'
  BY <1>1, <1>2, AckOnlyPassed DEF Accept, clientVars, wireVars, sessionVars
<1>3. CASE HelloFails(a) \/ Refuse(a) \/ ReplyFails(a)
  <2>1. GiveUp(a)  BY <1>3 DEF HelloFails, Refuse, ReplyFails
  <2>2. QED  BY <1>1, <2>1, AckOnlyPassed DEF GiveUp, clientVars, sessionVars
<1>4. CASE Issue(a)
  <2> DEFINE c == accepting[a].conn
  <2>1. c \in Conns  BY <1>4, Engaged DEF Issue
  <2>2. up' = [up EXCEPT ![c] = AfterFrame(@)] /\ UNCHANGED <<client, bound, reader, streaming>>
    BY <1>4 DEF Issue, clientVars, sessionVars
  <2>3. Within(AfterFrame(up[c]), up[c])
    BY <1>4, <2>1, AfterFrameFacts DEF Issue, ControlTypeOK
  <2> HIDE DEF c
  <2>4. \A d \in Conns : Within(up'[d], up[d]) \/ up'[d] = up[d]
    BY <2>1, <2>2, <2>3 DEF ControlTypeOK
  <2>5. \A d \in Conns : CarriesAck(up'[d]) => CarriesAck(up[d])  BY <2>4, CarriesFacts
  <2>6. \A d \in Conns : AckUnderWay(d)' => AckUnderWay(d)
    BY <2>2, <2>5 DEF AckUnderWay, CarriesAck
  <2>7. QED  BY <2>2, <2>6, AckOnlyPassed
<1>5. CASE Reply(a)
  BY <1>1, <1>5, AckOnlyPassed DEF Reply, clientVars
<1>6. QED  BY <1>2, <1>3, <1>4, <1>5 DEF AcceptorStep

LEMMA SessionAck ==
  ASSUME ControlTypeOK, AckMeansReceiver, NEW c \in Conns, SessionStep(c)
  PROVE  AckMeansReceiver'
<1>1. CASE SendConfig(c) \/ ConfigFails(c)
  <2>1. UNCHANGED <<client, bound, up, reader, streaming>>
    BY <1>1 DEF SendConfig, ConfigFails, clientVars
  <2>2. \A d \in Conns : AckUnderWay(d)' => AckUnderWay(d)
    BY <2>1 DEF AckUnderWay, CarriesAck
  <2>3. QED  BY <2>1, <2>2, AckOnlyPassed
<1>2. ASSUME NEW k \in 0..Len(up[c]), Took(c, NextMessage(c, k)), UNCHANGED clientVars,
             streaming' = streaming \/ (NextMessage(c, k).got = Ack /\ streaming' = streaming \cup {c})
      PROVE  AckMeansReceiver'
  <2> DEFINE p == NextMessage(c, k)
  <2>1. Grounded(p, reader[c], up[c])  BY NextMessageFacts
  <2>2. reader' = [reader EXCEPT ![c] = p.reader] /\ up' = [up EXCEPT ![c] = p.left]
    BY <1>2 DEF Took
  <2>3. CarriesAck(p.left) => CarriesAck(up[c])  BY <2>1, CarriesFacts DEF Grounded
  <2>4. p.reader = Ack \/ p.got = Ack => AckUnderWay(c)  BY <2>1 DEF Grounded, AckUnderWay
  <2>5. streaming' = streaming \/ (p.got = Ack /\ streaming' = streaming \cup {c})  BY <1>2
  <2> HIDE DEF p
  <2>6. ASSUME NEW d \in Conns, AckUnderWay(d)' PROVE AckUnderWay(d)
    <3>1. CASE d = c
      <4>1. up'[c] = p.left /\ reader'[c] = p.reader  BY <2>2 DEF ControlTypeOK
      <4>2. CarriesAck(p.left) \/ p.reader = Ack \/ c \in streaming'
        BY <2>6, <3>1, <4>1 DEF AckUnderWay, CarriesAck
      <4>3. CASE CarriesAck(p.left)  BY <2>3, <3>1, <4>3 DEF AckUnderWay
      <4>4. CASE p.reader = Ack  BY <2>4, <3>1, <4>4
      <4>5. CASE c \in streaming'  BY <2>4, <2>5, <3>1, <4>5 DEF AckUnderWay
      <4>6. QED  BY <4>2, <4>3, <4>4, <4>5
    <3>2. CASE d # c
      <4>1. up'[d] = up[d] /\ reader'[d] = reader[d] /\ (d \in streaming' => d \in streaming)
        BY <2>2, <2>5, <3>2 DEF ControlTypeOK
      <4>2. QED  BY <2>6, <4>1 DEF AckUnderWay, CarriesAck
    <3>3. QED  BY <3>1, <3>2
  <2>7. UNCHANGED <<client, bound>>  BY <1>2 DEF clientVars
  <2>8. QED  BY <2>6, <2>7, AckOnlyPassed
<1>3. ASSUME NEW k \in 0..Len(up[c]), HearAck(c, k) PROVE AckMeansReceiver'
  <2>1. Took(c, NextMessage(c, k)) /\ UNCHANGED clientVars  BY <1>3 DEF HearAck
  <2>2. streaming' = streaming \/ (NextMessage(c, k).got = Ack /\ streaming' = streaming \cup {c})
    BY <1>3 DEF HearAck, Ack
  <2>3. QED  BY <1>2, <2>1, <2>2
<1>4. ASSUME NEW k \in 0..Len(up[c]), Listen(c, k) PROVE AckMeansReceiver'
  <2>1. Took(c, NextMessage(c, k)) /\ UNCHANGED clientVars /\ streaming' = streaming
    BY <1>4 DEF Listen
  <2>2. QED  BY <1>2, <2>1
<1>5. QED  BY <1>1, <1>3, <1>4 DEF SessionStep

\* No media goes to a client that has not, or had not until it left, a decoder
\* and a bound socket, whatever is torn or delayed on the way.
THEOREM MediaAlwaysWaits == Spec => []MediaWaitsForReceiver
<1> DEFINE Inv == ControlTypeOK /\ AckMeansReceiver
<1>1. Init => Inv
  <2>1. Init => AckMeansReceiver
    BY ReaderAssumption DEF Init, AckMeansReceiver, AckUnderWay, CarriesAck, Ack, Messages
  <2>2. QED  BY <2>1, TypeInit
<1>2. Inv /\ [Next]_vars => Inv'
  <2> SUFFICES ASSUME Inv, [Next]_vars PROVE Inv'
    OBVIOUS
  <2>1. CASE Next  BY <2>1, TypeStep, ClientAck, AcceptorAck, SessionAck DEF Next
  <2>2. CASE UNCHANGED vars
    <3>1. AckMeansReceiver'
      BY <2>2 DEF vars, clientVars, wireVars, sessionVars, AckMeansReceiver, AckUnderWay, CarriesAck
    <3>2. QED  BY <3>1, TypeStep
  <2>3. QED  BY <2>1, <2>2
<1>3. Inv => MediaWaitsForReceiver
  BY DEF ControlTypeOK, AckMeansReceiver, AckUnderWay, MediaWaitsForReceiver
<1>4. QED  BY <1>1, <1>2, <1>3, PTL DEF Spec

-----------------------------------------------------------------------------
(* The table lists every session. *)

LEMMA PlaceStep ==
  ASSUME ControlTypeOK, OnePlace, Next
  PROVE  OnePlace'
<1>1. ASSUME UNCHANGED <<backlog, accepting, host>>,
             \A d \in Conns : client'[d] = "idle" => client[d] = "idle"
      PROVE  OnePlace'
  <2>1. \A a \in Acceptors : accepting[a] # Idle => accepting[a].conn \in Conns
    BY DEF ControlTypeOK
  <2>2. QED  BY <1>1, <2>1 DEF OnePlace, ControlTypeOK
<1>2. ASSUME NEW c \in Conns, ClientStep(c) PROVE OnePlace'
  <2>1. CASE Connect(c)
    <3>1. /\ client[c] = "idle" /\ UNCHANGED <<accepting, host>>
          /\ client' = [client EXCEPT ![c] = "hello"] /\ backlog' = backlog \cup {c}
      BY <2>1 DEF Connect, sessionVars
    <3>2. \A d \in Conns : client'[d] = "idle" => client[d] = "idle" /\ d # c
      BY <3>1 DEF ControlTypeOK
    <3>3. \A a \in Acceptors : accepting[a] # Idle =>
             accepting[a].conn \in Conns /\ accepting[a].conn # c
      BY <3>1 DEF ControlTypeOK, OnePlace
    <3>4. client'[c] = "hello"
      BY <3>1 DEF ControlTypeOK
    <3>5. \A d \in backlog : d # c /\ client'[d] # "idle"
      BY <3>1, <3>2 DEF OnePlace, ControlTypeOK
    <3>6. QED  BY <3>1, <3>2, <3>3, <3>4, <3>5 DEF OnePlace
  <2>2. CASE Hello(c)
    BY <1>1, <2>2 DEF Hello, serverVars, sessionVars, ControlTypeOK
  <2>3. CASE Greeted(c)
    BY <1>1, <2>3 DEF Greeted, Learn, serverVars, sessionVars, ControlTypeOK
  <2>4. CASE Configured(c)
    BY <1>1, <2>4 DEF Configured, Learn, serverVars, sessionVars, ControlTypeOK
  <2>5. CASE Prepare(c)
    BY <1>1, <2>5 DEF Prepare, serverVars, sessionVars, ControlTypeOK
  <2>6. CASE Acknowledge(c)
    BY <1>1, <2>6 DEF Acknowledge, serverVars, sessionVars, ControlTypeOK
  <2>7. CASE Leave(c)
    BY <1>1, <2>7 DEF Leave, serverVars, sessionVars, ControlTypeOK
  <2>8. ASSUME NEW n \in 0..2, Ask(c, n) PROVE OnePlace'
    BY <1>1, <2>8 DEF Ask, serverVars, sessionVars
  <2>9. QED
    BY <1>2, <2>1, <2>2, <2>3, <2>4, <2>5, <2>6, <2>7, <2>8 DEF ClientStep
<1>3. ASSUME NEW a \in Acceptors, AcceptorStep(a) PROVE OnePlace'
  <2>1. ASSUME NEW c \in Conns, Accept(a, c) PROVE OnePlace'
    <3>1. /\ accepting[a] = Idle /\ c \in backlog /\ backlog' = backlog \ {c}
          /\ accepting' = [accepting EXCEPT ![a] = [at |-> "hello", conn |-> c]]
          /\ UNCHANGED <<client, host>>
      BY <2>1 DEF Accept, clientVars, sessionVars
    <3>2. accepting'[a].conn = c /\ \A b \in Acceptors \ {a} : accepting'[b] = accepting[b]
      BY <3>1 DEF ControlTypeOK
    <3>3. client[c] # "idle" /\ host[c] = "none"  BY <3>1 DEF OnePlace, ControlTypeOK
    <3>4. \A b \in Acceptors \ {a} : accepting[b] # Idle => accepting[b].conn # c
      BY <3>1 DEF OnePlace
    <3>5. QED  BY <3>1, <3>2, <3>3, <3>4 DEF OnePlace
  <2>2. CASE HelloFails(a) \/ Refuse(a) \/ ReplyFails(a)
    <3>1. GiveUp(a)  BY <2>2 DEF HelloFails, Refuse, ReplyFails
    <3>2. accepting' = [accepting EXCEPT ![a] = Idle] /\ UNCHANGED <<client, backlog, host>>
      BY <3>1 DEF GiveUp, clientVars, sessionVars
    <3>3. accepting'[a] = Idle /\ \A b \in Acceptors \ {a} : accepting'[b] = accepting[b]
      BY <3>2 DEF ControlTypeOK
    <3>4. QED  BY <3>2, <3>3 DEF OnePlace
  <2>3. CASE Issue(a)
    <3>1. accepting' = [accepting EXCEPT ![a].at = "reply"] /\ UNCHANGED <<client, backlog, host>>
      BY <2>3 DEF Issue, clientVars, sessionVars
    <3>2. accepting[a] # Idle /\ accepting[a] \in [at : {"hello", "reply"}, conn : Conns]
      BY <2>3, Engaged DEF Issue
    <3>3. /\ accepting'[a].conn = accepting[a].conn
          /\ \A b \in Acceptors \ {a} : accepting'[b] = accepting[b]
      BY <3>1, <3>2 DEF ControlTypeOK
    <3>4. QED  BY <3>1, <3>2, <3>3 DEF OnePlace
  <2>4. CASE Reply(a)
    <3> DEFINE c == accepting[a].conn
    <3>1. c \in Conns /\ accepting[a] # Idle  BY <2>4, Engaged DEF Reply
    <3>2. /\ accepting' = [accepting EXCEPT ![a] = Idle] /\ UNCHANGED <<client, backlog>>
          /\ host' = [host EXCEPT ![c] = "session"]
      BY <2>4 DEF Reply, clientVars
    <3>3. client[c] # "idle" /\ c \notin backlog  BY <3>1 DEF OnePlace
    <3>4. \A b \in Acceptors \ {a} : accepting[b] # Idle =>
             accepting[b].conn # c /\ accepting[b].conn \in Conns
      BY <3>1 DEF OnePlace, ControlTypeOK
    <3> HIDE DEF c
    <3>5. accepting'[a] = Idle /\ \A b \in Acceptors \ {a} : accepting'[b] = accepting[b]
      BY <3>2 DEF ControlTypeOK
    <3>6. \A d \in Conns : d # c => host'[d] = host[d]
      BY <3>2 DEF ControlTypeOK
    <3>7. QED  BY <3>2, <3>3, <3>4, <3>5, <3>6 DEF OnePlace
  <2>5. QED  BY <1>3, <2>1, <2>2, <2>3, <2>4 DEF AcceptorStep
<1>4. ASSUME NEW c \in Conns, SessionStep(c) PROVE OnePlace'
  <2>1. /\ UNCHANGED <<client, backlog, accepting>> /\ host[c] # "none"
        /\ \A d \in Conns : d # c => host'[d] = host[d]
    BY <1>4 DEF SessionStep, SendConfig, ConfigFails, HearAck, Listen, EndSession, clientVars,
                serverVars, ControlTypeOK
  <2>2. \A a \in Acceptors : accepting[a] # Idle => accepting[a].conn \in Conns
    BY DEF ControlTypeOK
  <2>3. QED  BY <2>1, <2>2 DEF OnePlace
<1>5. QED  BY <1>2, <1>3, <1>4 DEF Next

\* Removing a session leaves a table that lists the others.
LEMMA EndedListed ==
  ASSUME ControlTypeOK, OnePlace, TableListsThem, NEW c \in Conns, host[c] # "none",
         EndSession(c), UNCHANGED accepting
  PROVE  TableListsThem'
<1>1. table' = table \ {c} /\ host' = [host EXCEPT ![c] = "ended"]  BY DEF EndSession
<1>2. c \notin Replying  BY DEF Replying, OnePlace, Idle
<1>3. Replying' = Replying  BY DEF Replying
<1>4. Live' \subseteq Live \ {c}  BY <1>1 DEF Live, ControlTypeOK
<1>5. IsFiniteSet(table)  BY ControlAssumption, FS_Subset DEF ControlTypeOK
<1>6. Cardinality(table') <= Cardinality(table) /\ Cardinality(table) \in Nat
      /\ Cardinality(table') \in Nat
  BY <1>1, <1>5, FS_Subset, FS_CardinalityType
<1>7. Live' \cup Replying' \subseteq table'
  BY <1>1, <1>2, <1>3, <1>4 DEF TableListsThem
<1>8. Cardinality(table)' <= MaxSessions
  BY <1>6, ControlAssumption DEF TableListsThem
<1>9. QED  BY <1>7, <1>8 DEF TableListsThem

LEMMA TableStep ==
  ASSUME ControlTypeOK, OnePlace, TableListsThem, Next
  PROVE  TableListsThem'
<1>1. ASSUME UNCHANGED table, Live' \subseteq Live, Replying' \subseteq Replying
      PROVE  TableListsThem'
  BY <1>1 DEF TableListsThem
<1>2. ASSUME NEW c \in Conns, ClientStep(c) PROVE TableListsThem'
  <2>1. UNCHANGED <<table, host, accepting>>
    BY <1>2 DEF ClientStep, Connect, Hello, Greeted, Configured, Learn, Prepare, Acknowledge,
                Ask, Leave, serverVars, sessionVars
  <2>2. QED  BY <1>1, <2>1 DEF Live, Replying
<1>3. ASSUME NEW a \in Acceptors, AcceptorStep(a) PROVE TableListsThem'
  <2>1. ASSUME NEW to, to.at # "reply", accepting' = [accepting EXCEPT ![a] = to]
        PROVE  Replying' \subseteq Replying
    BY <2>1 DEF Replying, ControlTypeOK
  <2>2. ASSUME NEW c \in Conns, Accept(a, c) PROVE TableListsThem'
    <3>1. Replying' \subseteq Replying  BY <2>1, <2>2 DEF Accept
    <3>2. UNCHANGED <<table, host>>  BY <2>2 DEF Accept, sessionVars
    <3>3. QED  BY <1>1, <3>1, <3>2 DEF Live
  <2>3. CASE HelloFails(a) \/ Refuse(a) \/ ReplyFails(a)
    <3>1. GiveUp(a)  BY <2>3 DEF HelloFails, Refuse, ReplyFails
    <3>2. Replying' \subseteq Replying  BY <2>1, <3>1 DEF GiveUp, Idle
    <3>3. UNCHANGED <<table, host>>  BY <3>1 DEF GiveUp, sessionVars
    <3>4. QED  BY <1>1, <3>2, <3>3 DEF Live
  <2>4. CASE Issue(a)
    <3> DEFINE c == accepting[a].conn
    <3>1. /\ HasRoom /\ table' = table \cup {c} /\ UNCHANGED host
          /\ accepting' = [accepting EXCEPT ![a].at = "reply"]
      BY <2>4 DEF Issue, sessionVars
    <3>2. accepting[a] \in [at : {"hello", "reply"}, conn : Conns]
      BY <2>4, Engaged DEF Issue
    <3>3. accepting'[a].conn = c /\ \A b \in Acceptors \ {a} : accepting'[b] = accepting[b]
      BY <3>1, <3>2 DEF ControlTypeOK
    <3>4. Replying' \subseteq Replying \cup {c}  BY <3>3 DEF Replying
    <3> HIDE DEF c
    <3>5. Live' = Live  BY <3>1 DEF Live
    <3>6. IsFiniteSet(table)  BY ControlAssumption, FS_Subset DEF ControlTypeOK
    <3>7. /\ Cardinality(table) \in Nat
          /\ Cardinality(table') = IF c \in table THEN Cardinality(table) ELSE Cardinality(table) + 1
      BY <3>1, <3>6, FS_AddElement, FS_CardinalityType
    <3>8. Cardinality(table') <= MaxSessions
      BY <3>1, <3>7, ControlAssumption DEF HasRoom
    <3>9. QED  BY <3>1, <3>4, <3>5, <3>8 DEF TableListsThem
  <2>5. CASE Reply(a)
    <3> DEFINE c == accepting[a].conn
    <3>1. /\ accepting' = [accepting EXCEPT ![a] = Idle] /\ UNCHANGED table
          /\ host' = [host EXCEPT ![c] = "session"] /\ accepting[a].at = "reply"
      BY <2>5 DEF Reply
    <3>2. Replying' \subseteq Replying  BY <2>1, <3>1 DEF Idle
    <3>3. c \in Replying  BY <3>1 DEF Replying
    <3> HIDE DEF c
    <3>4. Live' \subseteq Live \cup {c}  BY <3>1 DEF Live, ControlTypeOK
    <3>5. QED  BY <3>1, <3>2, <3>3, <3>4 DEF TableListsThem
  <2>6. QED  BY <1>3, <2>2, <2>3, <2>4, <2>5 DEF AcceptorStep
<1>4. ASSUME NEW c \in Conns, SessionStep(c) PROVE TableListsThem'
  <2>1. CASE host[c] # "none" /\ EndSession(c) /\ UNCHANGED accepting
    BY <2>1, EndedListed
  <2>2. ASSUME NEW to \in {"awaiting", "listening"}, host[c] \in {"session", "awaiting", "listening"},
               host' = [host EXCEPT ![c] = to] \/ host' = host, UNCHANGED <<table, accepting>>
        PROVE  TableListsThem'
    <3>1. Live' \subseteq Live  BY <2>2 DEF Live, ControlTypeOK
    <3>2. QED  BY <1>1, <2>2, <3>1 DEF Replying
  <2>3. CASE SendConfig(c)  BY <2>2, <2>3 DEF SendConfig, serverVars
  <2>4. CASE ConfigFails(c)  BY <2>1, <2>4 DEF ConfigFails
  <2>5. ASSUME NEW k \in 0..Len(up[c]), HearAck(c, k) PROVE TableListsThem'
    BY <2>1, <2>2, <2>5 DEF HearAck
  <2>6. ASSUME NEW k \in 0..Len(up[c]), Listen(c, k) PROVE TableListsThem'
    BY <2>1, <2>2, <2>6 DEF Listen
  <2>7. QED  BY <1>4, <2>3, <2>4, <2>5, <2>6 DEF SessionStep
<1>5. QED  BY <1>2, <1>3, <1>4 DEF Next

\* A session that exists can be found by its token, and there are never more
\* sessions than the ceiling, although a token whose ServerHello failed stays.
THEOREM SessionsAlwaysListed == Spec => []SessionsAreListed
<1> DEFINE Inv == ControlTypeOK /\ OnePlace /\ TableListsThem
<1>1. Init => Inv
  <2>1. Init => OnePlace  BY DEF Init, OnePlace, Idle
  <2>2. Init => TableListsThem
    <3>1. Init => Live = {} /\ Replying = {} /\ table = {}  BY DEF Init, Live, Replying
    <3>2. QED  BY <3>1, FS_EmptySet, ControlAssumption DEF TableListsThem
  <2>3. QED  BY <2>1, <2>2, TypeInit
<1>2. Inv /\ [Next]_vars => Inv'
  <2> SUFFICES ASSUME Inv, [Next]_vars PROVE Inv'
    OBVIOUS
  <2>1. CASE Next  BY <2>1, TypeStep, PlaceStep, TableStep
  <2>2. CASE UNCHANGED vars
    <3>1. OnePlace' /\ TableListsThem'
      BY <2>2 DEF vars, clientVars, serverVars, sessionVars, OnePlace, TableListsThem, Live, Replying
    <3>2. QED  BY <3>1, TypeStep
  <2>3. QED  BY <2>1, <2>2
<1>3. Inv => SessionsAreListed
  <2> SUFFICES ASSUME Inv PROVE SessionsAreListed
    OBVIOUS
  <2>1. IsFiniteSet(table) /\ Live \subseteq table
    BY ControlAssumption, FS_Subset DEF ControlTypeOK, TableListsThem
  <2>2. /\ Cardinality(Live) <= Cardinality(table) /\ Cardinality(Live) \in Nat
        /\ Cardinality(table) \in Nat
    BY <2>1, FS_Subset, FS_CardinalityType
  <2>3. QED  BY <2>2, ControlAssumption DEF SessionsAreListed, TableListsThem
<1>4. QED  BY <1>1, <1>2, <1>3, PTL DEF Spec

-----------------------------------------------------------------------------
(* What reaches the relay is what was sent, whole and in order.            *)

\* The place of a message among those a client sends, and of a piece of one.
Rank(m) == CASE m = Message("ClientHello") -> 0
             [] m = Ack -> 1
             [] OTHER -> m.n + 1
Place(x) == 2 * Rank(x.of) + (IF x.half = "header" THEN 0 ELSE 1)

\* The pieces that have gone out when s messages have been started, the phase
\* requests among them as far as wr says.
Sendable == {Message("ClientHello"), Ack} \cup {Shift(n) : n \in 1..MaxShifts}
Sent(wr, s) ==
    {x \in Piece :
        /\ x.of \in Sendable /\ Rank(x.of) < s
        /\ x.of.kind = "PhaseShift" =>
              /\ x.of.n \in DOMAIN wr /\ wr[x.of.n] # 0
              /\ x.half = "payload" => wr[x.of.n] = 2}

\* Where reading goes on when every message before the r-th is behind.
Reached(waiting, r) == IF waiting = None THEN 2 * r ELSE 2 * r + 1

\* How the host reads a connection: what it has not read of what was sent is on
\* the wire, in order; of what it has read no request was torn, and it has
\* passed on as many as went out whole.
Behind(wr, r, n) == {i \in DOMAIN wr : i + 1 < r /\ wr[i] = n}
Reading(wire, waiting, wr, passed, r, s) ==
    /\ r \in Nat /\ s \in Nat /\ r <= s
    /\ \A i, j \in DOMAIN wire : i < j => Place(wire[i]) < Place(wire[j])
    /\ \A x \in Piece : (\E i \in DOMAIN wire : wire[i] = x) <=> x \in Sent(wr, s) /\ Place(x) >= Reached(waiting, r)
    /\ waiting # None => [half |-> "header", of |-> waiting] \in Sent(wr, s) /\ Rank(waiting) = r
    /\ Behind(wr, r, 1) = {}
    /\ Cardinality(Behind(wr, r, 2)) = passed

\* The count of the requests passed on, after a message; and that a request is
\* the k-th to have gone out whole, with none torn before it.
Counted(passed, m) == IF m.kind = "PhaseShift" THEN passed + 1 ELSE passed
WholeAt(wr, n, k) ==
    /\ n \in DOMAIN wr /\ wr[n] = 2
    /\ Cardinality({i \in DOMAIN wr : i <= n /\ wr[i] = 2}) = k
    /\ {i \in DOMAIN wr : i <= n /\ wr[i] = 1} = {}

\* How many messages a client has started, who is at that point of its run.
Started(at, wr, s) ==
    /\ at \in {"idle", "hello"} => s = 0
    /\ at \in {"greeting", "greeted", "configured", "prepared"} => s = 1
    /\ at = "running" => s >= 2
    /\ Len(wr) = IF s < 2 THEN 0 ELSE s - 2

\* The two ends of a connection agree on what has been read of it, as long as
\* the host reads; and what reached the relay is whole for good.
Agree(at, wr, wire, waiting, passed) ==
    \E r, s \in Nat : Started(at, wr, s) /\ Reading(wire, waiting, wr, passed, r, s)
HeardWhole(wr, h) == \A i \in DOMAIN h : WholeAt(wr, h[i], i)
TornSome(wr) == \E i \in DOMAIN wr : wr[i] = 1 /\ i <= MaxShifts

InOrder(c) ==
    /\ "client" \in closed[c] => client[c] = "gone"
    /\ host[c] \in {"none", "session"} => reader[c] = None
    /\ c \in streaming => host[c] \in {"listening", "ended"}
    /\ host[c] # "ended" => Agree(client[c], written[c], up[c], reader[c], Len(heard[c]))
    /\ HeardWhole(written[c], heard[c])
    /\ host[c] = "ended" /\ c \in streaming => client[c] = "gone" \/ TornSome(written[c])

ReadInOrder == \A c \in Conns : InOrder(c)

-----------------------------------------------------------------------------
\* Messages a client sends are told apart by their rank, pieces by their place.
LEMMA RankFacts ==
  /\ \A m \in Sendable : m \in Messages /\ m # None /\ Rank(m) \in Nat
  /\ Rank(Message("ClientHello")) = 0 /\ Rank(Ack) = 1
  /\ \A n \in 1..MaxShifts : Rank(Shift(n)) = n + 1 /\ Shift(n).kind = "PhaseShift" /\ Shift(n).n = n
  /\ \A m \in Sendable : m.kind = "PhaseShift" => m.n \in 1..MaxShifts /\ m = Shift(m.n) /\ Rank(m) = m.n + 1
  /\ \A m \in Sendable : m.kind # "PhaseShift" => m \in {Message("ClientHello"), Ack} /\ Rank(m) < 2
  /\ \A m, n \in Sendable : Rank(m) = Rank(n) => m = n
<1>1. \A n \in 1..MaxShifts : Shift(n) # Message("ClientHello") /\ Shift(n) # Ack
  BY DEF Shift, Message, Ack
<1>2. Message("ClientHello") # Ack  BY DEF Message, Ack
<1>3. \A m \in Sendable : m \in Messages /\ m # None
  BY ReaderAssumption DEF Sendable, Messages, Ack
<1>4. Rank(Message("ClientHello")) = 0 /\ Rank(Ack) = 1  BY <1>2 DEF Rank
<1>5. \A n \in 1..MaxShifts : Rank(Shift(n)) = n + 1 /\ Shift(n).kind = "PhaseShift" /\ Shift(n).n = n
  BY <1>1 DEF Rank, Shift
<1>6. \A m \in Sendable : m = Message("ClientHello") \/ m = Ack \/ \E n \in 1..MaxShifts : m = Shift(n)
  BY DEF Sendable
<1>7. Message("ClientHello").kind # "PhaseShift" /\ Ack.kind # "PhaseShift"
  BY DEF Message, Ack
<1>8. \A m \in Sendable : m.kind = "PhaseShift" => m.n \in 1..MaxShifts /\ m = Shift(m.n) /\ Rank(m) = m.n + 1
  BY <1>5, <1>6, <1>7
<1>9. \A m \in Sendable : m.kind # "PhaseShift" => m \in {Message("ClientHello"), Ack} /\ Rank(m) < 2
  BY <1>4, <1>5, <1>6
<1>10. MaxShifts \in Nat  BY ControlAssumption
<1>11. \A m \in Sendable : Rank(m) \in Nat  BY <1>4, <1>5, <1>6, <1>10
<1>12. ASSUME NEW m \in Sendable, NEW n \in Sendable, Rank(m) = Rank(n) PROVE m = n
  <2>1. CASE m.kind = "PhaseShift" /\ n.kind = "PhaseShift"
    <3>1. m.n + 1 = n.n + 1 /\ m.n \in Nat /\ n.n \in Nat  BY <2>1, <1>8, <1>10, <1>12
    <3>2. m.n = n.n  BY <3>1
    <3>3. QED  BY <2>1, <3>2, <1>8
  <2>2. CASE m.kind # "PhaseShift" /\ n.kind # "PhaseShift"  BY <2>2, <1>9, <1>4, <1>12
  <2>3. ASSUME NEW x \in Sendable, x.kind = "PhaseShift" PROVE ~(Rank(x) < 2)
    <3>1. Rank(x) = x.n + 1 /\ x.n \in 1..MaxShifts  BY <2>3, <1>8
    <3>2. QED  BY <3>1, <1>10
  <2>4. QED  BY <2>1, <2>2, <2>3, <1>9, <1>12
<1>13. QED  BY <1>3, <1>4, <1>5, <1>8, <1>9, <1>11, <1>12

Header(m) == [half |-> "header", of |-> m]
Body(m) == [half |-> "payload", of |-> m]

LEMMA PlaceFacts ==
  /\ \A m \in Sendable : /\ Header(m) \in Piece /\ Body(m) \in Piece
                         /\ Place(Header(m)) = 2 * Rank(m) /\ Place(Body(m)) = 2 * Rank(m) + 1
  /\ \A x \in Piece : x = Header(x.of) \/ x = Body(x.of)
  /\ \A x \in Piece : x.of \in Sendable => Place(x) \in Nat
  /\ \A x, y \in Piece : x.of \in Sendable /\ y.of \in Sendable /\ Place(x) = Place(y) => x = y
<1>1. \A m \in Sendable : /\ Header(m) \in Piece /\ Body(m) \in Piece
                          /\ Place(Header(m)) = 2 * Rank(m) /\ Place(Body(m)) = 2 * Rank(m) + 1
                          /\ Rank(m) \in Nat
  BY RankFacts DEF Header, Body, Piece, Place
<1>2. \A x \in Piece : x = Header(x.of) \/ x = Body(x.of)
  BY DEF Header, Body, Piece
<1>3. \A x \in Piece : x.of \in Sendable => Place(x) \in Nat
  <2> SUFFICES ASSUME NEW x \in Piece, x.of \in Sendable PROVE Place(x) \in Nat  OBVIOUS
  <2>1. Place(x) = 2 * Rank(x.of) \/ Place(x) = 2 * Rank(x.of) + 1  BY <1>1, <1>2
  <2>2. QED  BY <2>1, <1>1
<1>4. ASSUME NEW x \in Piece, NEW y \in Piece, x.of \in Sendable, y.of \in Sendable, Place(x) = Place(y)
      PROVE  x = y
  <2>1. Rank(x.of) \in Nat /\ Rank(y.of) \in Nat  BY <1>1, <1>4
  <2>2. \A i, j \in Nat : (2 * i = 2 * j => i = j) /\ (2 * i + 1 = 2 * j + 1 => i = j) /\ 2 * i # 2 * j + 1
    OBVIOUS
  <2>3. CASE x = Header(x.of) /\ y = Header(y.of)
    <3>1. 2 * Rank(x.of) = 2 * Rank(y.of)  BY <2>3, <1>1, <1>4
    <3>2. x.of = y.of  BY <3>1, <2>1, <2>2, <1>4, RankFacts
    <3>3. QED  BY <2>3, <3>2
  <2>4. CASE x = Body(x.of) /\ y = Body(y.of)
    <3>1. 2 * Rank(x.of) + 1 = 2 * Rank(y.of) + 1  BY <2>4, <1>1, <1>4
    <3>2. x.of = y.of  BY <3>1, <2>1, <2>2, <1>4, RankFacts
    <3>3. QED  BY <2>4, <3>2
  <2>5. CASE x = Header(x.of) /\ y = Body(y.of)
    <3>1. 2 * Rank(x.of) = 2 * Rank(y.of) + 1  BY <2>5, <1>1, <1>4
    <3>2. QED  BY <3>1, <2>1, <2>2
  <2>6. CASE x = Body(x.of) /\ y = Header(y.of)
    <3>1. 2 * Rank(y.of) = 2 * Rank(x.of) + 1  BY <2>6, <1>1, <1>4
    <3>2. QED  BY <3>1, <2>1, <2>2
  <2>7. QED  BY <2>3, <2>4, <2>5, <2>6, <1>2
<1>5. QED  BY <1>1, <1>2, <1>3, <1>4

\* A payload has gone out only with its header; and what is not a phase request
\* has gone out whole.
LEMMA SentFacts ==
  ASSUME NEW wr \in Seq(0..2), NEW s \in Nat, NEW m
  PROVE  /\ Body(m) \in Sent(wr, s) => Header(m) \in Sent(wr, s)
         /\ Header(m) \in Sent(wr, s) =>
               /\ m \in Sendable /\ Rank(m) < s
               /\ Body(m) \notin Sent(wr, s) => m.kind = "PhaseShift" /\ m.n \in DOMAIN wr /\ wr[m.n] = 1
               /\ m.kind = "PhaseShift" => m.n \in DOMAIN wr /\ wr[m.n] # 0
         /\ Body(m) \in Sent(wr, s) /\ m.kind = "PhaseShift" => m.n \in DOMAIN wr /\ wr[m.n] = 2
         /\ m \in Sendable /\ m.kind # "PhaseShift" /\ Rank(m) < s => Header(m) \in Sent(wr, s)
         /\ \A i \in DOMAIN wr : i + 1 < s /\ i \in 1..MaxShifts /\ wr[i] # 0 => Header(Shift(i)) \in Sent(wr, s)
<1>1. Header(m).of = m /\ Header(m).half = "header" /\ Body(m).of = m /\ Body(m).half = "payload"
  BY DEF Header, Body
<1>2. \A x : x \in Sendable => Header(x) \in Piece /\ Body(x) \in Piece  BY PlaceFacts
<1>3. \A i \in DOMAIN wr : wr[i] \in 0..2  OBVIOUS
<1>4. Body(m) \in Sent(wr, s) => Header(m) \in Sent(wr, s)  BY <1>1, <1>2 DEF Sent
<1>5. Header(m) \in Sent(wr, s) => /\ m \in Sendable /\ Rank(m) < s
                                   /\ m.kind = "PhaseShift" => m.n \in DOMAIN wr /\ wr[m.n] # 0
  BY <1>1 DEF Sent
<1>6. ASSUME Header(m) \in Sent(wr, s), Body(m) \notin Sent(wr, s)
      PROVE  m.kind = "PhaseShift" /\ m.n \in DOMAIN wr /\ wr[m.n] = 1
  <2>1. m \in Sendable /\ Rank(m) < s /\ Body(m) \in Piece  BY <1>5, <1>2, <1>6
  <2>2. m.kind = "PhaseShift" /\ ~(m.n \in DOMAIN wr /\ wr[m.n] = 2)
    BY <1>1, <1>5, <1>6, <2>1 DEF Sent
  <2>3. QED  BY <2>2, <1>3, <1>5, <1>6
<1>7. Body(m) \in Sent(wr, s) /\ m.kind = "PhaseShift" => m.n \in DOMAIN wr /\ wr[m.n] = 2
  BY <1>1 DEF Sent
<1>8. m \in Sendable /\ m.kind # "PhaseShift" /\ Rank(m) < s => Header(m) \in Sent(wr, s)
  BY <1>1, <1>2 DEF Sent
<1>9. ASSUME NEW i \in DOMAIN wr, i + 1 < s, i \in 1..MaxShifts, wr[i] # 0
      PROVE  Header(Shift(i)) \in Sent(wr, s)
  <2>1. Shift(i) \in Sendable /\ Rank(Shift(i)) = i + 1 /\ Shift(i).n = i
    BY <1>9, RankFacts DEF Sendable
  <2>2. Header(Shift(i)).of = Shift(i) /\ Header(Shift(i)).half = "header" /\ Header(Shift(i)) \in Piece
    BY <2>1, <1>2 DEF Header
  <2>3. QED  BY <1>9, <2>1, <2>2 DEF Sent
<1>10. QED  BY <1>4, <1>5, <1>6, <1>7, <1>8, <1>9

\* t is s without its first d elements.
Drops(t, s, d) ==
    /\ t \in Seq(Piece) /\ Len(s) = Len(t) + d
    /\ \A i \in 1..Len(t) : t[i] = s[i + d]

\* The first piece on the wire is the first in the order of places, and the
\* rest are after it.
LEMMA FirstFacts ==
  ASSUME NEW wire \in Seq(Piece), NEW t, Drops(t, wire, 1),
         NEW waiting, NEW wr \in Seq(0..2), NEW passed, NEW r, NEW s,
         Reading(wire, waiting, wr, passed, r, s)
  PROVE  /\ wire[1] \in Piece /\ wire[1] \in Sent(wr, s) /\ Place(wire[1]) >= Reached(waiting, r)
         /\ \A x \in Sent(wr, s) : Place(x) >= Reached(waiting, r) => Place(x) >= Place(wire[1])
         /\ \A x \in Piece : (\E i \in DOMAIN t : t[i] = x) <=>
               x \in Sent(wr, s) /\ Place(x) > Place(wire[1])
         /\ \A i, j \in DOMAIN t : i < j => Place(t[i]) < Place(t[j])
<1>1. Len(t) \in Nat /\ Len(wire) = Len(t) + 1 /\ DOMAIN wire = 1..Len(wire) /\ DOMAIN t = 1..Len(t)
  BY DEF Drops
<1>2. \A i \in 1..Len(t) : i + 1 \in 1..Len(wire) /\ i \in Nat /\ t[i] = wire[i + 1]
  BY <1>1 DEF Drops
<1>3. 1 \in 1..Len(wire) /\ \A i \in 1..Len(wire) : wire[i] \in Piece  BY <1>1
<1>4. \A i, j \in 1..Len(wire) : i < j => Place(wire[i]) < Place(wire[j])  BY <1>1 DEF Reading
<1>5. \A x \in Piece : (\E i \in 1..Len(wire) : wire[i] = x) <=> x \in Sent(wr, s) /\ Place(x) >= Reached(waiting, r)
  BY <1>1 DEF Reading
<1>6. \A x \in Sent(wr, s) : x \in Piece /\ x.of \in Sendable /\ Place(x) \in Nat
  BY PlaceFacts DEF Sent
<1>7. wire[1] \in Sent(wr, s) /\ Place(wire[1]) >= Reached(waiting, r)  BY <1>3, <1>5
<1>8. Reached(waiting, r) \in Nat /\ Place(wire[1]) \in Nat
  BY <1>6, <1>7 DEF Reading, Reached
<1>9. ASSUME NEW x \in Sent(wr, s), Place(x) >= Reached(waiting, r)
      PROVE  Place(x) >= Place(wire[1])
  <2>1. PICK i \in 1..Len(wire) : wire[i] = x  BY <1>5, <1>6, <1>9
  <2>2. CASE i = 1  BY <2>1, <2>2, <1>8
  <2>3. CASE i # 1
    <3>1. 1 < i  BY <2>3, <1>1
    <3>2. Place(wire[1]) < Place(wire[i])  BY <3>1, <1>3, <1>4
    <3>3. QED  BY <3>2, <2>1, <1>6, <1>8
  <2>4. QED  BY <2>2, <2>3
<1>10. ASSUME NEW i \in 1..Len(t), NEW j \in 1..Len(t), i < j PROVE Place(t[i]) < Place(t[j])
  <2>1. i + 1 < j + 1  BY <1>2, <1>10
  <2>2. QED  BY <2>1, <1>2, <1>4
<1>11. ASSUME NEW i \in 1..Len(t) PROVE t[i] \in Sent(wr, s) /\ Place(t[i]) > Place(wire[1])
  <2>1. i + 1 \in 1..Len(wire) /\ 1 < i + 1 /\ t[i] = wire[i + 1]  BY <1>2
  <2>2. Place(wire[1]) < Place(wire[i + 1])  BY <2>1, <1>3, <1>4
  <2>3. wire[i + 1] \in Sent(wr, s)  BY <2>1, <1>3, <1>5
  <2>4. QED  BY <2>1, <2>2, <2>3, <1>6, <1>8
<1>12. ASSUME NEW x \in Sent(wr, s), Place(x) > Place(wire[1]) PROVE \E i \in 1..Len(t) : t[i] = x
  <2>1. Place(x) >= Reached(waiting, r)  BY <1>6, <1>7, <1>8, <1>12
  <2>2. PICK i \in 1..Len(wire) : wire[i] = x  BY <2>1, <1>5, <1>6
  <2>3. i # 1  BY <2>2, <1>6, <1>8, <1>12
  <2>4. i - 1 \in 1..Len(t) /\ (i - 1) + 1 = i  BY <2>3, <1>1
  <2>5. QED  BY <2>2, <2>4, <1>2
<1>13. QED  BY <1>1, <1>3, <1>7, <1>9, <1>10, <1>11, <1>12

\* Of two adjacent places nothing is between them.
LEMMA NextPlace ==
  ASSUME NEW m \in Sendable, NEW x \in Piece, x.of \in Sendable
  PROVE  /\ Place(x) > Place(Header(m)) <=> Place(x) >= 2 * Rank(m) + 1
         /\ Place(x) > Place(Body(m)) <=> Place(x) >= 2 * (Rank(m) + 1)
<1>1. Place(x) \in Nat /\ Rank(m) \in Nat
      /\ Place(Header(m)) = 2 * Rank(m) /\ Place(Body(m)) = 2 * Rank(m) + 1
  BY PlaceFacts, RankFacts
<1>2. \A p, q \in Nat : (p > 2 * q <=> p >= 2 * q + 1) /\ (p > 2 * q + 1 <=> p >= 2 * (q + 1))
  OBVIOUS
<1>3. QED  BY <1>1, <1>2

\* The host takes a header: everything before it has been read.
LEMMA TakeHeader ==
  ASSUME NEW wire \in Seq(Piece), NEW t, Drops(t, wire, 1),
         NEW wr \in Seq(0..2), NEW passed, NEW r, NEW s, NEW m,
         Reading(wire, None, wr, passed, r, s), wire[1] = Header(m)
  PROVE  m \in Sendable /\ Reading(t, m, wr, passed, Rank(m), s)
<1>0. /\ wire[1] \in Sent(wr, s) /\ Place(wire[1]) >= Reached(None, r)
      /\ \A x \in Sent(wr, s) : Place(x) >= Reached(None, r) => Place(x) >= Place(wire[1])
      /\ \A x \in Piece : (\E i \in DOMAIN t : t[i] = x) <=> x \in Sent(wr, s) /\ Place(x) > Place(wire[1])
      /\ \A i, j \in DOMAIN t : i < j => Place(t[i]) < Place(t[j])
  BY FirstFacts, Zenon
<1>1. /\ Header(m) \in Sent(wr, s) /\ Place(Header(m)) >= 2 * r
      /\ \A x \in Sent(wr, s) : Place(x) >= 2 * r => Place(x) >= Place(Header(m))
      /\ \A x \in Piece : (\E i \in DOMAIN t : t[i] = x) <=> x \in Sent(wr, s) /\ Place(x) > Place(Header(m))
      /\ \A i, j \in DOMAIN t : i < j => Place(t[i]) < Place(t[j])
  BY <1>0 DEF Reached
<1>2. r \in Nat /\ s \in Nat /\ r <= s  BY DEF Reading
<1>3. m \in Sendable /\ Rank(m) < s /\ Rank(m) \in Nat /\ m # None /\ Place(Header(m)) = 2 * Rank(m)
  BY <1>1, <1>2, SentFacts, RankFacts, PlaceFacts
<1>4. r <= Rank(m)  BY <1>1, <1>2, <1>3
<1>5. \A x \in Sent(wr, s) : x \in Piece /\ x.of \in Sendable  BY DEF Sent
<1>6. \A x \in Piece : (\E i \in DOMAIN t : t[i] = x) <=> x \in Sent(wr, s) /\ Place(x) >= Reached(m, Rank(m))
  <2>1. Reached(m, Rank(m)) = 2 * Rank(m) + 1  BY <1>3 DEF Reached
  <2>2. \A x \in Sent(wr, s) : Place(x) > Place(Header(m)) <=> Place(x) >= 2 * Rank(m) + 1
    BY <1>3, <1>5, NextPlace
  <2>3. QED  BY <1>1, <2>1, <2>2
<1>7. ASSUME NEW i \in DOMAIN wr, i + 1 < Rank(m), ~(i + 1 < r) PROVE wr[i] = 0
  <2>1. i \in 1..Len(wr) /\ Len(wr) \in Nat /\ MaxShifts \in Nat  BY ControlAssumption
  <2>0. m.kind = "PhaseShift" => m.n \in 1..MaxShifts /\ Rank(m) = m.n + 1  BY <1>3, RankFacts
  <2>10. m.kind # "PhaseShift" => Rank(m) < 2  BY <1>3, RankFacts
  <2>2. i + 1 < s /\ i \in 1..MaxShifts  BY <2>0, <2>10, <2>1, <1>2, <1>3, <1>7
  <2>3. SUFFICES ASSUME wr[i] # 0 PROVE FALSE  BY Zenon
  <2>4. Header(Shift(i)) \in Sent(wr, s)  BY <1>2, <2>2, <2>3, SentFacts
  <2>5. Shift(i) \in Sendable /\ Rank(Shift(i)) = i + 1  BY <2>2, RankFacts DEF Sendable
  <2>6. Place(Header(Shift(i))) = 2 * (i + 1)  BY <2>5, PlaceFacts
  <2>7. 2 * (i + 1) >= 2 * r  BY <2>1, <1>2, <1>7
  <2>8. 2 * (i + 1) >= 2 * Rank(m)  BY <2>4, <2>6, <2>7, <1>1, <1>3
  <2>9. QED  BY <2>1, <2>8, <1>3, <1>7
<1>8. \A n \in {1, 2} : Behind(wr, Rank(m), n) = Behind(wr, r, n)
  <2>1. \A i \in DOMAIN wr : i + 1 < r => i + 1 < Rank(m)
    <3>1. \A i \in 1..Len(wr) : i \in Nat  OBVIOUS
    <3>2. QED  BY <3>1, <1>2, <1>3, <1>4
  <2>2. QED  BY <2>1, <1>7 DEF Behind
<1>9. Behind(wr, Rank(m), 1) = {} /\ Cardinality(Behind(wr, Rank(m), 2)) = passed
  BY <1>8 DEF Reading
<1>10. [half |-> "header", of |-> m] \in Sent(wr, s)  BY <1>1 DEF Header
<1>11. Rank(m) <= s  BY <1>2, <1>3
<1>12. QED  BY <1>1, <1>2, <1>3, <1>6, <1>9, <1>10, <1>11 DEF Reading

LEMMA BehindFacts ==
  ASSUME NEW wr \in Seq(0..2), NEW r \in Nat, NEW n
  PROVE  /\ IsFiniteSet(Behind(wr, r, n)) /\ Cardinality(Behind(wr, r, n)) \in Nat
         /\ r <= 2 => Behind(wr, r, n) = {}
         /\ Behind(wr, r + 2, n) = {i \in DOMAIN wr : i <= r /\ wr[i] = n}
<1>1. Behind(wr, r, n) \subseteq 1..Len(wr) /\ Len(wr) \in Nat  BY DEF Behind
<1>2. IsFiniteSet(1..Len(wr))  BY <1>1, FS_Interval
<1>3. IsFiniteSet(Behind(wr, r, n))  BY <1>1, <1>2, FS_Subset
<1>4. \A i \in DOMAIN wr : i \in Nat /\ i >= 1 /\ (i + 1 < r + 2 <=> i <= r)  OBVIOUS
<1>5. QED  BY <1>3, <1>4, FS_CardinalityType DEF Behind

\* The host has the payload it waited for: the message is whole, and if it is a
\* request it is the next of the whole ones.
LEMMA TakePayload ==
  ASSUME NEW wire \in Seq(Piece), NEW t, Drops(t, wire, 1),
         NEW wr \in Seq(0..2), NEW passed \in Nat, NEW r, NEW s, NEW m, m # None,
         Reading(wire, m, wr, passed, r, s), wire[1] = Body(m)
  PROVE  /\ Reading(t, None, wr, Counted(passed, m), r + 1, s)
         /\ m.kind = "PhaseShift" => WholeAt(wr, m.n, passed + 1)
<1>1. /\ wire[1] \in Sent(wr, s) /\ Place(wire[1]) >= Reached(m, r)
      /\ \A x \in Piece : (\E i \in DOMAIN t : t[i] = x) <=> x \in Sent(wr, s) /\ Place(x) > Place(wire[1])
      /\ \A i, j \in DOMAIN t : i < j => Place(t[i]) < Place(t[j])
  BY FirstFacts, Zenon
<1>2. /\ r \in Nat /\ s \in Nat /\ r <= s /\ Header(m) \in Sent(wr, s) /\ Rank(m) = r
      /\ Behind(wr, r, 1) = {} /\ Cardinality(Behind(wr, r, 2)) = passed
  BY DEF Reading, Header
<1>3. m \in Sendable /\ r < s  BY <1>2, SentFacts
<1>4. \A x \in Piece : (\E i \in DOMAIN t : t[i] = x) <=> x \in Sent(wr, s) /\ Place(x) >= Reached(None, r + 1)
  <2>1. \A x \in Sent(wr, s) : x \in Piece /\ x.of \in Sendable  BY DEF Sent
  <2>2. \A x \in Sent(wr, s) : Place(x) > Place(Body(m)) <=> Place(x) >= 2 * (r + 1)
    BY <1>2, <1>3, <2>1, NextPlace
  <2>3. Reached(None, r + 1) = 2 * (r + 1)  BY DEF Reached
  <2>4. QED  BY <1>1, <2>2, <2>3
<1>5. r + 1 \in Nat /\ r + 1 <= s  BY <1>2, <1>3
<1>6. CASE m.kind = "PhaseShift"
  <2>1. m.n \in DOMAIN wr /\ wr[m.n] = 2  BY <1>1, <1>6, <1>2, SentFacts
  <2>2. m.n \in Nat /\ m.n >= 1 /\ r = m.n + 1  BY <1>2, <1>3, <1>6, RankFacts, ControlAssumption
  <2>3. \A i \in DOMAIN wr : i \in Nat /\ (i + 1 < r + 1 <=> i + 1 < r \/ i = m.n) /\ ~(m.n + 1 < r)
    BY <2>2
  <2>4. Behind(wr, r + 1, 2) = Behind(wr, r, 2) \cup {m.n} /\ m.n \notin Behind(wr, r, 2)
    BY <2>1, <2>3 DEF Behind
  <2>5. Behind(wr, r + 1, 1) = {}  BY <1>2, <2>1, <2>3 DEF Behind
  <2>6. Cardinality(Behind(wr, r + 1, 2)) = passed + 1
    BY <1>2, <2>4, BehindFacts, FS_AddElement
  <2>7. r + 1 = m.n + 2  BY <2>2
  <2>8. \A n : Behind(wr, r + 1, n) = {i \in DOMAIN wr : i <= m.n /\ wr[i] = n}
    <3>1. ASSUME NEW n PROVE Behind(wr, m.n + 2, n) = {i \in DOMAIN wr : i <= m.n /\ wr[i] = n}
      BY <2>2, BehindFacts
    <3>2. QED  BY <2>7, <3>1
  <2>9. Reading(t, None, wr, passed + 1, r + 1, s)  BY <1>1, <1>2, <1>4, <1>5, <2>5, <2>6 DEF Reading
  <2>10. QED  BY <1>6, <2>1, <2>5, <2>6, <2>8, <2>9 DEF Counted, WholeAt
<1>7. CASE m.kind # "PhaseShift"
  <2>1. r < 2  BY <1>2, <1>3, <1>7, RankFacts
  <2>2. r <= 2 /\ r + 1 <= 2  BY <1>2, <2>1
  <2>3. \A n : Behind(wr, r + 1, n) = {} /\ Behind(wr, r, n) = {}  BY <1>2, <1>5, <2>2, BehindFacts
  <2>4. Behind(wr, r + 1, 1) = {} /\ Cardinality(Behind(wr, r + 1, 2)) = passed  BY <1>2, <2>3
  <2>5. Reading(t, None, wr, passed, r + 1, s)  BY <1>1, <1>2, <1>4, <1>5, <2>4 DEF Reading
  <2>6. Counted(passed, m) = passed  BY <1>7 DEF Counted
  <2>7. QED  BY <1>7, <2>5, <2>6
<1>8. QED  BY <1>6, <1>7

\* What stands first on the wire between two messages is a header.
LEMMA HeaderFirst ==
  ASSUME NEW wire \in Seq(Piece), NEW t, Drops(t, wire, 1),
         NEW wr \in Seq(0..2), NEW passed, NEW r, NEW s,
         Reading(wire, None, wr, passed, r, s)
  PROVE  wire[1] = Header(wire[1].of)
<1>1. /\ wire[1] \in Piece /\ wire[1] \in Sent(wr, s) /\ Place(wire[1]) >= Reached(None, r)
      /\ \A x \in Sent(wr, s) : Place(x) >= Reached(None, r) => Place(x) >= Place(wire[1])
  BY FirstFacts, Zenon
<1>2. SUFFICES ASSUME wire[1] = Body(wire[1].of) PROVE FALSE  BY <1>1, PlaceFacts
<1> DEFINE m == wire[1].of
<1>3. r \in Nat /\ s \in Nat  BY DEF Reading
<1>4. Header(m) \in Sent(wr, s) /\ m \in Sendable  BY <1>1, <1>2, <1>3, SentFacts
<1>5. Rank(m) \in Nat /\ Place(Header(m)) = 2 * Rank(m) /\ Place(wire[1]) = 2 * Rank(m) + 1
  BY <1>2, <1>4, RankFacts, PlaceFacts
<1>6. Reached(None, r) = 2 * r  BY DEF Reached
<1>7. \A p, q \in Nat : 2 * p + 1 >= 2 * q => 2 * p >= 2 * q  OBVIOUS
<1>8. Place(Header(m)) >= Reached(None, r)  BY <1>1, <1>3, <1>5, <1>6, <1>7
<1>9. Place(Header(m)) >= Place(wire[1])  BY <1>1, <1>4, <1>8
<1>10. QED  BY <1>5, <1>9

\* And what stands where a payload is awaited is that payload, unless the client
\* tore the frame.
LEMMA PayloadFirst ==
  ASSUME NEW wire \in Seq(Piece), NEW t, Drops(t, wire, 1),
         NEW wr \in Seq(0..2), NEW passed, NEW r, NEW s, NEW m, m # None,
         Reading(wire, m, wr, passed, r, s), wire[1] # Body(m)
  PROVE  m.kind = "PhaseShift" /\ m.n \in DOMAIN wr /\ wr[m.n] = 1 /\ m.n <= MaxShifts
<1>1. /\ wire[1] \in Piece /\ wire[1] \in Sent(wr, s) /\ Place(wire[1]) >= Reached(m, r)
      /\ \A x \in Sent(wr, s) : Place(x) >= Reached(m, r) => Place(x) >= Place(wire[1])
  BY FirstFacts, Zenon
<1>2. r \in Nat /\ s \in Nat /\ Header(m) \in Sent(wr, s) /\ Rank(m) = r
  BY DEF Reading, Header
<1>3. m \in Sendable  BY <1>2, SentFacts
<1>4. Place(Body(m)) = Reached(m, r) /\ Reached(m, r) \in Nat /\ Body(m) \in Piece
  BY <1>2, <1>3, PlaceFacts DEF Reached
<1>5. wire[1].of \in Sendable /\ Place(wire[1]) \in Nat  BY <1>1, PlaceFacts DEF Sent
<1>6. Body(m) \notin Sent(wr, s)
  <2> SUFFICES ASSUME Body(m) \in Sent(wr, s) PROVE FALSE  OBVIOUS
  <2>1. Place(Body(m)) >= Place(wire[1])  BY <1>1, <1>4
  <2>2. Place(Body(m)) = Place(wire[1])  BY <1>1, <1>4, <1>5, <2>1
  <2>3. Body(m).of \in Sendable  BY <1>3 DEF Body
  <2>4. Body(m) = wire[1]  BY <1>1, <1>4, <1>5, <2>2, <2>3, PlaceFacts
  <2>5. QED  BY <2>4
<1>7. m.kind = "PhaseShift" /\ m.n \in DOMAIN wr /\ wr[m.n] = 1  BY <1>2, <1>6, SentFacts
<1>8. m.n \in 1..MaxShifts  BY <1>3, <1>7, RankFacts
<1>9. QED  BY <1>7, <1>8, ControlAssumption

\* What a write of n pieces of a frame leaves on the wire.
LEMMA WireAfter ==
  ASSUME NEW wire \in Seq(Piece), NEW m \in Messages, NEW n \in 0..2
  PROVE  /\ Written(wire, m, n) \in Seq(Piece) /\ Len(Written(wire, m, n)) = Len(wire) + n
         /\ \A i \in 1..Len(wire) : Written(wire, m, n)[i] = wire[i]
         /\ n > 0 => Written(wire, m, n)[Len(wire) + 1] = Header(m)
         /\ n = 2 => Written(wire, m, n)[Len(wire) + 2] = Body(m)
<1> DEFINE part == SubSeq(Frame(m), 1, n)
<1>1. Frame(m) \in Seq(Piece) /\ Len(Frame(m)) = 2 /\ Frame(m)[1] = Header(m) /\ Frame(m)[2] = Body(m)
  BY DEF Frame, Piece, Header, Body
<1>2. part \in Seq(Piece) /\ Len(part) = n /\ \A i \in 1..n : part[i] = Frame(m)[i]
  <2>1. \A i \in 1..n : i \in 1..Len(Frame(m)) /\ Frame(m)[i] \in Piece
    <3>1. \A i \in 1..n : i \in 1..Len(Frame(m))  BY <1>1
    <3>2. QED  BY <1>1, <3>1, ElementOfSeq
  <2>2. Len(part) = n /\ part \in Seq(Piece)  BY <2>1, SubSeqProperties
  <2>3. \A i \in 1..(n - 1 + 1) : part[i] = Frame(m)[1 + i - 1]  BY <2>1, SubSeqProperties
  <2>4. QED  BY <2>2, <2>3
<1>3. Written(wire, m, n) = wire \o part  BY DEF Written
<1> HIDE DEF part
<1>4. wire \o part \in Seq(Piece) /\ Len(wire \o part) = Len(wire) + n
  BY <1>2
<1>5. \A i \in 1..Len(wire) : (wire \o part)[i] = wire[i]  BY <1>2
<1>6. \A i \in 1..n : (wire \o part)[Len(wire) + i] = part[i]  BY <1>2
<1>7. n > 0 => 1 \in 1..n  OBVIOUS
<1>8. n = 2 => 2 \in 1..n  OBVIOUS
<1>9. n > 0 => (wire \o part)[Len(wire) + 1] = Header(m)  BY <1>1, <1>2, <1>6, <1>7
<1>10. n = 2 => (wire \o part)[Len(wire) + 2] = Body(m)  BY <1>1, <1>2, <1>6, <1>8
<1>11. QED  BY <1>3, <1>4, <1>5, <1>9, <1>10

\* What has gone out, after one more message of which n pieces have.
SentMore(more, wr, s, m, n) ==
    \A x \in Piece : x \in Sent(more, s + 1) <=>
        x \in Sent(wr, s) \/ (n > 0 /\ x = Header(m)) \/ (n = 2 /\ x = Body(m))

\* The client writes the next frame, or part of it: nothing is behind that was
\* not, and what it wrote comes last.
LEMMA Sends ==
  ASSUME NEW wire \in Seq(Piece), NEW waiting, NEW wr \in Seq(0..2), NEW more \in Seq(0..2),
         NEW passed, NEW r, NEW s, NEW m \in Sendable, NEW n \in 0..2, Rank(m) = s,
         Reading(wire, waiting, wr, passed, r, s),
         SentMore(more, wr, s, m, n), \A k : Behind(more, r, k) = Behind(wr, r, k)
  PROVE  Reading(Written(wire, m, n), waiting, more, passed, r, s + 1)
<1> DEFINE out == Written(wire, m, n)
<1>1. /\ r \in Nat /\ s \in Nat /\ r <= s
      /\ \A i, j \in 1..Len(wire) : i < j => Place(wire[i]) < Place(wire[j])
      /\ \A x \in Piece : (\E i \in 1..Len(wire) : wire[i] = x) <=> x \in Sent(wr, s) /\ Place(x) >= Reached(waiting, r)
      /\ waiting # None => Header(waiting) \in Sent(wr, s) /\ Rank(waiting) = r
      /\ Behind(wr, r, 1) = {} /\ Cardinality(Behind(wr, r, 2)) = passed
  BY DEF Reading, Header
<1>2. /\ out \in Seq(Piece) /\ Len(out) = Len(wire) + n
      /\ \A i \in 1..Len(wire) : out[i] = wire[i]
      /\ n > 0 => out[Len(wire) + 1] = Header(m)
      /\ n = 2 => out[Len(wire) + 2] = Body(m)
  BY WireAfter, RankFacts
<1> HIDE DEF out
<1>3. /\ Header(m) \in Piece /\ Body(m) \in Piece
      /\ Place(Header(m)) = 2 * s /\ Place(Body(m)) = 2 * s + 1
  BY PlaceFacts
<1>4. Len(wire) \in Nat /\ DOMAIN out = 1..Len(out)  BY <1>2
<1>5. \A x \in Sent(wr, s) : Place(x) \in Nat /\ Place(x) < 2 * s
  <2> SUFFICES ASSUME NEW x \in Sent(wr, s) PROVE Place(x) \in Nat /\ Place(x) < 2 * s  OBVIOUS
  <2>1. x \in Piece /\ x.of \in Sendable /\ Rank(x.of) < s  BY DEF Sent
  <2>2. Rank(x.of) \in Nat /\ (Place(x) = 2 * Rank(x.of) \/ Place(x) = 2 * Rank(x.of) + 1)
    BY <2>1, RankFacts, PlaceFacts
  <2>3. \A p, q \in Nat : p < q => 2 * p < 2 * q /\ 2 * p + 1 < 2 * q  OBVIOUS
  <2>4. QED  BY <1>1, <2>1, <2>2, <2>3
<1>6. Reached(waiting, r) \in Nat /\ Reached(waiting, r) <= 2 * s
  <2>1. CASE waiting = None  BY <1>1, <2>1 DEF Reached
  <2>2. CASE waiting # None
    <3>1. waiting \in Sendable /\ Rank(waiting) < s  BY <1>1, <2>2, SentFacts
    <3>2. r < s /\ Reached(waiting, r) = 2 * r + 1  BY <1>1, <2>2, <3>1 DEF Reached
    <3>3. \A p, q \in Nat : p < q => 2 * p + 1 <= 2 * q  OBVIOUS
    <3>4. QED  BY <1>1, <3>2, <3>3
  <2>3. QED  BY <2>1, <2>2
<1>7. \A i \in 1..Len(out) : \/ i \in 1..Len(wire)
                             \/ n > 0 /\ i = Len(wire) + 1
                             \/ n = 2 /\ i = Len(wire) + 2
  BY <1>2, <1>4
<1>8. \A i \in 1..Len(wire) : wire[i] \in Piece /\ wire[i] \in Sent(wr, s) /\ i \in 1..Len(out)
  <2>1. \A i \in 1..Len(wire) : wire[i] \in Piece /\ i \in 1..Len(out)  BY <1>2, <1>4
  <2>2. QED  BY <1>1, <2>1
<1>9. ASSUME NEW i \in 1..Len(out), NEW j \in 1..Len(out), i < j PROVE Place(out[i]) < Place(out[j])
  <2>1. CASE j \in 1..Len(wire)
    <3>1. i \in 1..Len(wire)  BY <2>1, <1>4, <1>9
    <3>2. QED  BY <2>1, <3>1, <1>1, <1>2, <1>9
  <2>2. CASE n > 0 /\ j = Len(wire) + 1
    <3>1. i \in 1..Len(wire)  BY <2>2, <1>4, <1>9
    <3>2. Place(out[i]) < 2 * s  BY <3>1, <1>2, <1>5, <1>8
    <3>3. QED  BY <2>2, <3>2, <1>2, <1>3
  <2>3. CASE n = 2 /\ j = Len(wire) + 2
    <3>1. i \in 1..Len(wire) \/ i = Len(wire) + 1  BY <2>3, <1>4, <1>9
    <3>2. n > 0  BY <2>3
    <3>3. i \in 1..Len(wire) => Place(out[i]) < 2 * s /\ Place(out[i]) \in Nat  BY <1>2, <1>5, <1>8
    <3>4. i = Len(wire) + 1 => Place(out[i]) = 2 * s  BY <3>2, <1>2, <1>3
    <3>5. Place(out[j]) = 2 * s + 1  BY <2>3, <1>2, <1>3
    <3>6. CASE i \in 1..Len(wire)  BY <3>3, <3>5, <3>6, <1>1
    <3>7. CASE i = Len(wire) + 1  BY <3>4, <3>5, <3>7, <1>1
    <3>8. QED  BY <3>1, <3>6, <3>7
  <2>4. QED  BY <1>7, <2>1, <2>2, <2>3
<1>10. ASSUME NEW x \in Piece
       PROVE  (\E i \in 1..Len(out) : out[i] = x) <=> x \in Sent(more, s + 1) /\ Place(x) >= Reached(waiting, r)
  <2>1. n > 0 => Len(wire) + 1 \in 1..Len(out)  BY <1>2, <1>4
  <2>2. n = 2 => Len(wire) + 2 \in 1..Len(out)  BY <1>2, <1>4
  <2>3. (\E i \in 1..Len(out) : out[i] = x) <=>
          (\E i \in 1..Len(wire) : wire[i] = x) \/ (n > 0 /\ x = Header(m)) \/ (n = 2 /\ x = Body(m))
    BY <1>2, <1>7, <1>8, <2>1, <2>2
  <2>4. Place(Header(m)) >= Reached(waiting, r) /\ Place(Body(m)) >= Reached(waiting, r)
    BY <1>1, <1>3, <1>6
  <2>5. x \in Sent(more, s + 1) <=>
          x \in Sent(wr, s) \/ (n > 0 /\ x = Header(m)) \/ (n = 2 /\ x = Body(m))
    BY DEF SentMore
  <2>6. QED  BY <1>1, <2>3, <2>4, <2>5
<1>11. waiting # None => Header(waiting) \in Sent(more, s + 1) /\ Rank(waiting) = r
  <2>1. Sent(wr, s) \subseteq Piece  BY DEF Sent
  <2>2. QED  BY <1>1, <2>1 DEF SentMore
<1>12. s + 1 \in Nat /\ r <= s + 1  BY <1>1
<1>13. Behind(more, r, 1) = {} /\ Cardinality(Behind(more, r, 2)) = passed  BY <1>1
<1>14. QED  BY <1>1, <1>4, <1>9, <1>10, <1>11, <1>12, <1>13 DEF Reading, Header, out

\* The first two messages leave the requests alone.
LEMMA SentGreeting ==
  ASSUME NEW wr \in Seq(0..2), NEW s \in Nat, NEW m \in Sendable, Rank(m) = s, m.kind # "PhaseShift"
  PROVE  SentMore(wr, wr, s, m, 2)
<1> SUFFICES ASSUME NEW x \in Piece
             PROVE  x \in Sent(wr, s + 1) <=> x \in Sent(wr, s) \/ x = Header(m) \/ x = Body(m)
  BY DEF SentMore
<1>1. x.of \in Sendable => (Rank(x.of) < s + 1 <=> Rank(x.of) < s \/ x.of = m)
  <2>1. x.of \in Sendable => (Rank(x.of) < s + 1 <=> Rank(x.of) < s \/ Rank(x.of) = s)
    BY RankFacts
  <2>2. ~(Rank(m) < s)  OBVIOUS
  <2>3. QED  BY <2>1, RankFacts
<1>2. x.of = m <=> x = Header(m) \/ x = Body(m)  BY PlaceFacts DEF Header, Body
<1>3. QED  BY <1>1, <1>2 DEF Sent

\* A request adds what went out of it.
LEMMA SentShift ==
  ASSUME NEW wr \in Seq(0..2), NEW n \in 0..2, Len(wr) + 1 \in 1..MaxShifts
  PROVE  /\ SentMore(Append(wr, n), wr, Len(wr) + 2, Shift(Len(wr) + 1), n)
         /\ \A r \in Nat : \A k : r <= Len(wr) + 2 => Behind(Append(wr, n), r, k) = Behind(wr, r, k)
<1> DEFINE more == Append(wr, n)
           m == Shift(Len(wr) + 1)
           s == Len(wr) + 2
<1>1. Len(wr) \in Nat /\ s \in Nat  OBVIOUS
<1>2. /\ DOMAIN more = 1..(Len(wr) + 1) /\ DOMAIN wr = 1..Len(wr)
      /\ \A i \in 1..Len(wr) : more[i] = wr[i]
      /\ more[Len(wr) + 1] = n
  OBVIOUS
<1>3. m \in Sendable /\ Rank(m) = s /\ m.kind = "PhaseShift" /\ m.n = Len(wr) + 1
  BY <1>1, RankFacts DEF Sendable
<1> HIDE DEF more, m, s
<1>4. ASSUME NEW x \in Piece
      PROVE  x \in Sent(more, s + 1) <=>
                x \in Sent(wr, s) \/ (n > 0 /\ x = Header(m)) \/ (n = 2 /\ x = Body(m))
  <2>1. x.of \in Sendable => (Rank(x.of) < s + 1 <=> Rank(x.of) < s \/ x.of = m)
    <3>1. x.of \in Sendable => (Rank(x.of) < s + 1 <=> Rank(x.of) < s \/ Rank(x.of) = s)
      BY <1>1, RankFacts
    <3>2. ~(Rank(m) < s)  BY <1>1, <1>3
    <3>3. QED  BY <1>3, <3>1, <3>2, RankFacts
  <2>2. x.of = m <=> x = Header(m) \/ x = Body(m)  BY PlaceFacts DEF Header, Body
  <2>3. x.half \in {"header", "payload"}  BY DEF Piece
  <2>4. CASE x.of = m
    <3>1. x \notin Sent(wr, s)  BY <2>4, <1>1, <1>3 DEF Sent
    <3>2. x \in Sent(more, s + 1) <=> n # 0 /\ (x.half = "payload" => n = 2)
      <4>1. m.n \in DOMAIN more /\ more[m.n] = n  BY <1>1, <1>2, <1>3
      <4>2. QED  BY <2>1, <2>4, <4>1, <1>3 DEF Sent
    <3>3. x = Header(m) <=> x.half = "header"  BY <2>2, <2>4 DEF Header, Body
    <3>4. x = Body(m) <=> x.half = "payload"  BY <2>2, <2>4 DEF Header, Body
    <3>5. n > 0 <=> n # 0  OBVIOUS
    <3>6. n = 2 => n > 0  OBVIOUS
    <3>7. QED  BY <2>3, <3>1, <3>2, <3>3, <3>4, <3>5, <3>6
  <2>5. CASE x.of # m
    <3>1. x # Header(m) /\ x # Body(m)  BY <2>2, <2>5
    <3>2. x.of \in Sendable /\ x.of.kind = "PhaseShift" /\ x.of.n \in DOMAIN more => x.of.n \in DOMAIN wr
      <4>1. x.of \in Sendable /\ x.of.kind = "PhaseShift" => x.of = Shift(x.of.n)  BY RankFacts
      <4>2. x.of \in Sendable /\ x.of.kind = "PhaseShift" => x.of.n # Len(wr) + 1
        BY <4>1, <2>5 DEF m
      <4>3. \A i \in DOMAIN more : i # Len(wr) + 1 => i \in DOMAIN wr  BY <1>1, <1>2
      <4>4. QED  BY <4>2, <4>3
    <3>3. \A i \in DOMAIN wr : i \in DOMAIN more /\ more[i] = wr[i]  BY <1>1, <1>2
    <3>4. QED  BY <2>1, <2>5, <3>1, <3>2, <3>3 DEF Sent
  <2>6. QED  BY <2>4, <2>5
<1>5. ASSUME NEW r \in Nat, NEW k, r <= s PROVE Behind(more, r, k) = Behind(wr, r, k)
  <2>1. \A i \in DOMAIN more : i + 1 < r => i \in DOMAIN wr  BY <1>1, <1>2, <1>5 DEF s
  <2>2. \A i \in DOMAIN wr : i \in DOMAIN more /\ more[i] = wr[i]  BY <1>1, <1>2
  <2>3. QED  BY <2>1, <2>2 DEF Behind
<1>6. QED  BY <1>4, <1>5 DEF SentMore, more, m, s

-----------------------------------------------------------------------------
\* The ways a poll can end, that left left of what was on the wire: with what
\* the read after it gave; with a header behind it as well; with a message; with
\* something else where a header or a payload should be.
Polled(w, wire, p, end) ==
    \/ p.reader = w /\ Drops(p.left, wire, 0) /\ p.got = end
    \/ /\ w = None /\ Len(wire) >= 1 /\ wire[1].half = "header"
       /\ p.reader = wire[1].of /\ Drops(p.left, wire, 1) /\ p.got = end
    \/ /\ w # None /\ Len(wire) >= 1 /\ wire[1] = Body(w)
       /\ p.reader = None /\ Drops(p.left, wire, 1) /\ p.got = w
    \/ /\ w = None /\ Len(wire) >= 2 /\ wire[1].half = "header" /\ wire[2] = Body(wire[1].of)
       /\ p.reader = None /\ Drops(p.left, wire, 2) /\ p.got = wire[1].of
    \/ /\ p.got = Broken /\ Len(wire) >= 1
       /\ \/ w # None /\ wire[1] # Body(w)
          \/ w = None /\ wire[1].half # "header"
          \/ w = None /\ Len(wire) >= 2 /\ wire[1].half = "header" /\ wire[2] # Body(wire[1].of)

LEMMA TailDrops ==
  /\ \A wire \in Seq(Piece) : Drops(wire, wire, 0)
  /\ \A wire \in Seq(Piece) : wire # <<>> =>
        Drops(Tail(wire), wire, 1) /\ Head(wire) = wire[1] /\ Len(wire) >= 1
  /\ \A wire \in Seq(Piece) : wire # <<>> /\ Tail(wire) # <<>> =>
        Drops(Tail(Tail(wire)), wire, 2) /\ Tail(wire)[1] = wire[2] /\ Len(wire) >= 2
<1>1. ASSUME NEW wire \in Seq(Piece) PROVE Drops(wire, wire, 0)  BY DEF Drops
<1>2. ASSUME NEW wire \in Seq(Piece), wire # <<>>
      PROVE  Drops(Tail(wire), wire, 1) /\ Head(wire) = wire[1] /\ Len(wire) >= 1
  BY <1>2, TailFacts DEF Drops
<1>3. ASSUME NEW wire \in Seq(Piece), wire # <<>>, Tail(wire) # <<>>
      PROVE  Drops(Tail(Tail(wire)), wire, 2) /\ Tail(wire)[1] = wire[2] /\ Len(wire) >= 2
  <2> DEFINE t == Tail(wire)
             u == Tail(t)
  <2>1. t \in Seq(Piece) /\ Len(wire) = Len(t) + 1 /\ \A i \in 1..Len(t) : t[i] = wire[i + 1]
    BY <1>3, TailFacts
  <2>2. t # <<>>  BY <1>3
  <2> HIDE DEF t
  <2>3. /\ u \in Seq(Piece) /\ Len(t) = Len(u) + 1 /\ 1 \in 1..Len(t)
        /\ \A i \in 1..Len(u) : i + 1 \in 1..Len(t) /\ u[i] = t[i + 1]
    BY <2>1, <2>2, TailFacts
  <2> HIDE DEF u
  <2>4. Len(u) \in Nat /\ \A i \in 1..Len(u) : (i + 1) + 1 = i + 2  BY <2>3
  <2>5. Drops(u, wire, 2)  BY <2>1, <2>3, <2>4 DEF Drops
  <2>6. t[1] = wire[2] /\ Len(wire) >= 2  BY <2>1, <2>3, <2>4
  <2>7. QED  BY <2>5, <2>6 DEF t, u
<1>4. QED  BY <1>1, <1>2, <1>3

LEMMA PollOutcome ==
  ASSUME NEW w \in Messages \cup {None}, NEW wire \in Seq(Piece), NEW end
  PROVE  Polled(w, wire, Poll(w, wire, end), end)
<1> DEFINE p == Poll(w, wire, end)
<1>1. \A m : Frame(m)[2] = Body(m)  BY DEF Frame, Body
<1>2. CASE w # None
  <2>1. p = Payload(w, wire, end)  BY <1>2 DEF Poll
  <2>2. CASE wire = <<>>
    <3>1. p = [reader |-> w, left |-> wire, got |-> end]  BY <2>1, <2>2 DEF Payload
    <3>2. QED  BY <3>1, TailDrops DEF Polled
  <2>3. CASE wire # <<>> /\ Head(wire) = Body(w)
    <3>1. p = [reader |-> None, left |-> Tail(wire), got |-> w]  BY <1>1, <2>1, <2>3 DEF Payload
    <3>2. QED  BY <1>2, <2>3, <3>1, TailDrops DEF Polled
  <2>4. CASE wire # <<>> /\ Head(wire) # Body(w)
    <3>1. p = [reader |-> None, left |-> Tail(wire), got |-> Broken]  BY <1>1, <2>1, <2>4 DEF Payload
    <3>2. QED  BY <1>2, <2>4, <3>1, TailDrops DEF Polled
  <2>5. QED  BY <2>2, <2>3, <2>4
<1>3. CASE w = None /\ wire = <<>>
  <2>1. p = [reader |-> None, left |-> wire, got |-> end]  BY <1>3 DEF Poll
  <2>2. p.reader = w /\ Drops(p.left, wire, 0) /\ p.got = end
    <3>1. p.reader = w /\ p.left = wire /\ p.got = end  BY <1>3, <2>1
    <3>2. QED  BY <3>1, TailDrops
  <2>3. QED  BY <2>2 DEF Polled
<1>4. CASE w = None /\ wire # <<>> /\ Head(wire).half = "header"
  <2> DEFINE t == Tail(wire)
             m == Head(wire).of
  <2>1. p = Payload(m, t, end)  BY <1>4 DEF Poll
  <2>2. /\ t \in Seq(Piece) /\ Drops(t, wire, 1) /\ Head(wire) = wire[1] /\ Len(wire) >= 1
        /\ t # <<>> => Drops(Tail(t), wire, 2) /\ t[1] = wire[2] /\ Len(wire) >= 2 /\ Head(t) = t[1]
    BY <1>4, TailDrops, TailFacts
  <2> HIDE DEF t
  <2>3. CASE t = <<>>
    <3>1. p = [reader |-> m, left |-> t, got |-> end]  BY <2>1, <2>3 DEF Payload
    <3>2. QED  BY <1>4, <2>2, <3>1 DEF Polled
  <2>4. CASE t # <<>> /\ Head(t) = Body(m)
    <3>1. p = [reader |-> None, left |-> Tail(t), got |-> m]  BY <1>1, <2>1, <2>4 DEF Payload
    <3>2. QED  BY <1>4, <2>2, <2>4, <3>1 DEF Polled
  <2>5. CASE t # <<>> /\ Head(t) # Body(m)
    <3>1. p = [reader |-> None, left |-> Tail(t), got |-> Broken]  BY <1>1, <2>1, <2>5 DEF Payload
    <3>2. QED  BY <1>4, <2>2, <2>5, <3>1 DEF Polled
  <2>6. QED  BY <2>3, <2>4, <2>5
<1>5. CASE w = None /\ wire # <<>> /\ Head(wire).half # "header"
  <2>1. p = [reader |-> None, left |-> Tail(wire), got |-> Broken]  BY <1>5 DEF Poll
  <2>2. QED  BY <1>5, <2>1, TailDrops DEF Polled
<1>6. QED  BY <1>2, <1>3, <1>4, <1>5

\* The part of the wire that had not arrived stays where it is.
LEMMA DropsMore ==
  ASSUME NEW wire \in Seq(Piece), NEW k \in 0..Len(wire), NEW left, NEW d \in Nat,
         Drops(left, SubSeq(wire, 1, k), d)
  PROVE  Drops(left \o SubSeq(wire, k + 1, Len(wire)), wire, d)
<1> DEFINE seen == SubSeq(wire, 1, k)
           rest == SubSeq(wire, k + 1, Len(wire))
<1>1. Len(seen) = k /\ \A i \in 1..k : seen[i] = wire[i]  OBVIOUS
<1>2. rest \in Seq(Piece) /\ Len(rest) = Len(wire) - k /\ \A i \in 1..Len(rest) : rest[i] = wire[i + k]
  OBVIOUS
<1>3. left \in Seq(Piece) /\ k = Len(left) + d /\ \A i \in 1..Len(left) : left[i] = seen[i + d]
  BY <1>1 DEF Drops
<1> HIDE DEF seen, rest
<1>4. left \o rest \in Seq(Piece) /\ Len(left \o rest) = Len(left) + Len(rest)
      /\ Len(left) \in Nat /\ Len(rest) \in Nat /\ Len(wire) \in Nat
  BY <1>2, <1>3
<1>5. ASSUME NEW i \in 1..Len(left \o rest) PROVE (left \o rest)[i] = wire[i + d]
  <2>1. CASE i <= Len(left)
    <3>1. i \in 1..Len(left) /\ i + d \in 1..k  BY <2>1, <1>3, <1>4
    <3>2. (left \o rest)[i] = left[i]  BY <3>1, <1>2, <1>3
    <3>3. QED  BY <3>1, <3>2, <1>1, <1>3
  <2>2. CASE i > Len(left)
    <3>1. i - Len(left) \in 1..Len(rest)  BY <2>2, <1>4
    <3>2. (left \o rest)[i] = rest[i - Len(left)]  BY <3>1, <2>2, <1>2, <1>3, <1>4
    <3>3. (i - Len(left)) + k = i + d  BY <1>3, <1>4
    <3>4. QED  BY <3>1, <3>2, <3>3, <1>2
  <2>3. QED  BY <2>1, <2>2, <1>4
<1>6. Len(wire) = Len(left \o rest) + d  BY <1>2, <1>3, <1>4
<1>7. QED  BY <1>4, <1>5, <1>6 DEF Drops, rest

\* next_message ends one of those ways, over the whole of the wire; and it finds
\* the end of the stream only when the client is gone from it.
LEMMA NextMessageOutcome ==
  ASSUME ControlTypeOK, NEW c \in Conns, NEW k \in 0..Len(up[c])
  PROVE  \E end \in {Nothing, Broken} :
            /\ Polled(reader[c], up[c], NextMessage(c, k), end)
            /\ end = Broken => "client" \in closed[c]
<1> DEFINE whole == k = Len(up[c]) /\ "client" \in closed[c]
           end == IF whole THEN Broken ELSE Nothing
           wire == up[c]
           w == reader[c]
           seen == SubSeq(wire, 1, k)
           rest == SubSeq(wire, k + 1, Len(wire))
           q == Poll(w, seen, end)
           p == NextMessage(c, k)
<1>1. wire \in Seq(Piece) /\ w \in Messages \cup {None}  BY DEF ControlTypeOK
<1>2. seen \in Seq(Piece) /\ Len(seen) = k /\ Len(wire) \in Nat /\ \A i \in 1..k : seen[i] = wire[i]  BY <1>1
<1>3. end \in {Nothing, Broken} /\ (end = Broken => "client" \in closed[c])
  BY DEF Nothing, Broken, Message
<1>4. Polled(w, seen, q, end)  BY <1>1, <1>2, PollOutcome
<1>5. p = [q EXCEPT !.left = @ \o rest]  BY DEF NextMessage
<1>6. p.reader = q.reader /\ p.got = q.got /\ p.left = q.left \o rest
  <2>1. DOMAIN q = {"reader", "left", "got"}  BY DEF Poll, Payload
  <2>2. QED  BY <1>5, <2>1
<1>7. \A d \in {0, 1, 2} : Drops(q.left, seen, d) => Drops(p.left, wire, d)
  BY <1>1, <1>6, DropsMore
<1>8. \A n \in {1, 2} : Len(seen) >= n => Len(wire) >= n /\ seen[n] = wire[n]
  BY <1>2
<1> HIDE DEF wire, w, seen, q, p, end
<1>9. Polled(w, wire, p, end)
  <2>1. CASE q.reader = w /\ Drops(q.left, seen, 0) /\ q.got = end
    BY <2>1, <1>6, <1>7 DEF Polled
  <2>2. CASE /\ w = None /\ Len(seen) >= 1 /\ seen[1].half = "header"
             /\ q.reader = seen[1].of /\ Drops(q.left, seen, 1) /\ q.got = end
    BY <2>2, <1>6, <1>7, <1>8 DEF Polled
  <2>3. CASE /\ w # None /\ Len(seen) >= 1 /\ seen[1] = Body(w)
             /\ q.reader = None /\ Drops(q.left, seen, 1) /\ q.got = w
    BY <2>3, <1>6, <1>7, <1>8 DEF Polled
  <2>4. CASE /\ w = None /\ Len(seen) >= 2 /\ seen[1].half = "header" /\ seen[2] = Body(seen[1].of)
             /\ q.reader = None /\ Drops(q.left, seen, 2) /\ q.got = seen[1].of
    <3>1. Len(seen) >= 1 /\ seen[1] = wire[1] /\ seen[2] = wire[2] /\ Len(wire) >= 2  BY <2>4, <1>2, <1>8
    <3>2. QED  BY <2>4, <3>1, <1>6, <1>7 DEF Polled
  <2>5. CASE /\ q.got = Broken /\ Len(seen) >= 1
             /\ \/ w # None /\ seen[1] # Body(w)
                \/ w = None /\ seen[1].half # "header"
                \/ w = None /\ Len(seen) >= 2 /\ seen[1].half = "header" /\ seen[2] # Body(seen[1].of)
    BY <2>5, <1>6, <1>8 DEF Polled
  <2>6. QED  BY <1>4, <2>1, <2>2, <2>3, <2>4, <2>5 DEF Polled
<1>10. QED  BY <1>3, <1>9 DEF wire, w, p

\* What a poll does to a connection that is read in order.
LEMMA HostReads ==
  ASSUME NEW w \in Messages \cup {None}, NEW wire \in Seq(Piece), NEW p, NEW end,
         NEW wr \in Seq(0..2), NEW passed \in Nat, NEW r, NEW s,
         Polled(w, wire, p, end), Reading(wire, w, wr, passed, r, s)
  PROVE  \/ p.got = end /\ \E q \in Nat : Reading(p.left, p.reader, wr, passed, q, s)
         \/ /\ p.got \in Sendable
            /\ \E q \in Nat :
                 Reading(p.left, p.reader, wr, Counted(passed, p.got), q, s)
            /\ p.got.kind = "PhaseShift" => WholeAt(wr, p.got.n, passed + 1)
         \/ p.got = Broken /\ TornSome(wr)
<1>1. r \in Nat /\ s \in Nat  BY DEF Reading
<1>2. \A q \in Nat : q + 1 \in Nat  OBVIOUS
<1>3. Len(wire) >= 1 => wire # <<>> /\ Drops(Tail(wire), wire, 1) /\ wire[1] \in Piece
  BY TailDrops, TailFacts
<1>4. w = None /\ Len(wire) >= 1 =>
        /\ wire[1] = Header(wire[1].of) /\ wire[1].half = "header"
        /\ wire[1].of \in Sendable /\ wire[1].of # None /\ Rank(wire[1].of) \in Nat
        /\ \A t : Drops(t, wire, 1) => Reading(t, wire[1].of, wr, passed, Rank(wire[1].of), s)
  <2> SUFFICES ASSUME w = None, Len(wire) >= 1
               PROVE  /\ wire[1] = Header(wire[1].of) /\ wire[1].half = "header"
                      /\ wire[1].of \in Sendable /\ wire[1].of # None /\ Rank(wire[1].of) \in Nat
                      /\ \A t : Drops(t, wire, 1) => Reading(t, wire[1].of, wr, passed, Rank(wire[1].of), s)
    OBVIOUS
  <2>1. wire[1] = Header(wire[1].of)  BY <1>3, HeaderFirst
  <2>2. \A t : Drops(t, wire, 1) =>
          wire[1].of \in Sendable /\ Reading(t, wire[1].of, wr, passed, Rank(wire[1].of), s)
    BY <2>1, TakeHeader
  <2>3. wire[1].of \in Sendable  BY <1>3, <2>2
  <2>4. wire[1].half = "header"  BY <2>1 DEF Header
  <2>5. QED  BY <2>1, <2>2, <2>3, <2>4, RankFacts
<1>5. ASSUME NEW x \in Seq(Piece), NEW m \in Sendable, NEW q \in Nat, NEW t, Drops(t, x, 1),
             Reading(x, m, wr, passed, q, s), x[1] = Body(m), p.got = m, p.left = t, p.reader = None
      PROVE  /\ p.got \in Sendable
             /\ \E z \in Nat :
                 Reading(p.left, p.reader, wr, Counted(passed, p.got), z, s)
             /\ p.got.kind = "PhaseShift" => WholeAt(wr, p.got.n, passed + 1)
  <2>1. m # None  BY RankFacts
  <2>0. Drops(t, x, 1) /\ Reading(x, m, wr, passed, q, s) /\ x[1] = Body(m)  BY <1>5
  <2>2. /\ Reading(t, None, wr, Counted(passed, m), q + 1, s)
        /\ m.kind = "PhaseShift" => WholeAt(wr, m.n, passed + 1)
    BY <2>0, <2>1, TakePayload
  <2>3. q + 1 \in Nat  OBVIOUS
  <2>4. QED  BY <1>5, <2>2, <2>3
<1>6. w # None => w \in Sendable
  <2>1. w # None => Header(w) \in Sent(wr, s)  BY DEF Reading, Header
  <2>2. QED  BY <1>1, <2>1, SentFacts
<1>7. CASE p.reader = w /\ Drops(p.left, wire, 0) /\ p.got = end
  <2>1. p.left = wire  BY <1>7 DEF Drops
  <2>2. QED  BY <1>1, <1>7, <2>1
<1>8. CASE /\ w = None /\ Len(wire) >= 1 /\ wire[1].half = "header"
           /\ p.reader = wire[1].of /\ Drops(p.left, wire, 1) /\ p.got = end
  <2>1. Reading(p.left, p.reader, wr, passed, Rank(wire[1].of), s)  BY <1>4, <1>8
  <2>2. QED  BY <1>4, <1>8, <2>1
<1>9. CASE /\ w # None /\ Len(wire) >= 1 /\ wire[1] = Body(w)
           /\ p.reader = None /\ Drops(p.left, wire, 1) /\ p.got = w
  <2>1. w \in Sendable  BY <1>6, <1>9
  <2>2. QED  BY <1>1, <1>5, <1>9, <2>1
<1>10. CASE /\ w = None /\ Len(wire) >= 2 /\ wire[1].half = "header" /\ wire[2] = Body(wire[1].of)
            /\ p.reader = None /\ Drops(p.left, wire, 2) /\ p.got = wire[1].of
  <2> DEFINE t == Tail(wire)
             m == wire[1].of
  <2>1. Len(wire) \in Nat /\ Len(wire) >= 1  BY <1>10
  <2>2. Drops(t, wire, 1) /\ m \in Sendable /\ Rank(m) \in Nat /\ Reading(t, m, wr, passed, Rank(m), s)
    BY <1>3, <1>4, <1>10, <2>1
  <2> HIDE DEF t
  <2>3. t \in Seq(Piece) /\ Len(t) \in Nat /\ Len(wire) = Len(t) + 1
        /\ \A i \in 1..Len(t) : t[i] = wire[i + 1]
    BY <2>2 DEF Drops
  <2>4. t[1] = Body(m)
    <3>1. 1 \in 1..Len(t)  BY <1>10, <2>3
    <3>2. t[1] = wire[1 + 1]  BY <2>3, <3>1
    <3>3. QED  BY <1>10, <3>2
  <2>5. Drops(p.left, t, 1)
    <3>1. p.left \in Seq(Piece) /\ Len(wire) = Len(p.left) + 2 /\ Len(p.left) \in Nat
          /\ \A i \in 1..Len(p.left) : p.left[i] = wire[i + 2]
      BY <1>10 DEF Drops
    <3>2. Len(t) = Len(p.left) + 1  BY <2>3, <3>1
    <3>3. \A i \in 1..Len(p.left) : i + 1 \in 1..Len(t) /\ (i + 1) + 1 = i + 2  BY <3>1, <3>2
    <3>4. QED  BY <2>3, <3>1, <3>2, <3>3 DEF Drops
  <2>6. p.got = m  BY <1>10
  <2>7. QED  BY <1>5, <1>10, <2>2, <2>3, <2>4, <2>5, <2>6
<1>11. CASE /\ p.got = Broken /\ Len(wire) >= 1
            /\ \/ w # None /\ wire[1] # Body(w)
               \/ w = None /\ wire[1].half # "header"
               \/ w = None /\ Len(wire) >= 2 /\ wire[1].half = "header" /\ wire[2] # Body(wire[1].of)
  <2>1. CASE w # None /\ wire[1] # Body(w)
    <3>1. w.kind = "PhaseShift" /\ w.n \in DOMAIN wr /\ wr[w.n] = 1 /\ w.n <= MaxShifts
      BY <1>3, <1>11, <2>1, PayloadFirst
    <3>2. QED  BY <1>11, <3>1 DEF TornSome
  <2>2. CASE w = None /\ wire[1].half # "header"  BY <1>4, <1>11, <2>2
  <2>3. CASE w = None /\ Len(wire) >= 2 /\ wire[2] # Body(wire[1].of)
    <3> DEFINE t == Tail(wire)
               m == wire[1].of
    <3>1. Drops(t, wire, 1) /\ m # None /\ Reading(t, m, wr, passed, Rank(m), s)
      BY <1>3, <1>4, <1>11, <2>3
    <3> HIDE DEF t
    <3>2. t \in Seq(Piece) /\ Len(t) \in Nat /\ Len(wire) = Len(t) + 1
          /\ \A i \in 1..Len(t) : t[i] = wire[i + 1]
      BY <3>1 DEF Drops
    <3>3. 1 \in 1..Len(t) /\ t # <<>>  BY <2>3, <3>2
    <3>4. t[1] # Body(m)
      <4>1. t[1] = wire[1 + 1]  BY <3>2, <3>3
      <4>2. QED  BY <2>3, <4>1
    <3>5. Drops(Tail(t), t, 1)  BY <3>2, <3>3, TailDrops
    <3>6. m.kind = "PhaseShift" /\ m.n \in DOMAIN wr /\ wr[m.n] = 1 /\ m.n <= MaxShifts
      BY <3>1, <3>2, <3>4, <3>5, PayloadFirst
    <3>7. QED  BY <1>11, <3>6 DEF TornSome
  <2>4. QED  BY <1>11, <2>1, <2>2, <2>3
<1>12. QED  BY <1>7, <1>8, <1>9, <1>10, <1>11 DEF Polled

-----------------------------------------------------------------------------
\* A step that leaves a connection alone.
LEMMA Untouched ==
  ASSUME NEW d \in Conns, InOrder(d),
         client'[d] = client[d], written'[d] = written[d], up'[d] = up[d], closed'[d] = closed[d],
         host'[d] = host[d], reader'[d] = reader[d], heard'[d] = heard[d],
         d \in streaming' => d \in streaming
  PROVE  InOrder(d)'
BY DEF InOrder

\* The client's writes keep the two ends agreed.
LEMMA AgreeGreets ==
  ASSUME NEW wr \in Seq(0..2), NEW wire \in Seq(Piece), NEW waiting, NEW passed,
         NEW at, NEW to, NEW m \in Sendable, m.kind # "PhaseShift",
         \/ at = "hello" /\ to = "greeting" /\ Rank(m) = 0
         \/ at = "prepared" /\ to = "running" /\ Rank(m) = 1,
         Agree(at, wr, wire, waiting, passed)
  PROVE  Agree(to, wr, Written(wire, m, 2), waiting, passed)
<1>1. PICK r \in Nat, s \in Nat : Started(at, wr, s) /\ Reading(wire, waiting, wr, passed, r, s)
  BY DEF Agree
<1>2. Rank(m) = s /\ s < 2 /\ Len(wr) = 0  BY <1>1 DEF Started
<1>3. Reading(Written(wire, m, 2), waiting, wr, passed, r, s + 1)
  <2>1. SentMore(wr, wr, s, m, 2)  BY <1>2, SentGreeting
  <2>2. 2 \in 0..2 /\ \A k : Behind(wr, r, k) = Behind(wr, r, k)  OBVIOUS
  <2>3. QED  BY <1>1, <1>2, <2>1, <2>2, Sends
<1>4. Started(to, wr, s + 1) /\ s + 1 \in Nat  BY <1>1, <1>2 DEF Started
<1>5. QED  BY <1>3, <1>4 DEF Agree

LEMMA AgreeAsks ==
  ASSUME NEW wr \in Seq(0..2), NEW wire \in Seq(Piece), NEW waiting, NEW passed, NEW n \in 0..2,
         Len(wr) < MaxShifts, Agree("running", wr, wire, waiting, passed)
  PROVE  Agree("running", Append(wr, n), Written(wire, Shift(Len(wr) + 1), n), waiting, passed)
<1>1. PICK r \in Nat, s \in Nat : Started("running", wr, s) /\ Reading(wire, waiting, wr, passed, r, s)
  BY DEF Agree
<1>2. Len(wr) \in Nat /\ s = Len(wr) + 2 /\ Len(wr) + 1 \in 1..MaxShifts
  BY <1>1, ControlAssumption DEF Started
<1>3. Shift(Len(wr) + 1) \in Sendable /\ Rank(Shift(Len(wr) + 1)) = s
  BY <1>2, RankFacts DEF Sendable
<1>4. r <= s  BY <1>1 DEF Reading
<1>5. /\ SentMore(Append(wr, n), wr, s, Shift(Len(wr) + 1), n)
      /\ \A k : Behind(Append(wr, n), r, k) = Behind(wr, r, k)
  BY <1>2, <1>4, SentShift
<1>6. Append(wr, n) \in Seq(0..2) /\ Len(Append(wr, n)) = Len(wr) + 1  OBVIOUS
<1>7. Reading(Written(wire, Shift(Len(wr) + 1), n), waiting, Append(wr, n), passed, r, s + 1)
  BY <1>1, <1>3, <1>5, <1>6, Sends
<1>8. Started("running", Append(wr, n), s + 1) /\ s + 1 \in Nat  BY <1>2, <1>6 DEF Started
<1>9. QED  BY <1>7, <1>8 DEF Agree

\* A request more changes nothing about those before it.
LEMMA AsksLater ==
  ASSUME NEW wr \in Seq(0..2), NEW n \in 0..2
  PROVE  /\ \A h : HeardWhole(wr, h) => HeardWhole(Append(wr, n), h)
         /\ TornSome(wr) => TornSome(Append(wr, n))
<1> DEFINE more == Append(wr, n)
<1>1. /\ Len(wr) \in Nat /\ DOMAIN more = 1..(Len(wr) + 1) /\ DOMAIN wr = 1..Len(wr)
      /\ \A i \in 1..Len(wr) : more[i] = wr[i]
  OBVIOUS
<1> HIDE DEF more
<1>2. \A i \in DOMAIN wr : i \in DOMAIN more /\ more[i] = wr[i]  BY <1>1
<1>3. ASSUME NEW i \in DOMAIN wr, NEW v
      PROVE  {k \in DOMAIN more : k <= i /\ more[k] = v} = {k \in DOMAIN wr : k <= i /\ wr[k] = v}
  <2>1. \A k \in DOMAIN more : k <= i => k \in DOMAIN wr  BY <1>1
  <2>2. QED  BY <1>2, <2>1
<1>4. ASSUME NEW i, NEW k, WholeAt(wr, i, k) PROVE WholeAt(more, i, k)
  BY <1>2, <1>3, <1>4 DEF WholeAt
<1>5. \A h : HeardWhole(wr, h) => HeardWhole(more, h)  BY <1>4 DEF HeardWhole
<1>6. TornSome(wr) => TornSome(more)  BY <1>2 DEF TornSome
<1>7. QED  BY <1>5, <1>6 DEF more

LEMMA ClientInOrder ==
  ASSUME ControlTypeOK, ReadInOrder, NEW c \in Conns, ClientStep(c)
  PROVE  ReadInOrder'
<1>1. /\ written[c] \in Seq(0..2) /\ up[c] \in Seq(Piece) /\ InOrder(c)
      /\ Message("ClientHello") \in Sendable /\ Rank(Message("ClientHello")) = 0
      /\ Ack \in Sendable /\ Rank(Ack) = 1
      /\ Message("ClientHello").kind # "PhaseShift" /\ Ack.kind # "PhaseShift"
  BY RankFacts DEF ControlTypeOK, ReadInOrder, Sendable, Message, Ack
<1>2. SUFFICES InOrder(c)'
  <2>1. ASSUME NEW d \in Conns, d # c PROVE InOrder(d)'
    <3>1. /\ client'[d] = client[d] /\ written'[d] = written[d] /\ up'[d] = up[d] /\ closed'[d] = closed[d]
          /\ host'[d] = host[d] /\ reader'[d] = reader[d] /\ heard'[d] = heard[d] /\ streaming' = streaming
      BY <2>1 DEF ClientStep, Connect, Hello, Greeted, Configured, Learn, Prepare, Acknowledge, Leave, Ask,
                  ControlTypeOK, wireVars, sessionVars, serverVars
    <3>2. QED  BY <3>1, Untouched DEF ReadInOrder
  <2>2. QED  BY <2>1 DEF ReadInOrder
<1>3. ASSUME UNCHANGED <<written, up, closed, sessionVars>>, client'[c] # "gone", client[c] # "gone",
             \A wr, s : Started(client[c], wr, s) => Started(client'[c], wr, s)
      PROVE  InOrder(c)'
  <2>1. \A wr, wire, w, n : Agree(client[c], wr, wire, w, n) => Agree(client'[c], wr, wire, w, n)
    BY <1>3 DEF Agree
  <2>2. QED  BY <1>1, <1>3, <2>1 DEF InOrder, sessionVars
<1>4. CASE Connect(c)
  <2>1. client[c] = "idle" /\ client'[c] = "hello" /\ UNCHANGED <<written, up, closed, sessionVars>>
    BY <1>4 DEF Connect, wireVars, ControlTypeOK
  <2>2. QED  BY <1>3, <2>1 DEF Started
<1>5. CASE Hello(c)
  <2>1. /\ client[c] = "hello" /\ client'[c] = "greeting"
        /\ up'[c] = Written(up[c], Message("ClientHello"), 2)
        /\ UNCHANGED <<written, closed, host, reader, heard, streaming>>
    BY <1>5 DEF Hello, sessionVars, ControlTypeOK
  <2>2. host[c] # "ended" => Agree(client'[c], written[c], up'[c], reader[c], Len(heard[c]))
    BY <1>1, <2>1, AgreeGreets DEF InOrder
  <2>3. QED  BY <1>1, <2>1, <2>2 DEF InOrder
<1>6. CASE Greeted(c)
  <2>1. client[c] = "greeting" /\ client'[c] = "greeted" /\ UNCHANGED <<written, up, closed, sessionVars>>
    BY <1>6 DEF Greeted, Learn, ControlTypeOK
  <2>2. QED  BY <1>3, <2>1 DEF Started
<1>7. CASE Configured(c)
  <2>1. client[c] = "greeted" /\ client'[c] = "configured" /\ UNCHANGED <<written, up, closed, sessionVars>>
    BY <1>7 DEF Configured, Learn, ControlTypeOK
  <2>2. QED  BY <1>3, <2>1 DEF Started
<1>8. CASE Prepare(c)
  <2>1. client[c] = "configured" /\ client'[c] = "prepared" /\ UNCHANGED <<written, up, closed, sessionVars>>
    BY <1>8 DEF Prepare, wireVars, ControlTypeOK
  <2>2. QED  BY <1>3, <2>1 DEF Started
<1>9. CASE Acknowledge(c)
  <2>1. /\ client[c] = "prepared" /\ client'[c] = "running"
        /\ up'[c] = Written(up[c], Ack, 2)
        /\ UNCHANGED <<written, closed, host, reader, heard, streaming>>
    BY <1>9 DEF Acknowledge, sessionVars, ControlTypeOK, Ack
  <2>2. host[c] # "ended" => Agree(client'[c], written[c], up'[c], reader[c], Len(heard[c]))
    BY <1>1, <2>1, AgreeGreets DEF InOrder
  <2>3. QED  BY <1>1, <2>1, <2>2 DEF InOrder
<1>10. CASE Leave(c)
  <2>1. client'[c] = "gone" /\ UNCHANGED <<written, up, host, reader, heard, streaming>>
    BY <1>10 DEF Leave, sessionVars, ControlTypeOK
  <2>2. \A wr, wire, w, n : Agree(client[c], wr, wire, w, n) => Agree("gone", wr, wire, w, n)
    BY DEF Agree, Started
  <2>3. QED  BY <1>1, <2>1, <2>2 DEF InOrder
<1>11. ASSUME NEW n \in 0..2, Ask(c, n) PROVE InOrder(c)'
  <2>1. /\ client[c] = "running" /\ Len(written[c]) < MaxShifts /\ written'[c] = Append(written[c], n)
        /\ up'[c] = Written(up[c], Shift(Len(written[c]) + 1), n)
        /\ UNCHANGED <<client, closed, host, reader, heard, streaming>>
    BY <1>11 DEF Ask, sessionVars, ControlTypeOK
  <2>2. host[c] # "ended" => Agree(client[c], written'[c], up'[c], reader[c], Len(heard[c]))
    BY <1>1, <2>1, AgreeAsks DEF InOrder
  <2>3. QED  BY <1>1, <2>1, <2>2, AsksLater DEF InOrder
<1>12. QED  BY <1>4, <1>5, <1>6, <1>7, <1>8, <1>9, <1>10, <1>11 DEF ClientStep

\* An acceptor takes at most the first frame of a connection no host reads yet.
LEMMA AcceptorInOrder ==
  ASSUME ControlTypeOK, OnePlace, ReadInOrder, NEW a \in Acceptors, AcceptorStep(a)
  PROVE  ReadInOrder'
<1>1. ASSUME NEW d \in Conns, UNCHANGED <<clientVars, up, host, reader, heard, streaming>>,
             "client" \in closed'[d] => "client" \in closed[d]
      PROVE  InOrder(d)'
  BY <1>1 DEF ReadInOrder, InOrder, clientVars
<1>2. ASSUME NEW c \in Conns, Accept(a, c) PROVE ReadInOrder'
  BY <1>1, <1>2 DEF Accept, wireVars, sessionVars, ReadInOrder
<1>3. CASE HelloFails(a) \/ Refuse(a) \/ ReplyFails(a)
  <2>1. GiveUp(a)  BY <1>3 DEF HelloFails, Refuse, ReplyFails
  <2>2. \A d \in Conns : "client" \in closed'[d] => "client" \in closed[d]
    BY <2>1 DEF GiveUp, ControlTypeOK
  <2>3. QED  BY <1>1, <2>1, <2>2 DEF GiveUp, sessionVars, ReadInOrder
<1>4. CASE Issue(a)
  <2>1. PICK c \in Conns : accepting[a] # Idle /\ c = accepting[a].conn
    BY <1>4, Engaged DEF Issue
  <2> DEFINE wire == up[c]
             m == Message("ClientHello")
  <2>2. host[c] = "none"  BY <2>1 DEF OnePlace
  <2>3. Arrived(wire, m) /\ up' = [up EXCEPT ![c] = AfterFrame(@)]
        /\ UNCHANGED <<client, written, closed, host, reader, heard, streaming>>
    BY <1>4, <2>1 DEF Issue, clientVars, sessionVars
  <2>4. wire \in Seq(Piece) /\ written[c] \in Seq(0..2) /\ Len(heard[c]) \in Nat
    BY <2>1 DEF ControlTypeOK
  <2>5. reader[c] = None /\ Agree(client[c], written[c], wire, None, Len(heard[c]))
    BY <2>1, <2>2 DEF ReadInOrder, InOrder
  <2>6. ASSUME NEW d \in Conns, d # c PROVE InOrder(d)'
    <3>1. up'[d] = up[d]  BY <2>1, <2>3, <2>6 DEF ControlTypeOK
    <3>2. QED  BY <2>3, <3>1, Untouched DEF ReadInOrder
  <2>7. up'[c] = AfterFrame(wire)  BY <2>1, <2>3 DEF ControlTypeOK
  <2> HIDE DEF wire
  <2>8. wire[1] = Header(m) /\ wire[2] = Body(m) /\ Len(wire) >= 2
        /\ Drops(AfterFrame(wire), wire, 2)
    <3>1. SubSeq(wire, 1, 2)[1] = wire[1] /\ SubSeq(wire, 1, 2)[2] = wire[2] /\ Len(wire) >= 2
      BY <2>3, <2>4 DEF Arrived
    <3>2. Frame(m)[1] = Header(m) /\ Frame(m)[2] = Body(m)  BY DEF Frame, Header, Body
    <3>3. wire[1] = Header(m) /\ wire[2] = Body(m)  BY <2>3, <3>1, <3>2 DEF Arrived
    <3>4. Drops(AfterFrame(wire), wire, 2)
      <4>1. \A i \in 3..Len(wire) : wire[i] \in Piece  BY <2>4
      <4>2. AfterFrame(wire) \in Seq(Piece) /\ Len(wire) = Len(AfterFrame(wire)) + 2
        BY <2>4, <3>1 DEF AfterFrame
      <4>3. \A i \in 1..Len(AfterFrame(wire)) : AfterFrame(wire)[i] = wire[i + 2]
        <5>1. \A i \in 1..(Len(wire) - 3 + 1) : AfterFrame(wire)[i] = wire[3 + i - 1]
          BY <2>4, <4>1, SubSeqProperties DEF AfterFrame
        <5>2. ASSUME NEW i \in 1..Len(AfterFrame(wire))
              PROVE  i \in 1..(Len(wire) - 3 + 1) /\ 3 + i - 1 = i + 2
          BY <2>4, <4>2
        <5>3. QED  BY <5>1, <5>2
      <4>4. QED  BY <4>2, <4>3 DEF Drops
    <3>5. QED  BY <3>1, <3>3, <3>4
  <2> DEFINE p == [reader |-> None, left |-> AfterFrame(wire), got |-> m]
  <2>9. Polled(None, wire, p, Nothing)
    <3>1. wire[1].of = m /\ wire[1].half = "header"  BY <2>8 DEF Header
    <3>2. Len(wire) >= 1  BY <2>4, <2>8
    <3>3. QED  BY <2>8, <3>1, <3>2 DEF Polled
  <2>10. PICK r \in Nat, s \in Nat :
            Started(client[c], written[c], s) /\ Reading(wire, None, written[c], Len(heard[c]), r, s)
    BY <2>5 DEF Agree
  <2>11. m # Nothing /\ m # Broken /\ m.kind # "PhaseShift"  BY DEF Nothing, Broken, Message
  <2>12. \E q \in Nat : Reading(AfterFrame(wire), None, written[c], Counted(Len(heard[c]), m), q, s)
    <3>1. p.got = m /\ p.reader = None /\ p.left = AfterFrame(wire)  OBVIOUS
    <3> HIDE DEF p
    <3>2. QED  BY <2>4, <2>9, <2>10, <2>11, <3>1, HostReads
  <2>13. Agree(client[c], written[c], AfterFrame(wire), None, Len(heard[c]))
    BY <2>10, <2>11, <2>12 DEF Agree, Counted
  <2>14. InOrder(c)'
    BY <2>1, <2>3, <2>5, <2>7, <2>13 DEF ReadInOrder, InOrder, wire
  <2>15. QED  BY <2>6, <2>14 DEF ReadInOrder
<1>5. CASE Reply(a)
  <2>1. PICK c \in Conns : accepting[a] # Idle /\ c = accepting[a].conn
    BY <1>5, Engaged DEF Reply
  <2>2. host[c] = "none"  BY <2>1 DEF OnePlace
  <2>3. host' = [host EXCEPT ![c] = "session"]
        /\ UNCHANGED <<client, written, up, closed, reader, heard, streaming>>
    BY <1>5, <2>1 DEF Reply, clientVars
  <2>4. ASSUME NEW d \in Conns, d # c PROVE InOrder(d)'
    <3>1. host'[d] = host[d]  BY <2>1, <2>3, <2>4 DEF ControlTypeOK
    <3>2. QED  BY <2>3, <3>1, Untouched DEF ReadInOrder
  <2>5. host'[c] = "session"  BY <2>1, <2>3 DEF ControlTypeOK
  <2>6. InOrder(c)'  BY <2>1, <2>2, <2>3, <2>5 DEF ReadInOrder, InOrder
  <2>7. QED  BY <2>4, <2>6 DEF ReadInOrder
<1>6. QED  BY <1>2, <1>3, <1>4, <1>5 DEF AcceptorStep

\* What one next_message of the host's leaves of the agreement.
LEMMA TookInOrder ==
  ASSUME ControlTypeOK, NEW c \in Conns, InOrder(c), host[c] # "ended", NEW k \in 0..Len(up[c])
  PROVE  LET p == NextMessage(c, k) IN
         \/ /\ p.got \in {Nothing, Broken}
            /\ Agree(client[c], written[c], p.left, p.reader, Len(heard[c]))
            /\ p.got = Broken => client[c] = "gone"
         \/ /\ p.got \in Sendable
            /\ Agree(client[c], written[c], p.left, p.reader, Counted(Len(heard[c]), p.got))
            /\ p.got.kind = "PhaseShift" => WholeAt(written[c], p.got.n, Len(heard[c]) + 1)
         \/ p.got = Broken /\ TornSome(written[c])
<1> DEFINE p == NextMessage(c, k)
<1>1. PICK end \in {Nothing, Broken} :
        Polled(reader[c], up[c], p, end) /\ (end = Broken => "client" \in closed[c])
  BY NextMessageOutcome
<1>2. PICK r \in Nat, s \in Nat :
        Started(client[c], written[c], s) /\ Reading(up[c], reader[c], written[c], Len(heard[c]), r, s)
  BY DEF InOrder, Agree
<1>3. /\ reader[c] \in Messages \cup {None} /\ up[c] \in Seq(Piece) /\ written[c] \in Seq(0..2)
      /\ Len(heard[c]) \in Nat
  BY DEF ControlTypeOK
<1> HIDE DEF p
<1>4. \/ p.got = end /\ \E q \in Nat : Reading(p.left, p.reader, written[c], Len(heard[c]), q, s)
      \/ /\ p.got \in Sendable
         /\ \E q \in Nat : Reading(p.left, p.reader, written[c], Counted(Len(heard[c]), p.got), q, s)
         /\ p.got.kind = "PhaseShift" => WholeAt(written[c], p.got.n, Len(heard[c]) + 1)
      \/ p.got = Broken /\ TornSome(written[c])
  BY <1>1, <1>2, <1>3, HostReads
<1>5. end = Broken => client[c] = "gone"  BY <1>1 DEF InOrder
<1>6. QED  BY <1>2, <1>4, <1>5 DEF Agree, p

LEMMA SessionInOrder ==
  ASSUME ControlTypeOK, ReadInOrder, NEW c \in Conns, SessionStep(c)
  PROVE  ReadInOrder'
<1>1. InOrder(c)  BY DEF ReadInOrder
<1>2. SUFFICES InOrder(c)'
  <2>1. ASSUME NEW d \in Conns, d # c PROVE InOrder(d)'
    <3>1. /\ client'[d] = client[d] /\ written'[d] = written[d] /\ up'[d] = up[d] /\ closed'[d] = closed[d]
          /\ host'[d] = host[d] /\ reader'[d] = reader[d] /\ heard'[d] = heard[d]
          /\ d \in streaming' => d \in streaming
      BY <2>1 DEF SessionStep, SendConfig, ConfigFails, HearAck, Listen, Took, EndSession,
                  ControlTypeOK, clientVars, serverVars
    <3>2. QED  BY <3>1, Untouched DEF ReadInOrder
  <2>2. QED  BY <2>1 DEF ReadInOrder
<1>3. CASE SendConfig(c)
  <2>1. host[c] = "session" /\ host'[c] = "awaiting"
        /\ UNCHANGED <<client, written, up, closed, reader, heard, streaming>>
    BY <1>3 DEF SendConfig, clientVars, ControlTypeOK
  <2>2. QED  BY <1>1, <2>1 DEF InOrder
<1>4. EndSession(c) => host'[c] = "ended" /\ closed'[c] = closed[c] \cup {"host"}
  BY DEF EndSession, ControlTypeOK
<1>5. CASE ConfigFails(c)
  <2>1. host[c] = "session" /\ host'[c] = "ended" /\ closed'[c] = closed[c] \cup {"host"}
        /\ UNCHANGED <<client, written, up, reader, heard, streaming>>
    BY <1>4, <1>5 DEF ConfigFails, clientVars
  <2>2. QED  BY <1>1, <2>1 DEF InOrder
<1>6. ASSUME NEW k \in 0..Len(up[c]), HearAck(c, k) PROVE InOrder(c)'
  <2> DEFINE p == NextMessage(c, k)
  <2>1. /\ host[c] = "awaiting" /\ reader'[c] = p.reader /\ up'[c] = p.left
        /\ UNCHANGED <<client, written, heard>>
    BY <1>6 DEF HearAck, Took, clientVars, ControlTypeOK
  <2>2. \/ p.got = Ack /\ host'[c] = "listening" /\ UNCHANGED closed
        \/ p.got # Ack /\ EndSession(c) /\ UNCHANGED streaming
    BY <1>6 DEF HearAck, Ack, ControlTypeOK
  <2>3. Ack \notin {Nothing, Broken} /\ Ack.kind # "PhaseShift"  BY DEF Ack, Nothing, Broken, Message
  <2>4. p.got = Ack => Agree(client[c], written[c], p.left, p.reader, Len(heard[c]))
    BY <1>1, <2>1, <2>3, TookInOrder DEF Counted
  <2> HIDE DEF p
  <2>5. CASE p.got = Ack /\ host'[c] = "listening" /\ UNCHANGED closed
    BY <1>1, <2>1, <2>4, <2>5 DEF InOrder
  <2>6. CASE EndSession(c) /\ UNCHANGED streaming
    BY <1>1, <1>4, <2>1, <2>6 DEF InOrder
  <2>7. QED  BY <2>2, <2>5, <2>6
<1>7. ASSUME NEW k \in 0..Len(up[c]), Listen(c, k) PROVE InOrder(c)'
  <2> DEFINE p == NextMessage(c, k)
  <2>1. /\ host[c] = "listening" /\ reader'[c] = p.reader /\ up'[c] = p.left
        /\ UNCHANGED <<client, written, streaming>>
    BY <1>7 DEF Listen, Took, clientVars, ControlTypeOK
  <2>2. \/ p.got = Broken /\ EndSession(c) /\ UNCHANGED heard
        \/ /\ p.got # Broken /\ UNCHANGED <<host, closed>>
           /\ heard'[c] = IF p.got.kind = "PhaseShift" THEN Append(heard[c], p.got.n) ELSE heard[c]
    BY <1>7 DEF Listen, ControlTypeOK
  <2>3. \/ /\ p.got \in {Nothing, Broken}
           /\ Agree(client[c], written[c], p.left, p.reader, Len(heard[c]))
           /\ p.got = Broken => client[c] = "gone"
        \/ /\ p.got \in Sendable
           /\ Agree(client[c], written[c], p.left, p.reader, Counted(Len(heard[c]), p.got))
           /\ p.got.kind = "PhaseShift" => WholeAt(written[c], p.got.n, Len(heard[c]) + 1)
        \/ p.got = Broken /\ TornSome(written[c])
    BY <1>1, <2>1, TookInOrder
  <2> HIDE DEF p
  <2>4. Broken \notin Sendable /\ Nothing.kind # "PhaseShift" /\ Nothing # Broken
    BY DEF Broken, Nothing, Sendable, Message, Ack, Shift
  <2>5. CASE p.got = Broken /\ EndSession(c) /\ UNCHANGED heard
    <3>1. client[c] = "gone" \/ TornSome(written[c])  BY <2>3, <2>4, <2>5
    <3>2. QED  BY <1>1, <1>4, <2>1, <2>5, <3>1 DEF InOrder
  <2>6. CASE p.got # Broken /\ p.got.kind # "PhaseShift" /\ UNCHANGED <<host, closed>> /\ heard'[c] = heard[c]
    <3>1. Agree(client[c], written[c], p.left, p.reader, Len(heard[c]))  BY <2>3, <2>6 DEF Counted
    <3>2. QED  BY <1>1, <2>1, <2>6, <3>1 DEF InOrder
  <2>7. CASE /\ p.got # Broken /\ p.got.kind = "PhaseShift" /\ UNCHANGED <<host, closed>>
             /\ heard'[c] = Append(heard[c], p.got.n)
    <3>1. /\ Agree(client[c], written[c], p.left, p.reader, Len(heard[c]) + 1)
          /\ WholeAt(written[c], p.got.n, Len(heard[c]) + 1)
      BY <2>3, <2>4, <2>7 DEF Counted
    <3>2. /\ heard[c] \in Seq(1..MaxShifts)
          /\ DOMAIN heard'[c] = 1..(Len(heard[c]) + 1) /\ Len(heard'[c]) = Len(heard[c]) + 1
          /\ \A i \in 1..Len(heard[c]) : heard'[c][i] = heard[c][i]
          /\ heard'[c][Len(heard[c]) + 1] = p.got.n
      <4>1. heard[c] \in Seq(1..MaxShifts)  BY DEF ControlTypeOK
      <4>2. QED  BY <2>7, <4>1, AppendProperties
    <3>3. HeardWhole(written[c], heard'[c])
      <4> SUFFICES ASSUME NEW i \in 1..(Len(heard[c]) + 1) PROVE WholeAt(written[c], heard'[c][i], i)
        BY <3>2 DEF HeardWhole
      <4>1. i \in 1..Len(heard[c]) \/ i = Len(heard[c]) + 1  BY <3>2
      <4>2. CASE i \in 1..Len(heard[c])  BY <1>1, <3>2, <4>2 DEF InOrder, HeardWhole
      <4>3. CASE i = Len(heard[c]) + 1  BY <3>1, <3>2, <4>3
      <4>4. QED  BY <4>1, <4>2, <4>3
    <3>4. QED  BY <1>1, <2>1, <2>7, <3>1, <3>2, <3>3 DEF InOrder
  <2>8. QED  BY <2>2, <2>5, <2>6, <2>7
<1>8. QED  BY <1>3, <1>5, <1>6, <1>7 DEF SessionStep

LEMMA InOrderInit == Init => ReadInOrder
<1> SUFFICES ASSUME Init, NEW c \in Conns PROVE InOrder(c)  BY DEF ReadInOrder
<1>1. /\ client[c] = "idle" /\ written[c] = <<>> /\ up[c] = <<>> /\ closed[c] = {} /\ host[c] = "none"
      /\ reader[c] = None /\ heard[c] = <<>> /\ streaming = {}
  BY DEF Init
<1>2. Sent(<<>>, 0) = {}
  <2>1. \A m \in Sendable : ~(Rank(m) < 0)  BY RankFacts
  <2>2. QED  BY <2>1 DEF Sent
<1>3. Behind(<<>>, 0, 1) = {} /\ Behind(<<>>, 0, 2) = {}  BY DEF Behind
<1>4. Reading(<<>>, None, <<>>, 0, 0, 0)  BY <1>2, <1>3, FS_EmptySet DEF Reading
<1>5. Started("idle", <<>>, 0)  BY DEF Started
<1>6. Agree("idle", <<>>, <<>>, None, 0)  BY <1>4, <1>5 DEF Agree
<1>7. HeardWhole(<<>>, <<>>)  BY DEF HeardWhole
<1>8. QED  BY <1>1, <1>6, <1>7 DEF InOrder

\* However the pieces of the client's frames are delivered, cut by timeouts or
\* torn by its failures, what the relay has heard is, in order, the requests that
\* went out whole, up to the first torn one; and only that, or the client's
\* departure, ends the listener.
THEOREM ShiftsAlwaysWhole == Spec => []ShiftsArriveWhole
<1> DEFINE Inv == ControlTypeOK /\ OnePlace /\ ReadInOrder
<1>1. Init => Inv
  <2>1. Init => OnePlace  BY DEF Init, OnePlace, Idle
  <2>2. QED  BY <2>1, TypeInit, InOrderInit
<1>2. Inv /\ [Next]_vars => Inv'
  <2> SUFFICES ASSUME Inv, [Next]_vars PROVE Inv'
    OBVIOUS
  <2>1. CASE Next  BY <2>1, TypeStep, PlaceStep, ClientInOrder, AcceptorInOrder, SessionInOrder DEF Next
  <2>2. CASE UNCHANGED vars
    <3>1. OnePlace'  BY <2>2 DEF vars, clientVars, serverVars, sessionVars, OnePlace
    <3>2. ReadInOrder'
      BY <2>2 DEF vars, clientVars, wireVars, sessionVars, ReadInOrder, InOrder
    <3>3. QED  BY <2>2, <3>1, <3>2, TypeStep
  <2>3. QED  BY <2>1, <2>2
<1>3. Inv => ShiftsArriveWhole
  <2> SUFFICES ASSUME Inv, NEW c \in Conns
               PROVE  /\ \A i \in DOMAIN heard[c] :
                            /\ heard[c][i] \in Whole(c, heard[c][i])
                            /\ Cardinality(Whole(c, heard[c][i])) = i
                            /\ Torn(c, heard[c][i]) = {}
                      /\ host[c] = "ended" /\ c \in streaming => client[c] = "gone" \/ Torn(c, MaxShifts) # {}
    BY DEF ShiftsArriveWhole
  <2>1. InOrder(c)  BY DEF ReadInOrder
  <2>2. \A n : /\ Whole(c, n) = {i \in DOMAIN written[c] : i <= n /\ written[c][i] = 2}
               /\ Torn(c, n) = {i \in DOMAIN written[c] : i <= n /\ written[c][i] = 1}
    BY DEF Whole, Torn
  <2>3. ASSUME NEW i \in DOMAIN heard[c]
        PROVE  /\ heard[c][i] \in Whole(c, heard[c][i])
               /\ Cardinality(Whole(c, heard[c][i])) = i
               /\ Torn(c, heard[c][i]) = {}
    <3>1. WholeAt(written[c], heard[c][i], i)  BY <2>1 DEF InOrder, HeardWhole
    <3>2. heard[c][i] \in Nat
      <4>1. heard[c] \in Seq(1..MaxShifts)  BY DEF ControlTypeOK
      <4>2. heard[c][i] \in 1..MaxShifts
        <5>1. heard[c] \in Seq(1..MaxShifts) /\ i \in 1..Len(heard[c])  BY <4>1
        <5>2. QED  BY <5>1, ElementOfSeq
      <4>3. QED  BY <4>2, ControlAssumption
    <3> DEFINE n == heard[c][i]
    <3>3. /\ n \in DOMAIN written[c] /\ written[c][n] = 2
          /\ Cardinality({j \in DOMAIN written[c] : j <= n /\ written[c][j] = 2}) = i
          /\ {j \in DOMAIN written[c] : j <= n /\ written[c][j] = 1} = {}
      BY <3>1 DEF WholeAt
    <3>4. n <= n  BY <3>2
    <3> HIDE DEF n
    <3>5. n \in Whole(c, n) /\ Cardinality(Whole(c, n)) = i /\ Torn(c, n) = {}
      BY <3>3, <3>4 DEF Whole, Torn
    <3>6. QED  BY <3>5 DEF n
  <2>4. TornSome(written[c]) => Torn(c, MaxShifts) # {}  BY <2>2 DEF TornSome
  <2>5. QED  BY <2>1, <2>3, <2>4 DEF InOrder
<1>4. QED  BY <1>1, <1>2, <1>3, PTL DEF Spec

(***************************************************************************)
(* The run.                                                                *)
(***************************************************************************)
\* What the accounts rest on.  A unit inside VideoToolbox was submitted; when
\* the receive thread is done, or its decoder is gone, none is left there; and
\* the count of decoded pictures trails that of the published ones by the
\* callback between the two.
DecoderSettled ==
    /\ receiver.at = "submitting" => receiver.taken \in Unit
    /\ callback.at # "none" => callback.frame \in Unit
    /\ receiver.at \in {"done", "failed"} => queue = <<>> /\ callback = NoCallback
    /\ receiver.at = "done" => trailing = 0
    /\ main = "reported" => receiver.at = "done"
    /\ main = "starting" => render.at = "none" /\ receiver.at = "none"
    /\ tally.decoded + One(callback.at = "decoded") = slot.published

Outstanding == One(receiver.at = "submitting") + Len(queue) + One(callback # NoCallback)

\* The parts of BacklogIsExact and FramesAccounted that speak of every moment;
\* what they say of the report follows from DecoderSettled.
BacklogHolds == (receiver.at # "failed" => inFlight = Outstanding) /\ inFlight >= 0
FramesHold ==
    main # "failed" =>
        slot.published + One(callback.at = "replaced") =
          slot.superseded + One(callback.at = "replaced" /\ callback.displaced)
          + One(slot.frame # NoFrame) + One(render.at = "drawing")
          + counters.rendered + counters.missed

RunInv == RunTypeOK /\ DecoderSettled /\ BacklogHolds /\ FramesHold

\* A counter of the render loop goes up by one and stays a counter.
LEMMA CounterGrows ==
  ASSUME NEW c \in Counters
  PROVE  /\ [c EXCEPT !.callbacks = @ + 1] \in Counters
         /\ [c EXCEPT !.rendered = @ + 1] \in Counters
         /\ [c EXCEPT !.empty = @ + 1] \in Counters
         /\ [c EXCEPT !.missed = @ + 1] \in Counters
  BY DEF Counters

-----------------------------------------------------------------------------
\* The unit that comes back leaves the queue for the callback.
LEMMA CallBackFacts ==
  ASSUME RunTypeOK, \E o \in {"delivered", "dropped", "errors"} : CallBack(o)
  PROVE  /\ queue # <<>> /\ Len(queue') = Len(queue) - 1 /\ Len(queue) \in Nat
         /\ callback = NoCallback
         /\ callback' # NoCallback /\ callback'.frame \in Unit
         /\ callback'.at \in {"delivered", "dropped", "errors"}
         /\ UNCHANGED <<inFlight, tally, slot>> /\ UNCHANGED callbackOnly
<1> PICK o \in {"delivered", "dropped", "errors"} : CallBack(o)
  OBVIOUS
<1>1. queue # <<>> /\ queue \in Seq(Unit)  BY DEF CallBack, RunTypeOK
<1>2. Head(queue) \in Unit /\ Len(Tail(queue)) = Len(queue) - 1 /\ Len(queue) \in Nat  BY <1>1
<1>3. QED  BY <1>1, <1>2 DEF CallBack, NoCallback

\* A callback that begins has a unit to speak of.
LEMMA CallBackTyped ==
  ASSUME RunTypeOK, \E o \in {"delivered", "dropped", "errors"} : CallBack(o)
  PROVE  RunTypeOK'
<1> PICK o \in {"delivered", "dropped", "errors"} : CallBack(o)
  OBVIOUS
<1>1. queue # <<>>  BY DEF CallBack
<1>2. Head(queue) \in Unit /\ Tail(queue) \in Seq(Unit)  BY <1>1 DEF RunTypeOK
<1>3. QED  BY <1>2 DEF CallBack, callbackOnly, RunTypeOK, Callback

\* A poll leaves the watchdog's clocks what they are.
LEMMA WatchPollTyped ==
  ASSUME RunTypeOK, WatchPoll
  PROVE  RunTypeOK'
<1>1. UNCHANGED <<main, stop, span>> /\ UNCHANGED watchOnly  BY DEF WatchPoll
<1>2. CASE progress # watchdog.seen
  <2>1. watchdog' \in Watchdog
    BY <1>2, RunAssumption DEF WatchPoll, RunTypeOK, Watchdog
  <2>2. QED  BY <1>1, <2>1 DEF watchOnly, RunTypeOK
<1>3. CASE progress = watchdog.seen
  <2> DEFINE idle == IF watchdog.seen > 0 THEN watchdog.idle + 1 ELSE 0
  <2>1. PICK w \in {"ending", "polling"} :
          watchdog' = [watchdog EXCEPT !.at = w, !.idle = idle, !.left = @ - 1]
    BY <1>3 DEF WatchPoll
  <2>2. watchdog' = [at |-> w, left |-> watchdog.left - 1, seen |-> watchdog.seen,
      idle |-> idle]
    BY <2>1 DEF RunTypeOK, Watchdog
  <2>3. idle \in Nat /\ watchdog.left - 1 \in Int /\ watchdog.seen \in Nat
    BY DEF RunTypeOK, Watchdog
  <2> HIDE DEF idle
  <2>4. watchdog' \in Watchdog  BY <2>2, <2>3 DEF Watchdog
  <2>5. QED  BY <1>1, <2>4 DEF watchOnly, RunTypeOK
<1>4. QED  BY <1>2, <1>3

\* Every step keeps the types.
LEMMA RunTypeStep ==
  ASSUME RunTypeOK, DecoderSettled, [RunNext]_runVars
  PROVE  RunTypeOK'
<1>1. CASE ReceiverStep
  <2>1. CASE Turn
    BY <2>1 DEF Turn, receiveOnly, RunTypeOK, Receiver
  <2>2. CASE NothingCompleted
    BY <2>2 DEF NothingCompleted, receiveOnly, RunTypeOK, Receiver
  <2>3. CASE Taken
    BY <2>3 DEF Taken, receiveOnly, RunTypeOK, Receiver, DecoderSettled
  <2>4. CASE Rejected
    BY <2>4 DEF Rejected, receiveOnly, RunTypeOK, Receiver, Tally
  <2>5. CASE Invalidate
    BY <2>5 DEF Invalidate, receiveOnly, RunTypeOK, Receiver
  <2>6. CASE Submitted
    BY <2>6 DEF Submitted, receiveOnly, RunTypeOK, Receiver
  <2>7. CASE Flush
    BY <2>7 DEF Flush, receiveOnly, RunTypeOK, Receiver
  <2>8. CASE FlushFails
    BY <2>8 DEF FlushFails, receiveOnly, RunTypeOK, Receiver
  <2>9. CASE NoSample
    BY <2>9, RunAssumption DEF NoSample, receiveOnly, RunTypeOK, Receiver
  <2>10. CASE MarkSubmit
    BY <2>10, RunAssumption DEF MarkSubmit, receiveOnly, RunTypeOK, Receiver
  <2>11. QED  BY <1>1, <2>1, <2>2, <2>3, <2>4, <2>5, <2>6, <2>7, <2>8, <2>9, <2>10
      DEF ReceiverStep, ReceiverGoesOn
<1>2. CASE CallbackStep
  <2>1. CASE \E o \in {"delivered", "dropped", "errors"} : CallBack(o)
    BY <2>1, CallBackTyped
  <2>2. CASE Replace
    BY <2>2 DEF Replace, callbackOnly, RunTypeOK, Callback, Slot
  <2>3. CASE Count
    <3>1. /\ slot.frame \in Unit \cup {NoFrame} /\ slot.published + 1 \in Nat
          /\ slot.superseded \in Nat /\ slot.superseded + 1 \in Nat
      BY DEF RunTypeOK, Slot
    <3>2. slot' = [frame |-> slot.frame, published |-> slot.published + 1, superseded |->
                    IF callback.displaced THEN slot.superseded + 1 ELSE slot.superseded]
      BY <2>3 DEF Count, RunTypeOK, Slot
    <3>3. ASSUME callback.displaced PROVE slot' \in Slot  BY <3>1, <3>2, <3>3 DEF Slot
    <3>4. ASSUME ~callback.displaced PROVE slot' \in Slot  BY <3>1, <3>2, <3>4 DEF Slot
    <3>5. slot' \in Slot  BY <3>3, <3>4
    <3>6. callback' \in Callback  BY <2>3 DEF Count, RunTypeOK, Callback
    <3>7. QED  BY <2>3, <3>5, <3>6 DEF Count, callbackOnly, RunTypeOK
  <2>4. CASE Settle
    BY <2>4 DEF Settle, callbackOnly, RunTypeOK, Callback, Tally, NoCallback
  <2>5. QED  BY <1>2, <2>1, <2>2, <2>3, <2>4 DEF CallbackStep
<1>3. CASE RenderStep
  <2>1. CASE Tick
    <3>1. counters' \in Counters  BY <2>1, CounterGrows DEF Tick, RunTypeOK
    <3>2. render' \in Render  BY <2>1 DEF Tick, RunTypeOK, Render
    <3>3. QED  BY <2>1, <3>1, <3>2 DEF Tick, renderOnly, RunTypeOK
  <2>2. CASE TakeNothing
    <3>1. counters' \in Counters  BY <2>2, CounterGrows DEF TakeNothing, RunTypeOK
    <3>2. render' \in Render  BY <2>2 DEF TakeNothing, RunTypeOK, Render
    <3>3. QED  BY <2>2, <3>1, <3>2 DEF TakeNothing, renderOnly, RunTypeOK
  <2>3. CASE TakeFrame
    BY <2>3 DEF TakeFrame, renderOnly, RunTypeOK, Slot, Render
  <2>4. CASE Present
    <3>1. counters' \in Counters  BY <2>4, CounterGrows DEF Present, RunTypeOK
    <3>2. render' \in Render  BY <2>4 DEF Present, RunTypeOK, Render
    <3>3. QED  BY <2>4, <3>1, <3>2 DEF Present, renderOnly, RunTypeOK
  <2>5. CASE MissDrawable
    <3>1. counters' \in Counters  BY <2>5, CounterGrows DEF MissDrawable, RunTypeOK
    <3>2. render' \in Render  BY <2>5 DEF MissDrawable, RunTypeOK, Render
    <3>3. QED  BY <2>5, <3>1, <3>2 DEF MissDrawable, renderOnly, RunTypeOK
  <2>6. CASE RenderFails
    BY <2>6 DEF RenderFails, renderOnly, RunTypeOK, Render
  <2>7. CASE CloseRenderer
    BY <2>7 DEF CloseRenderer, renderOnly, RunTypeOK, Render
  <2>8. QED  BY <1>3, <2>1, <2>2, <2>3, <2>4, <2>5, <2>6, <2>7 DEF RenderStep
<1>4. CASE WatchStep
  <2>1. CASE WatchSleep
    BY <2>1 DEF WatchSleep, watchOnly, RunTypeOK, Watchdog
  <2>2. CASE WatchPoll
    BY <2>2, WatchPollTyped
  <2>3. CASE Mark
    BY <2>3 DEF Mark, watchOnly, RunTypeOK, Watchdog
  <2>4. CASE WatchEnds
    BY <2>4 DEF WatchEnds, watchOnly, RunTypeOK, Watchdog
  <2>5. QED  BY <1>4, <2>1, <2>2, <2>3, <2>4 DEF WatchStep
<1>5. CASE Start
  BY <1>5 DEF Start, RunTypeOK, Receiver, Render, Watchdog
<1>6. CASE Join
  BY <1>6 DEF Join, watchOnly, RunTypeOK
<1>7. CASE UNCHANGED runVars
  BY <1>7 DEF runVars, RunTypeOK
<1>8. QED  BY <1>1, <1>2, <1>3, <1>4, <1>5, <1>6, <1>7 DEF RunNext

\* Every step keeps what the accounts rest on.
LEMMA SettledStep ==
  ASSUME RunTypeOK, DecoderSettled, BacklogHolds, [RunNext]_runVars
  PROVE  DecoderSettled'
<1>1. CASE ReceiverStep
  <2>1. CASE Turn
    BY <2>1 DEF Turn, receiveOnly, RunTypeOK, DecoderSettled, NoCallback, One
  <2>2. CASE NothingCompleted
    BY <2>2 DEF NothingCompleted, receiveOnly, RunTypeOK, DecoderSettled, NoCallback, One
  <2>3. CASE Taken
    BY <2>3 DEF Taken, receiveOnly, RunTypeOK, DecoderSettled, NoCallback, One
  <2>4. CASE Rejected
    BY <2>4 DEF Rejected, receiveOnly, RunTypeOK, DecoderSettled, NoCallback, One
  <2>5. CASE Invalidate
    BY <2>5 DEF Invalidate, receiveOnly, RunTypeOK, DecoderSettled, NoCallback, One
  <2>6. CASE Submitted
    BY <2>6 DEF Submitted, receiveOnly, RunTypeOK, DecoderSettled, NoCallback, One
  <2>7. CASE Flush
    BY <2>7
       DEF Flush, receiveOnly, RunTypeOK, DecoderSettled, BacklogHolds, Outstanding,
           NoCallback, One
  <2>8. CASE FlushFails
    BY <2>8 DEF FlushFails, receiveOnly, RunTypeOK, DecoderSettled, NoCallback, One
  <2>9. CASE NoSample
    BY <2>9 DEF NoSample, receiveOnly, RunTypeOK, DecoderSettled, NoCallback, One
  <2>10. CASE MarkSubmit
    BY <2>10, RunAssumption
       DEF MarkSubmit, receiveOnly, RunTypeOK, Receiver, Unit, DecoderSettled
  <2>11. QED  BY <1>1, <2>1, <2>2, <2>3, <2>4, <2>5, <2>6, <2>7, <2>8, <2>9, <2>10
      DEF ReceiverStep, ReceiverGoesOn
<1>2. CASE CallbackStep
  <2>1. CASE \E o \in {"delivered", "dropped", "errors"} : CallBack(o)
    BY <2>1, CallBackFacts DEF callbackOnly, DecoderSettled, NoCallback, One
  <2>2. CASE Replace
    BY <2>2 DEF Replace, callbackOnly, RunTypeOK, DecoderSettled, NoCallback, One
  <2>3. CASE Count
    <3>1. /\ slot'.published = slot.published + 1
          /\ callback'.at = "decoded" /\ callback'.frame = callback.frame
          /\ callback.at = "replaced"
      BY <2>3 DEF Count, RunTypeOK, Slot, Callback
    <3>2. UNCHANGED <<main, receiver, trailing, tally, queue, render>>  BY <2>3
        DEF Count, callbackOnly
    <3>3. tally.decoded \in Nat /\ slot.published \in Nat  BY DEF RunTypeOK, Tally, Slot
    <3>4. QED  BY <3>1, <3>2, <3>3 DEF DecoderSettled, NoCallback, One
  <2>4. CASE Settle
    <3>1. /\ callback' = NoCallback /\ callback.at \in {"decoded", "dropped", "errors"}
          /\ tally'.decoded = IF callback.at = "decoded" THEN tally.decoded + 1 ELSE tally.decoded
      BY <2>4 DEF Settle, RunTypeOK, Tally
    <3>2. UNCHANGED <<main, receiver, trailing, queue, slot, render>>  BY <2>4
        DEF Settle, callbackOnly
    <3>3. tally.decoded \in Nat /\ slot.published \in Nat  BY DEF RunTypeOK, Tally, Slot
    <3>4. QED  BY <3>1, <3>2, <3>3 DEF DecoderSettled, NoCallback, One
  <2>5. QED  BY <1>2, <2>1, <2>2, <2>3, <2>4 DEF CallbackStep
<1>3. CASE RenderStep
  <2>1. CASE Tick
    BY <2>1 DEF Tick, renderOnly, RunTypeOK, DecoderSettled, NoCallback, One
  <2>2. CASE TakeNothing
    BY <2>2 DEF TakeNothing, renderOnly, RunTypeOK, DecoderSettled, NoCallback, One
  <2>3. CASE TakeFrame
    BY <2>3 DEF TakeFrame, renderOnly, RunTypeOK, DecoderSettled, NoCallback, One
  <2>4. CASE Present
    BY <2>4 DEF Present, renderOnly, RunTypeOK, DecoderSettled, NoCallback, One
  <2>5. CASE MissDrawable
    BY <2>5 DEF MissDrawable, renderOnly, RunTypeOK, DecoderSettled, NoCallback, One
  <2>6. CASE RenderFails
    BY <2>6 DEF RenderFails, renderOnly, RunTypeOK, DecoderSettled, NoCallback, One
  <2>7. CASE CloseRenderer
    BY <2>7 DEF CloseRenderer, renderOnly, RunTypeOK, DecoderSettled, NoCallback, One
  <2>8. QED  BY <1>3, <2>1, <2>2, <2>3, <2>4, <2>5, <2>6, <2>7 DEF RenderStep
<1>4. CASE WatchStep
  <2>1. CASE WatchSleep
    BY <2>1 DEF WatchSleep, watchOnly, RunTypeOK, DecoderSettled, NoCallback, One
  <2>2. CASE WatchPoll
    BY <2>2 DEF WatchPoll, watchOnly, RunTypeOK, DecoderSettled, NoCallback, One
  <2>3. CASE Mark
    BY <2>3 DEF Mark, watchOnly, RunTypeOK, DecoderSettled, NoCallback, One
  <2>4. CASE WatchEnds
    BY <2>4 DEF WatchEnds, watchOnly, RunTypeOK, DecoderSettled, NoCallback, One
  <2>5. QED  BY <1>4, <2>1, <2>2, <2>3, <2>4 DEF WatchStep
<1>5. CASE Start
  BY <1>5 DEF Start, RunTypeOK, DecoderSettled, NoCallback, One
<1>6. CASE Join
  BY <1>6 DEF Join, watchOnly, RunTypeOK, DecoderSettled, NoCallback, One
<1>7. CASE UNCHANGED runVars
  BY <1>7 DEF runVars, RunTypeOK, DecoderSettled, NoCallback, One
<1>8. QED  BY <1>1, <1>2, <1>3, <1>4, <1>5, <1>6, <1>7 DEF RunNext

\* Every step keeps the backlog exact.
LEMMA BacklogStep ==
  ASSUME RunTypeOK, DecoderSettled, BacklogHolds, [RunNext]_runVars
  PROVE  BacklogHolds'
<1>1. CASE ReceiverStep
  <2>1. CASE Turn
    BY <2>1 DEF Turn, receiveOnly, RunTypeOK, BacklogHolds, Outstanding, One, Receiver
  <2>2. CASE NothingCompleted
    BY <2>2
       DEF NothingCompleted, receiveOnly, RunTypeOK, BacklogHolds, Outstanding, One, Receiver
  <2>3. CASE Taken
    BY <2>3
       DEF Taken, receiveOnly, RunTypeOK, Receiver, DecoderSettled, BacklogHolds,
           Outstanding, One
  <2>4. CASE Rejected
    BY <2>4 DEF Rejected, receiveOnly, RunTypeOK, BacklogHolds, Outstanding, One, Receiver
  <2>5. CASE Invalidate
    BY <2>5
       DEF Invalidate, receiveOnly, RunTypeOK, BacklogHolds, Outstanding, One,
           DecoderSettled, Receiver
  <2>6. CASE Submitted
    BY <2>6 DEF Submitted, receiveOnly, RunTypeOK, BacklogHolds, Outstanding, One, Receiver
  <2>7. CASE Flush
    BY <2>7 DEF Flush, receiveOnly, RunTypeOK, BacklogHolds, Outstanding, One, Receiver
  <2>8. CASE FlushFails
    BY <2>8 DEF FlushFails, receiveOnly, RunTypeOK, BacklogHolds, Outstanding, One, Receiver
  <2>9. CASE NoSample
    BY <2>9 DEF NoSample, receiveOnly, RunTypeOK, BacklogHolds, Outstanding, One, Receiver
  <2>10. CASE MarkSubmit
    BY <2>10 DEF MarkSubmit, receiveOnly, RunTypeOK, BacklogHolds, Outstanding, One, Receiver
  <2>11. QED  BY <1>1, <2>1, <2>2, <2>3, <2>4, <2>5, <2>6, <2>7, <2>8, <2>9, <2>10
      DEF ReceiverStep, ReceiverGoesOn
<1>2. CASE CallbackStep
  <2>1. CASE \E o \in {"delivered", "dropped", "errors"} : CallBack(o)
    <3>1. receiver.at # "failed" /\ UNCHANGED <<receiver, inFlight>>
      BY <2>1, CallBackFacts DEF callbackOnly, DecoderSettled
    <3>2. /\ Len(queue') = Len(queue) - 1 /\ Len(queue) \in Nat
          /\ callback = NoCallback /\ callback' # NoCallback
      BY <2>1, CallBackFacts
    <3>3. inFlight \in Int  BY DEF RunTypeOK
    <3>4. QED  BY <3>1, <3>2, <3>3 DEF BacklogHolds, Outstanding, One
  <2>2. CASE Replace
    <3>1. callback.at # "none" /\ callback'.at # "none"  BY <2>2
        DEF Replace, RunTypeOK, Callback
    <3>2. UNCHANGED <<receiver, inFlight, queue>>  BY <2>2 DEF Replace, callbackOnly
    <3>3. callback # NoCallback /\ callback' # NoCallback  BY <3>1 DEF NoCallback
    <3>4. QED  BY <3>2, <3>3 DEF BacklogHolds, Outstanding, One
  <2>3. CASE Count
    <3>1. callback.at # "none" /\ callback'.at # "none"  BY <2>3 DEF Count, RunTypeOK, Callback
    <3>2. UNCHANGED <<receiver, inFlight, queue>>  BY <2>3 DEF Count, callbackOnly
    <3>3. callback # NoCallback /\ callback' # NoCallback  BY <3>1 DEF NoCallback
    <3>4. QED  BY <3>2, <3>3 DEF BacklogHolds, Outstanding, One
  <2>4. CASE Settle
    <3>1. callback # NoCallback /\ callback' = NoCallback /\ inFlight' = inFlight - 1
      BY <2>4 DEF Settle, NoCallback
    <3>2. UNCHANGED <<receiver, queue>> /\ receiver.at # "failed"  BY <2>4, <3>1
        DEF Settle, callbackOnly, DecoderSettled
    <3>3. Len(queue) \in Nat /\ inFlight \in Int  BY DEF RunTypeOK
    <3>4. QED  BY <3>1, <3>2, <3>3 DEF BacklogHolds, Outstanding, One
  <2>5. QED  BY <1>2, <2>1, <2>2, <2>3, <2>4 DEF CallbackStep
<1>3. CASE RenderStep
  <2>1. UNCHANGED <<receiver, inFlight, queue, callback>>
    BY <1>3 DEF RenderStep, Tick, TakeNothing, TakeFrame, Present, MissDrawable, RenderFails,
              CloseRenderer, renderOnly
  <2>2. QED  BY <2>1 DEF BacklogHolds, Outstanding
<1>4. CASE WatchStep
  <2>1. UNCHANGED <<receiver, inFlight, queue, callback>>
    BY <1>4 DEF WatchStep, WatchSleep, WatchPoll, Mark, WatchEnds, watchOnly
  <2>2. QED  BY <2>1 DEF BacklogHolds, Outstanding
<1>5. CASE Start
  BY <1>5 DEF Start, RunTypeOK, BacklogHolds, Outstanding, One, DecoderSettled, Receiver
<1>6. CASE Join
  BY <1>6 DEF Join, watchOnly, RunTypeOK, BacklogHolds, Outstanding, One
<1>7. CASE UNCHANGED runVars
  BY <1>7 DEF runVars, RunTypeOK, BacklogHolds, Outstanding, One
<1>8. QED  BY <1>1, <1>2, <1>3, <1>4, <1>5, <1>6, <1>7 DEF RunNext

\* Every step keeps the frames accounted for.
LEMMA FramesStep ==
  ASSUME RunTypeOK, DecoderSettled, FramesHold, [RunNext]_runVars
  PROVE  FramesHold'
<1>1. CASE ReceiverStep
  <2>1. UNCHANGED receiveOnly
    BY <1>1
       DEF ReceiverStep, ReceiverGoesOn, Turn, NothingCompleted, Taken, Rejected, Invalidate,
              Submitted, Flush, FlushFails, NoSample, MarkSubmit
  <2>2. QED  BY <2>1 DEF receiveOnly, FramesHold
<1>2. CASE CallbackStep
  <2>1. CASE \E o \in {"delivered", "dropped", "errors"} : CallBack(o)
    BY <2>1, CallBackFacts DEF callbackOnly, FramesHold, NoCallback, One
  <2>2. CASE Replace
    <3>1. /\ callback.at = "delivered" /\ callback'.at = "replaced"
          /\ callback.frame # NoFrame
      BY <2>2, RunAssumption DEF Replace, RunTypeOK, Callback, DecoderSettled, Unit
    <3>2. slot'.frame = callback.frame /\ slot'.published = slot.published
          /\ slot'.superseded = slot.superseded
      BY <2>2 DEF Replace, RunTypeOK, Slot
    <3>3. UNCHANGED <<main, render, counters>>  BY <2>2 DEF Replace, callbackOnly
    <3>4. slot.published \in Nat /\ slot.superseded \in Nat /\ counters.rendered \in Nat
        /\ counters.missed \in Nat
      BY DEF RunTypeOK, Slot, Counters
    <3>5. CASE slot.frame = NoFrame
      <4>1. callback'.displaced = FALSE  BY <2>2, <3>5 DEF Replace, RunTypeOK, Callback
      <4>2. QED  BY <3>1, <3>2, <3>3, <3>4, <3>5, <4>1 DEF FramesHold, One
    <3>6. CASE slot.frame # NoFrame
      <4>1. callback'.displaced = TRUE  BY <2>2, <3>6 DEF Replace, RunTypeOK, Callback
      <4>2. QED  BY <3>1, <3>2, <3>3, <3>4, <3>6, <4>1 DEF FramesHold, One
    <3>7. QED  BY <3>5, <3>6
  <2>3. CASE Count
    <3>1. /\ callback.at = "replaced" /\ callback'.at = "decoded"
          /\ callback.displaced \in BOOLEAN
      BY <2>3 DEF Count, RunTypeOK, Callback
    <3>2. /\ slot'.frame = slot.frame /\ slot'.published = slot.published + 1
          /\ slot'.superseded = IF callback.displaced THEN slot.superseded + 1 ELSE slot.superseded
      BY <2>3 DEF Count, RunTypeOK, Slot
    <3>3. UNCHANGED <<main, render, counters>>  BY <2>3 DEF Count, callbackOnly
    <3>4. slot.published \in Nat /\ slot.superseded \in Nat /\ counters.rendered \in Nat
        /\ counters.missed \in Nat
      BY DEF RunTypeOK, Slot, Counters
    <3>5. CASE callback.displaced = TRUE  BY <3>1, <3>2, <3>3, <3>4, <3>5 DEF FramesHold, One
    <3>6. CASE callback.displaced = FALSE  BY <3>1, <3>2, <3>3, <3>4, <3>6 DEF FramesHold, One
    <3>7. QED  BY <3>1, <3>5, <3>6
  <2>4. CASE Settle
    <3>1. /\ callback.at # "replaced" /\ callback'.at # "replaced"
          /\ UNCHANGED <<main, slot, render, counters>>
      BY <2>4 DEF Settle, callbackOnly, NoCallback
    <3>2. QED  BY <3>1 DEF FramesHold, One
  <2>5. QED  BY <1>2, <2>1, <2>2, <2>3, <2>4 DEF CallbackStep
<1>3. CASE RenderStep
  <2>1. CASE Tick
    <3>1. counters'.rendered = counters.rendered /\ counters'.missed = counters.missed
      BY <2>1 DEF Tick, RunTypeOK, Counters
    <3>2. render.at # "drawing" /\ render'.at # "drawing"  BY <2>1 DEF Tick, RunTypeOK, Render
    <3>3. UNCHANGED <<main, callback, slot>>  BY <2>1 DEF Tick, renderOnly
    <3>4. QED  BY <3>1, <3>2, <3>3 DEF FramesHold
  <2>2. CASE TakeNothing
    <3>1. counters'.rendered = counters.rendered /\ counters'.missed = counters.missed
      BY <2>2 DEF TakeNothing, RunTypeOK, Counters
    <3>2. render.at # "drawing" /\ render'.at # "drawing"  BY <2>2
        DEF TakeNothing, RunTypeOK, Render
    <3>3. UNCHANGED <<main, callback, slot>>  BY <2>2 DEF TakeNothing, renderOnly
    <3>4. QED  BY <3>1, <3>2, <3>3 DEF FramesHold
  <2>3. CASE TakeFrame
    <3>1. /\ slot.frame # NoFrame /\ slot'.frame = NoFrame
          /\ slot'.published = slot.published /\ slot'.superseded = slot.superseded
      BY <2>3 DEF TakeFrame, RunTypeOK, Slot
    <3>2. render.at = "tick" /\ render'.at = "drawing"  BY <2>3 DEF TakeFrame
    <3>3. UNCHANGED <<main, callback, counters>>  BY <2>3 DEF TakeFrame, renderOnly
    <3>4. slot.published \in Nat /\ slot.superseded \in Nat /\ counters.rendered \in Nat
        /\ counters.missed \in Nat
      BY DEF RunTypeOK, Slot, Counters
    <3>5. QED  BY <3>1, <3>2, <3>3, <3>4 DEF FramesHold, One
  <2>4. CASE Present
    <3>1. counters'.rendered = counters.rendered + 1 /\ counters'.missed = counters.missed
      BY <2>4 DEF Present, RunTypeOK, Counters
    <3>2. render.at = "drawing" /\ render'.at = "idle"  BY <2>4 DEF Present
    <3>3. UNCHANGED <<main, callback, slot>>  BY <2>4 DEF Present, renderOnly
    <3>4. slot.published \in Nat /\ slot.superseded \in Nat /\ counters.rendered \in Nat
        /\ counters.missed \in Nat
      BY DEF RunTypeOK, Slot, Counters
    <3>5. QED  BY <3>1, <3>2, <3>3, <3>4 DEF FramesHold, One
  <2>5. CASE MissDrawable
    <3>1. counters'.missed = counters.missed + 1 /\ counters'.rendered = counters.rendered
      BY <2>5 DEF MissDrawable, RunTypeOK, Counters
    <3>2. render.at = "drawing" /\ render'.at = "idle"  BY <2>5 DEF MissDrawable
    <3>3. UNCHANGED <<main, callback, slot>>  BY <2>5 DEF MissDrawable, renderOnly
    <3>4. slot.published \in Nat /\ slot.superseded \in Nat /\ counters.rendered \in Nat
        /\ counters.missed \in Nat
      BY DEF RunTypeOK, Slot, Counters
    <3>5. QED  BY <3>1, <3>2, <3>3, <3>4 DEF FramesHold, One
  <2>6. CASE RenderFails
    BY <2>6 DEF RenderFails, renderOnly, FramesHold
  <2>7. CASE CloseRenderer
    <3>1. render.at = "idle" /\ render'.at = "closed" /\ main # "failed"  BY <2>7
        DEF CloseRenderer, RunTypeOK, Render
    <3>2. UNCHANGED <<callback, slot, counters>>  BY <2>7 DEF CloseRenderer, renderOnly
    <3>3. QED  BY <3>1, <3>2 DEF FramesHold
  <2>8. QED  BY <1>3, <2>1, <2>2, <2>3, <2>4, <2>5, <2>6, <2>7 DEF RenderStep
<1>4. CASE WatchStep
  <2>1. UNCHANGED <<main, slot, render, counters, callback>>
    BY <1>4 DEF WatchStep, WatchSleep, WatchPoll, Mark, WatchEnds, watchOnly
  <2>2. QED  BY <2>1 DEF FramesHold
<1>5. CASE Start
  <2>1. main # "failed" /\ render'.at # "drawing" /\ UNCHANGED <<callback, slot, counters>>
    BY <1>5 DEF Start, RunTypeOK, Render
  <2>2. render.at # "drawing"  BY <1>5 DEF Start, DecoderSettled
  <2>3. QED  BY <2>1, <2>2 DEF FramesHold
<1>6. CASE Join
  <2>1. main # "failed" /\ UNCHANGED <<callback, slot, counters, render>>
    BY <1>6 DEF Join, watchOnly
  <2>2. QED  BY <2>1 DEF FramesHold
<1>7. CASE UNCHANGED runVars
  BY <1>7 DEF runVars, FramesHold
<1>8. QED  BY <1>1, <1>2, <1>3, <1>4, <1>5, <1>6, <1>7 DEF RunNext

-----------------------------------------------------------------------------
\* The invariant, from the start of a run and over every step.
LEMMA RunInit_RunInv == RunInit => RunInv
<1> SUFFICES ASSUME RunInit PROVE RunInv
  OBVIOUS
<1>1. RunTypeOK
  <2>1. receiver \in Receiver /\ watchdog \in Watchdog
    BY RunAssumption DEF RunInit, Receiver, Watchdog
  <2>2. tally \in Tally /\ slot \in Slot /\ render \in Render
    BY DEF RunInit, Tally, Slot, Render
  <2>3. callback \in Callback  BY DEF RunInit, Callback, NoCallback
  <2>4. counters \in Counters /\ span \in Counters  BY DEF RunInit, Counters, FreshCounters
  <2>5. queue \in Seq(Unit)  BY DEF RunInit
  <2>6. main \in {"starting", "rendering", "joining", "reported", "failed"} /\ stop \in BOOLEAN
    BY DEF RunInit
  <2>7. progress \in Nat /\ inFlight \in Int /\ trailing \in Int  BY DEF RunInit
  <2>8. QED  BY <2>1, <2>2, <2>3, <2>4, <2>5, <2>6, <2>7 DEF RunTypeOK
<1>2. DecoderSettled  BY DEF RunInit, DecoderSettled, NoCallback, One
<1>3. BacklogHolds  BY DEF RunInit, BacklogHolds, Outstanding, One
<1>4. FramesHold  BY DEF RunInit, FramesHold, NoCallback, FreshCounters, One
<1>5. QED  BY <1>1, <1>2, <1>3, <1>4 DEF RunInv

\* Every step of every thread keeps it.
LEMMA RunStep_RunInv == RunInv /\ [RunNext]_runVars => RunInv'
  BY RunTypeStep, SettledStep, BacklogStep, FramesStep DEF RunInv

\* The invariant the three theorems below are parts of.
THEOREM RunInvariance == RunSpec => []RunInv
<1>1. QED  BY RunInit_RunInv, RunStep_RunInv, PTL DEF RunSpec

\* The types of a run: receive thread, decoder, slot, render loop, watchdog.
THEOREM ClientRunTypeCorrect == RunSpec => []RunTypeOK
<1>1. RunInv => RunTypeOK  BY DEF RunInv
<1>2. QED  BY <1>1, RunInvariance, PTL

\* in_flight is what is between mark_submit and the end of its callback, in
\* every interleaving, is never below zero, and a run that reports has flushed.
THEOREM BacklogAlwaysExact == RunSpec => []BacklogIsExact
<1>1. RunInv => BacklogIsExact
  BY DEF RunInv, DecoderSettled, BacklogHolds, Outstanding, BacklogIsExact
<1>2. QED  BY <1>1, RunInvariance, PTL

\* Every picture that went through the slot is shown, superseded, held, or in
\* one thread's hands, whatever the threads' order.
THEOREM FramesAlwaysAccounted == RunSpec => []FramesAccounted
<1>1. ASSUME RunInv, main = "reported"
      PROVE  tally.decoded = slot.published
  <2>1. callback.at = "none"  BY <1>1 DEF RunInv, DecoderSettled, NoCallback
  <2>2. tally.decoded \in Nat  BY <1>1 DEF RunInv, RunTypeOK, Tally
  <2>3. QED  BY <1>1, <2>1, <2>2 DEF RunInv, DecoderSettled, One
<1>2. RunInv => FramesAccounted  BY <1>1 DEF RunInv, FramesHold, FramesAccounted
<1>3. QED  BY <1>2, RunInvariance, PTL
==============================================================================
