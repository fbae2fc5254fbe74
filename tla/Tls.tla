--------------------------------- MODULE Tls ---------------------------------
(***************************************************************************)
(* A TLS 1.3 connection of src/src/tls.cpp, from the ClientHello to the    *)
(* end of the stream: TlsClient::handshake, the record layer of TlsStream  *)
(* and a server that follows the protocol, one after the other at the two  *)
(* ends of a TCP connection that may break at any time.                    *)
(*                                                                         *)
(* Records and messages have nothing to do with each other: a message is   *)
(* Parts units, a record carries any number of units of the same kind, so  *)
(* that messages are split and joined.  A key is the epoch it belongs to   *)
(* and the transcript it was derived from, with the number of records it   *)
(* has served; a record can be opened by the same key at the same number.  *)
(* A signature or a MAC over the transcript is the transcript itself.      *)
(***************************************************************************)
EXTENDS Naturals, Sequences

CONSTANTS
  Servers,   \* the servers met: [chain, asks, splits, post]
  Spare,     \* bound: ChangeCipherSpec and empty records a server sends
  Blocks,    \* blocks of application data a server answers
  Requests,  \* records the request takes
  Parts,     \* units of a message
  Room,      \* bound: records on their way to the client
  Cap        \* blocks the caller asks for at most in one read

ASSUME SizesAssumption ==
  /\ Blocks \in Nat /\ Requests \in Nat /\ Spare \in Nat /\ Parts \in Nat \ {0}
  /\ Room \in Nat \ {0} /\ Cap \in Nat \ {0}

(* chain: is its certificate chain good, as x509 and the trust store see it; *)
(* asks: it wants a certificate of the client; splits: its ServerHello      *)
(* takes two records; post: the messages it sends after the handshake.      *)
ASSUME ServersAssumption ==
  Servers \subseteq [chain : {"good", "bad"}, asks : BOOLEAN,
                     splits : BOOLEAN, post : Seq({"NewSessionTicket", "KeyUpdate"})]

VARIABLES
  (* the client *)
  pc,
  transcript,    \* hs.transcript: the messages in order
  presented,     \* has a certificate been presented
  certVerified,  \* cert_verified
  readKey, writeKey,
  buffer,        \* hs_buffer, then handshake_buffer_
  readBuffer,    \* read_buffer_
  written,       \* records of the request written
  got,           \* what read_some has returned
  closed,        \* closed_
  (* the connection *)
  down, up,      \* records on their way to the client and to the server
  cut,           \* has the server closed the connection, or has it broken,
                 \* or garbled a record
  forged,        \* has it made a record a close_notify in the clear
  (* the server *)
  server, srv,
  srvTranscript,
  srvKey,        \* with which it seals
  srvOpens,      \* with which it opens
  todo,          \* units of messages it has still to send
  spare,         \* ChangeCipherSpec and empty records it may still send
  asked,         \* records of the request it has received
  answered,      \* blocks it has sent
  notified,      \* has it sent close_notify
  (* observation *)
  sealed         \* the keys and numbers the client has sealed records with,
                 \* whether they were written or not

client  == <<pc, transcript, presented, certVerified, readKey, writeKey, buffer,
             readBuffer, written, got, closed>>
machine == <<server, srv, srvTranscript, srvKey, srvOpens, todo, spare, asked,
             answered, notified>>
vars == <<client, down, up, cut, forged, machine, sealed>>

Key(epoch, over) == [epoch |-> epoch, over |-> over, seq |-> 0]
NoKey == Key("none", <<>>)
Used(key) == [key EXCEPT !.seq = @ + 1]

Record(type, key, inner, body) ==
  [type |-> type, key |-> key, inner |-> inner, body |-> body]
Plain(type, body)        == Record(type, NoKey, type, body)
Sealed(key, inner, body) == Record("data", key, inner, body)
ChangeCipherSpec == Plain("ccs", <<>>)

(* The units of a message.                                                  *)
Units(m, over) == [i \in 1 .. Parts |-> [m |-> m, part |-> i, over |-> over]]

Answer == [i \in 1 .. Blocks |-> i]

Init ==
  /\ pc = "start" /\ transcript = <<>>
  /\ presented = FALSE /\ certVerified = FALSE
  /\ readKey = NoKey /\ writeKey = NoKey
  /\ buffer = <<>> /\ readBuffer = <<>> /\ written = 0 /\ got = <<>>
  /\ closed = FALSE
  /\ down = <<>> /\ up = <<>> /\ cut = "no" /\ forged = FALSE
  /\ server \in Servers /\ srv = "wait hello" /\ srvTranscript = <<>>
  /\ srvKey = NoKey /\ srvOpens = NoKey
  /\ todo = <<>> /\ spare = Spare /\ asked = 0 /\ answered = 0 /\ notified = FALSE
  /\ sealed = <<>>

-----------------------------------------------------------------------------
(* Writing.  A write to a connection that has broken may fail; the record   *)
(* has been sealed and counted by then.  Mutant: a record is counted when   *)
(* it has been written.                                                     *)
Gone == cut \in {"closed", "broken"}
Fail == pc' = "failed"

Mutant_CountsWritten(key, goesOut) == IF goesOut THEN Used(key) ELSE key
Counts(key, goesOut) == Used(key)

SendHello ==
  /\ pc = "start"
  /\ \/ /\ up' = Append(up, Plain("handshake", Units("ClientHello", <<>>)))
        /\ transcript' = <<"ClientHello">>
        /\ pc' = "server hello"
     \/ Gone /\ Fail /\ UNCHANGED <<up, transcript>>
  /\ UNCHANGED <<presented, certVerified, readKey, writeKey, buffer, readBuffer,
                 written, got, closed, down, cut, forged, machine, sealed>>

-----------------------------------------------------------------------------
(* Reading.  The next record is taken from the connection, or the           *)
(* connection is at its end, which read_exact reports as an error.          *)
Reading == pc \in {"server hello", "flight"}
           \/ (pc = "open" /\ written = Requests /\ readBuffer = <<>>)

NextRecord(type) ==
  /\ down # <<>> /\ Head(down).type = type
  /\ down' = Tail(down)

ConnectionEnds ==
  /\ Reading /\ Gone /\ down = <<>>
  /\ Fail
  /\ UNCHANGED <<transcript, presented, certVerified, readKey, writeKey, buffer,
                 readBuffer, written, got, closed, down, up, cut, forged, machine, sealed>>

SkipChangeCipherSpec ==
  /\ Reading /\ NextRecord("ccs")
  /\ UNCHANGED <<client, up, cut, forged, machine, sealed>>

(* An alert: close_notify ends an open stream, and a handshake fails.       *)
AfterAlert == IF pc = "open" /\ Head(down).body = <<"close_notify">>
              THEN "ended" ELSE "failed"

PlainAlert ==
  /\ Reading /\ NextRecord("alert")
  /\ pc' = AfterAlert
  /\ UNCHANGED <<transcript, presented, certVerified, readKey, writeKey, buffer,
                 readBuffer, written, got, closed, up, cut, forged, machine, sealed>>

(* The ServerHello has to be in one record; the keys of the handshake are   *)
(* derived from the transcript that ends with it.                           *)
ReadServerHello ==
  /\ pc = "server hello"
  /\ \/ /\ NextRecord("handshake")
        /\ Len(Head(down).body) >= Parts
        /\ transcript' = Append(transcript, "ServerHello")
        /\ readKey' = Key("handshake", transcript')
        /\ pc' = "flight"
     \/ /\ \/ NextRecord("handshake") /\ Len(Head(down).body) < Parts
           \/ NextRecord("data")
        /\ Fail
        /\ UNCHANGED <<transcript, readKey>>
  /\ UNCHANGED <<presented, certVerified, writeKey, buffer, readBuffer, written,
                 got, closed, up, cut, forged, machine, sealed>>

(* read_record once keys are installed: a key opens its records in turn.    *)
Opened(key) == Used(key)

Unreadable ==
  /\ Reading /\ pc # "server hello"
  /\ \/ NextRecord("handshake")
     \/ NextRecord("data") /\ Head(down).key # readKey
  /\ Fail
  /\ UNCHANGED <<transcript, presented, certVerified, readKey, writeKey, buffer,
                 readBuffer, written, got, closed, up, cut, forged, machine, sealed>>

Open(inner) ==
  /\ NextRecord("data") /\ Head(down).key = readKey
  /\ Head(down).inner = inner
  /\ readKey' = Opened(readKey)

ReadAlert ==
  /\ Reading /\ Open("alert")
  /\ pc' = AfterAlert
  /\ UNCHANGED <<transcript, presented, certVerified, writeKey, buffer,
                 readBuffer, written, got, closed, up, cut, forged, machine, sealed>>

ReadFlight ==
  /\ pc = "flight"
  /\ \E inner \in {"handshake", "data"} : Open(inner)
  /\ buffer' = buffer \o Head(down).body
  /\ pc' = "messages"
  /\ UNCHANGED <<transcript, presented, certVerified, writeKey, readBuffer,
                 written, got, closed, up, cut, forged, machine, sealed>>

-----------------------------------------------------------------------------
(* The messages of the server's flight.  Mutant: a message that ends the    *)
(* buffer is not complete.                                                  *)
Mutant_CompleteBefore == Len(buffer) > Parts
Complete == Len(buffer) >= Parts
Front    == buffer[1]
Behind   == SubSeq(buffer, Parts + 1, Len(buffer))

NeedMore ==
  /\ pc = "messages" /\ ~Complete
  /\ pc' = "flight"
  /\ UNCHANGED <<transcript, presented, certVerified, readKey, writeKey, buffer,
                 readBuffer, written, got, closed, down, up, cut, forged, machine, sealed>>

(* process_handshake_message: is the message accepted?  Mutant: the message *)
(* itself is already in the transcript.                                     *)
Mutant_SignsItself(m) == m.over = Append(transcript, m.m)
Signs(m) == m.over = transcript

Accepts(m) ==
  CASE m.m = "Certificate"       -> server.chain = "good"
    [] m.m = "CertificateVerify" -> presented /\ Signs(m)
    [] m.m = "Finished"          -> Signs(m) /\ certVerified
    [] OTHER                     -> TRUE

ProcessMessage ==
  /\ pc = "messages" /\ Complete
  /\ buffer' = Behind
  /\ \/ /\ Accepts(Front)
        /\ transcript' = Append(transcript, Front.m)
        /\ presented' = (presented \/ Front.m = "Certificate")
        /\ certVerified' = (certVerified \/ Front.m = "Certificate")
        /\ pc' = IF Front.m = "Finished" THEN "finish" ELSE "messages"
     \/ /\ ~Accepts(Front)
        /\ Fail /\ UNCHANGED <<transcript, presented, certVerified>>
  /\ UNCHANGED <<readKey, writeKey, readBuffer, written, got, closed, down, up,
                 cut, forged, machine, sealed>>

(* The application keys are derived before the client's Finished is added   *)
(* to the transcript; it is sealed with a key of the handshake, after a     *)
(* ChangeCipherSpec.  When it is the Finished that cannot be written, the   *)
(* key of the handshake stays.                                              *)
ApplicationKey == Key("application", transcript)
FinishedKey == Key("handshake", SubSeq(transcript, 1, 2))

SendFinished ==
  /\ pc = "finish"
  /\ \/ /\ up' = up \o <<ChangeCipherSpec,
                         Sealed(FinishedKey, "handshake",
                                Units("ClientFinished", transcript))>>
        /\ sealed' = Append(sealed, FinishedKey)
        /\ transcript' = Append(transcript, "ClientFinished")
        /\ readKey' = ApplicationKey /\ writeKey' = ApplicationKey
        /\ pc' = "open"
        /\ buffer' = <<>>
     \/ /\ Gone /\ Fail
        /\ \/ UNCHANGED <<up, sealed, writeKey>>
           \/ /\ up' = Append(up, ChangeCipherSpec)
              /\ sealed' = Append(sealed, FinishedKey)
              /\ writeKey' = Counts(FinishedKey, FALSE)
        /\ UNCHANGED <<transcript, readKey, buffer>>
  /\ UNCHANGED <<presented, certVerified, readBuffer, written, got, closed, down,
                 cut, forged, machine>>

-----------------------------------------------------------------------------
(* The open stream.  write_records seals the request, a record at a time.   *)
WriteRecord ==
  /\ pc = "open" /\ written < Requests
  /\ sealed' = Append(sealed, writeKey)
  /\ \/ /\ up' = Append(up, Sealed(writeKey, "data", <<>>))
        /\ writeKey' = Counts(writeKey, TRUE)
        /\ written' = written + 1
        /\ UNCHANGED pc
     \/ /\ Gone /\ Fail
        /\ writeKey' = Counts(writeKey, FALSE)
        /\ UNCHANGED <<up, written>>
  /\ UNCHANGED <<transcript, presented, certVerified, readKey, buffer,
                 readBuffer, got, closed, down, cut, forged, machine>>

Smaller(a, b) == IF a <= b THEN a ELSE b
First(s, n) == SubSeq(s, 1, Smaller(n, Len(s)))
(* Mutant: what does not fit the caller's buffer is dropped.                *)
Mutant_BeyondDropped(s, n) == <<>>
Beyond(s, n) == SubSeq(s, Smaller(n, Len(s)) + 1, Len(s))

(* read_some: what is left of the last record, or else the next record.     *)
ReadBuffered ==
  /\ pc = "open" /\ written = Requests /\ readBuffer # <<>>
  /\ \E cap \in 1 .. Cap : /\ got' = got \o First(readBuffer, cap)
                           /\ readBuffer' = Beyond(readBuffer, cap)
  /\ UNCHANGED <<pc, transcript, presented, certVerified, readKey, writeKey,
                 buffer, written, closed, down, up, cut, forged, machine, sealed>>

ReadData ==
  /\ Reading /\ pc = "open" /\ Open("data")
  /\ \E cap \in 1 .. Cap : /\ got' = got \o First(Head(down).body, cap)
                           /\ readBuffer' = Beyond(Head(down).body, cap)
  /\ UNCHANGED <<pc, transcript, presented, certVerified, writeKey, buffer,
                 written, closed, up, cut, forged, machine, sealed>>

(* handle_post_handshake: complete messages are taken out of the buffer; a  *)
(* KeyUpdate is not supported.                                              *)
Taken(all) == Len(all) - (Len(all) % Parts)
Left(all) == SubSeq(all, Taken(all) + 1, Len(all))

ReadPostHandshake ==
  /\ Reading /\ pc = "open" /\ Open("handshake")
  /\ LET all == buffer \o Head(down).body IN
        /\ buffer' = Left(all)
        /\ pc' = IF \E i \in 1 .. Taken(all) : all[i].m = "KeyUpdate"
                 THEN "failed" ELSE pc
  /\ UNCHANGED <<transcript, presented, certVerified, writeKey, readBuffer,
                 written, got, closed, up, cut, forged, machine, sealed>>

(* close, by the caller or by the destructor: close_notify is sent if there *)
(* is a key to seal it with; that it could not be written is ignored.       *)
Close ==
  /\ ~closed /\ closed' = TRUE
  /\ \/ pc \in {"ended", "failed"} /\ UNCHANGED pc
     \/ pc = "open" /\ got # <<>> /\ pc' = "left"
  /\ IF writeKey.epoch # "none"
     THEN /\ up' = Append(up, Sealed(writeKey, "alert", <<"close_notify">>))
          /\ sealed' = Append(sealed, writeKey)
          /\ writeKey' = Counts(writeKey, ~Gone)
     ELSE UNCHANGED <<up, sealed, writeKey>>
  /\ UNCHANGED <<transcript, presented, certVerified, readKey, buffer,
                 readBuffer, written, got, down, cut, forged, machine>>

Client ==
  \/ SendHello \/ ConnectionEnds
  \/ SkipChangeCipherSpec \/ PlainAlert \/ Unreadable
  \/ ReadServerHello \/ ReadAlert \/ ReadFlight
  \/ NeedMore \/ ProcessMessage \/ SendFinished
  \/ WriteRecord \/ ReadBuffered \/ ReadData \/ ReadPostHandshake
  \/ Close

-----------------------------------------------------------------------------
(* A server that follows RFC 8446.                                          *)
Hellos == <<"ClientHello", "ServerHello">>
Flight == <<"EncryptedExtensions">>
            \o (IF server.asks THEN <<"CertificateRequest">> ELSE <<>>)
            \o <<"Certificate", "CertificateVerify", "Finished">>

(* The units of these messages, after a transcript that they extend.        *)
UnitsOf(msgs, before) ==
  [k \in 1 .. Parts * Len(msgs) |->
     LET i == (k - 1) \div Parts + 1 IN
     [m |-> msgs[i], part |-> ((k - 1) % Parts) + 1,
      over |-> IF msgs[i] \in {"CertificateVerify", "Finished"}
               THEN before \o SubSeq(msgs, 1, i - 1) ELSE <<>>]]

Send(records) == Len(down) < Room /\ down' = down \o records

SrvHello ==
  /\ srv = "wait hello" /\ up # <<>> /\ up' = Tail(up)
  /\ LET units == Units("ServerHello", <<>>)
     IN Send(IF server.splits
             THEN <<Plain("handshake", First(units, 1)),
                    Plain("handshake", Beyond(units, 1))>>
             ELSE <<Plain("handshake", units)>>)
  /\ srvTranscript' = Hellos
  /\ srvKey' = Key("handshake", Hellos) /\ srvOpens' = srvKey'
  /\ todo' = UnitsOf(Flight, Hellos)
  /\ srv' = "flight"
  /\ UNCHANGED <<client, cut, forged, server, spare, asked, answered, notified, sealed>>

SrvChangeCipherSpec ==
  /\ srv = "flight" /\ spare > 0 /\ spare' = spare - 1
  /\ Send(<<ChangeCipherSpec>>)
  /\ UNCHANGED <<client, up, cut, forged, server, srv, srvTranscript, srvKey, srvOpens,
                 todo, asked, answered, notified, sealed>>

(* Messages in records, however they fall.                                  *)
SrvMessages ==
  /\ srv \in {"flight", "open"} /\ todo # <<>>
  /\ \E n \in 1 .. Len(todo) :
       /\ Send(<<Sealed(srvKey, "handshake", SubSeq(todo, 1, n))>>)
       /\ todo' = SubSeq(todo, n + 1, Len(todo))
  /\ IF srv = "flight" /\ todo' = <<>>
     THEN /\ srv' = "wait finished"
          /\ srvTranscript' = srvTranscript \o Flight
          /\ srvKey' = Key("application", srvTranscript')
     ELSE srvKey' = Used(srvKey) /\ UNCHANGED <<srv, srvTranscript>>
  /\ UNCHANGED <<client, up, cut, forged, server, srvOpens, spare, asked, answered,
                 notified, sealed>>

(* A record of the client: its Finished, its request, its close_notify; any *)
(* other is answered by an alert, as is a Finished without the certificate  *)
(* the server wants.                                                        *)
IsFinished(r) == /\ srv = "wait finished" /\ r.key = srvOpens
                 /\ r.body = Units("ClientFinished", srvTranscript)
IsRequest(r)  == srv = "open" /\ r.key = srvOpens /\ r.inner = "data"
IsNotify(r)   == srv = "open" /\ r.key = srvOpens /\ r.inner = "alert"

SrvRecord ==
  /\ srv \in {"flight", "wait finished", "open"} /\ up # <<>>
  /\ up' = Tail(up)
  /\ LET r == Head(up) IN
     \/ /\ r.type = "ccs"
        /\ UNCHANGED <<srv, srvTranscript, srvOpens, todo, asked, down>>
     \/ /\ r.type = "data" /\ IsFinished(r) /\ ~server.asks
        /\ srvOpens' = Key("application", srvTranscript)
        /\ srvTranscript' = Append(srvTranscript, "ClientFinished")
        /\ todo' = UnitsOf(server.post, <<>>)
        /\ srv' = "open"
        /\ UNCHANGED <<asked, down>>
     \/ /\ r.type = "data" /\ IsRequest(r)
        /\ srvOpens' = Used(srvOpens) /\ asked' = asked + 1
        /\ UNCHANGED <<srv, srvTranscript, todo, down>>
     \/ /\ r.type = "data" /\ IsNotify(r)
        /\ srv' = "done"
        /\ UNCHANGED <<srvTranscript, srvOpens, todo, asked, down>>
     \/ /\ r.type = "data" /\ ~IsRequest(r) /\ ~IsNotify(r)
        /\ IsFinished(r) => server.asks
        /\ srv' = IF IsFinished(r) THEN "refuses" ELSE "appalled"
        /\ down' = Append(down, Sealed(srvKey, "alert", <<"unexpected_message">>))
        /\ UNCHANGED <<srvTranscript, srvOpens, todo, asked>>
  /\ UNCHANGED <<client, cut, forged, server, srvKey, spare, answered, notified, sealed>>

(* The answer, between messages, in records that may be empty.              *)
SrvData ==
  /\ srv = "open" /\ asked = Requests
  /\ todo # <<>> => todo[1].part = 1
  /\ \E n \in 0 .. Blocks - answered :
       /\ Send(<<Sealed(srvKey, "data", SubSeq(Answer, answered + 1, answered + n))>>)
       /\ answered' = answered + n
       /\ IF n = 0 THEN spare > 0 /\ spare' = spare - 1 ELSE UNCHANGED spare
  /\ srvKey' = Used(srvKey)
  /\ UNCHANGED <<client, up, cut, forged, server, srv, srvTranscript, srvOpens, todo,
                 asked, notified, sealed>>

SrvNotify ==
  /\ srv = "open" /\ asked = Requests /\ answered = Blocks /\ todo = <<>>
  /\ Send(<<Sealed(srvKey, "alert", <<"close_notify">>)>>)
  /\ srv' = "done" /\ notified' = TRUE
  /\ UNCHANGED <<client, up, cut, forged, server, srvTranscript, srvKey, srvOpens, todo,
                 spare, asked, answered, sealed>>

(* A server that is done closes the connection.                             *)
SrvCloses ==
  /\ srv \in {"done", "refuses", "appalled"} /\ cut = "no"
  /\ cut' = "closed"
  /\ UNCHANGED <<client, down, up, forged, machine, sealed>>

Server == SrvHello \/ SrvChangeCipherSpec \/ SrvMessages \/ SrvRecord \/ SrvData
          \/ SrvNotify \/ SrvCloses

(* It may give up at any time, and the connection may break, with what is   *)
(* on its way.                                                              *)
SrvRefuses ==
  /\ srv \in {"wait hello", "flight", "wait finished", "open"}
  /\ Send(<<IF srv = "wait hello" THEN Plain("alert", <<"handshake_failure">>)
            ELSE Sealed(srvKey, "alert", <<"internal_error">>)>>)
  /\ srv' = "refuses"
  /\ UNCHANGED <<client, up, cut, forged, server, srvTranscript, srvKey, srvOpens, todo,
                 spare, asked, answered, notified, sealed>>

Break ==
  /\ cut # "broken" /\ cut' = "broken"
  /\ srv' = "gone" /\ up' = <<>>
  /\ \E n \in 0 .. Len(down) : down' = SubSeq(down, 1, n)
  /\ UNCHANGED <<client, forged, server, srvTranscript, srvKey, srvOpens, todo,
                 spare, asked, answered, notified, sealed>>

(* One record may arrive as another, in the clear: an alert is believed     *)
(* whether it is sealed or not.                                             *)
ClearNotify == Plain("alert", <<"close_notify">>)
Clear == {Plain(type, <<>>) : type \in {"data", "handshake", "alert"}} \cup {ClearNotify}
Garble ==
  /\ cut = "no" /\ cut' = "garbled"
  /\ \E i \in DOMAIN down, record \in Clear :
       /\ down' = [down EXCEPT ![i] = record]
       /\ IF record = ClearNotify THEN forged' = TRUE ELSE UNCHANGED forged
  /\ UNCHANGED <<client, up, machine, sealed>>

Next == Client \/ Server \/ SrvRefuses \/ Break \/ Garble
Spec == Init /\ [][Next]_vars

(* Both ends go on: the client is sequential code, and this server answers  *)
(* (one that falls silent is the subject of Http).                          *)
FairSpec == Spec /\ WF_vars(Client) /\ WF_vars(Server)

-----------------------------------------------------------------------------
(* PROPERTIES                                                               *)

(* A connection to a server that follows the protocol only fails for a      *)
(* reason of the server or of the connection, however the messages fall     *)
(* into records: never because the two ends disagree on a key, a record     *)
(* number or the transcript.  What the client does not do is a reason too:  *)
(* a ServerHello in two records, a client certificate, a KeyUpdate.         *)
KeyUpdateSent ==
  /\ \E i \in DOMAIN server.post : server.post[i] = "KeyUpdate"
  /\ srv # "wait finished" /\ Len(srvTranscript) > Len(Hellos \o Flight)
NoFalseAlarm ==
  /\ srv # "appalled"
  /\ pc = "failed" =>
       \/ cut \in {"broken", "garbled"} \/ srv = "refuses"
       \/ server.chain = "bad" \/ server.splits
       \/ KeyUpdateSent

(* The application data of the connection is a Stream: the blocks arrive in *)
(* order, each once, and read_some returns 0 only when those of a server    *)
(* that is done are all read, or when a record arrived as a close_notify in *)
(* the clear, which tls.cpp:229-236 takes for the server's.                 *)
Stream == INSTANCE ByteStream
            WITH sent     <- SubSeq(Answer, 1, answered),
                 finished <- notified,
                 forged   <- forged,
                 state    <- CASE pc = "ended" -> "ended"
                               [] pc = "failed" -> "failed"
                               [] OTHER -> "open"
StreamSpec == Stream!Spec

(* No key seals two records under one number, whatever is sent when and     *)
(* whichever write fails: not the Finished and the request, nor a record    *)
(* that could not be written and the close_notify after it.                 *)
NonceFresh == \A i, j \in DOMAIN sealed : sealed[i] = sealed[j] => i = j

(* A connection comes to an end: neither side waits for the other, and what *)
(* is on its way is read.                                                   *)
Concludes == <>closed
=============================================================================
