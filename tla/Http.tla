-------------------------------- MODULE Http --------------------------------
(***************************************************************************)
(* One call of http_request (src/src/net.cpp): the addresses of a host are *)
(* tried in turn, the request is written, the response is read from a      *)
(* stream that delivers it in pieces of any size and may end anywhere, its *)
(* framing is undone, redirects are followed and the body is decoded.      *)
(*                                                                         *)
(* A response is the lines of its head, each arriving as a whole, and then *)
(* the bytes of its body.  Over http the stream is a socket, which ends in *)
(* the same way whether the server is done or died; over https it is a TLS *)
(* stream, which ends with a close_notify, be it the server's or forged on *)
(* the way, or with an error.  A read never times out: connect leaves the  *)
(* socket in blocking mode, so read_some waits in recv and never polls.    *)
(***************************************************************************)
EXTENDS Inflate

CONSTANTS
  Requests,     \* the requests made: [method, body, follow]
  Responses(_), \* what servers answer after so many redirects: [status,
                \* fields, body, entity]; a malformed status line is status 0
  AddressLists, \* what resolving a host yields: how connecting to each ends
  Ends,         \* how a stream may end, of EndKinds
  ReadCap,      \* the buffer of a read, in lines or bytes
  HeaderCap,    \* kHeaderCap
  MaxResponse,  \* max_response_bytes
  MaxRedirects  \* max_redirects

Methods   == {"GET", "HEAD", "POST"}
Schemes   == {"http", "https"}
Redirects == {301, 302, 303, 307, 308}
EndKinds  == {"notify", "closed", "reset", "silent"}

ASSUME RequestsAssumption ==
  Requests \subseteq [method : Methods, body : BOOLEAN, follow : BOOLEAN]
(* What may be received; the value of a Content-Length is a number.         *)
Response(r) ==
  /\ r.body \in Seq(Byte)
  /\ Len(r.fields) \in Nat /\ DOMAIN r.fields = 1 .. Len(r.fields)
  /\ \A i \in DOMAIN r.fields :
       r.fields[i].name = "content-length" => r.fields[i].value \in Nat
ASSUME ResponsesAssumption ==
  \A hops \in 0 .. MaxRedirects : \A r \in Responses(hops) : Response(r)
ASSUME AddressAssumption == AddressLists \subseteq Seq({"accepts", "refuses"})
ASSUME EndsAssumption   == Ends \subseteq EndKinds
ASSUME BoundsAssumption ==
  ReadCap \in Nat \ {0} /\ HeaderCap \in Nat /\ MaxResponse \in Nat
  /\ MaxRedirects \in Nat

VARIABLES
  pc,
  asked,      \* the request of the caller
  req,        \* req: the request of this exchange
  scheme,     \* of url
  redirects,
  followed,   \* observation: the statuses of the redirects followed
  addrs,      \* the addresses not yet tried
  conn,       \* the stream: what is sent on it, where and how it ends, how
              \* much has been read
  resp,       \* the parsed head: status and the fields by name
  body,       \* the bytes of the body, as received
  pos,        \* where the next chunk begins in it
  size,       \* the size of this chunk
  decoded,    \* the chunks put together
  received,   \* resp.bytes_received
  inflating,  \* the decoder: the arguments and variables of inflate_impl
  result

exchange == <<asked, req, scheme, redirects, followed, addrs>>
framing  == <<body, pos, size, decoded, received>>
vars == <<pc, exchange, conn, resp, framing, inflating, result>>

None  == "none"
NoResp == [status |-> 0, fields |-> <<>>]
NoConn == [resp |-> [status |-> 0, fields |-> <<>>, body |-> <<>>, entity |-> <<>>],
           cut |-> 0, end |-> "closed", at |-> 0]
Idle   == Start(<<>>)

Larger(a, b)  == IF a <= b THEN b ELSE a

(* The lines of a head: the status line, the fields and the empty line.     *)
HeadLen(r)  == Len(r.fields) + 2
Total(r)    == HeadLen(r) + Len(r.body)

Init ==
  /\ pc = "resolve"
  /\ asked \in Requests /\ req = [method |-> asked.method, body |-> asked.body,
                                  fields |-> asked.body]
  /\ scheme \in Schemes /\ redirects = 0 /\ followed = {}
  /\ addrs = <<>> /\ conn = NoConn
  /\ resp = NoResp
  /\ body = <<>> /\ pos = 0 /\ size = 0 /\ decoded = <<>> /\ received = 0
  /\ inflating = Idle
  /\ result = [ok |-> FALSE]

Fail == pc' = "done" /\ result' = [ok |-> FALSE]

-----------------------------------------------------------------------------
(* dns_resolve and TcpStream::connect: the first address that accepts the   *)
(* connection is used; when none does the last failure is reported.         *)
Resolve ==
  /\ pc = "resolve"
  /\ \/ /\ \E list \in AddressLists : addrs' = list
        /\ pc' = "connect" /\ UNCHANGED result
     \/ Fail /\ UNCHANGED addrs
  /\ UNCHANGED <<asked, req, scheme, redirects, followed, conn, resp, framing,
                 inflating>>

Connect ==
  /\ pc = "connect"
  /\ \/ /\ addrs # <<>> /\ Head(addrs) = "accepts"
        /\ pc' = IF scheme = "https" THEN "handshake" ELSE "write"
        /\ UNCHANGED <<addrs, result>>
     \/ /\ addrs # <<>> /\ Head(addrs) # "accepts"
        /\ addrs' = Tail(addrs)
        /\ UNCHANGED <<pc, result>>
     \/ addrs = <<>> /\ Fail /\ UNCHANGED addrs
  /\ UNCHANGED <<asked, req, scheme, redirects, followed, conn, resp, framing,
                 inflating>>

(* TlsClient::handshake, as a whole.                                        *)
Handshake ==
  /\ pc = "handshake"
  /\ \/ pc' = "write" /\ UNCHANGED result
     \/ Fail
  /\ UNCHANGED <<exchange, conn, resp, framing, inflating>>

(* The request is written or the connection is lost; what the server will   *)
(* answer, and where and how its stream will end, is decided here.          *)
WriteRequest ==
  /\ pc = "write"
  /\ \/ /\ \E r \in Responses(redirects), end \in Ends : \E cut \in 0 .. Total(r) :
             conn' = [resp |-> r, cut |-> cut, end |-> end, at |-> 0]
        /\ pc' = "head" /\ UNCHANGED result
     \/ Fail /\ UNCHANGED conn
  /\ UNCHANGED <<exchange, resp, framing, inflating>>

-----------------------------------------------------------------------------
(* read_some: up to cap of what has been sent, or the end of the stream: a  *)
(* result of zero, or an error.  Over https a stream that ends without a    *)
(* close_notify is an error.                                                *)
AtEnd     == conn.at = conn.cut
EndsEmpty == AtEnd /\ (conn.end = "notify" \/ (conn.end = "closed" /\ scheme = "http"))
EndsError == AtEnd /\ (conn.end = "reset" \/ (conn.end = "closed" /\ scheme = "https"))

Arrives(n) == /\ n <= conn.cut - conn.at
              /\ conn' = [conn EXCEPT !.at = @ + n]

(* The bytes of the body among what has arrived from here to there.         *)
BodyBytes(from, to) ==
  LET h == HeadLen(conn.resp) IN SubSeq(conn.resp.body, from - h + 1, to - h)

(* read_headers: up to the empty line, or to the end of the stream once     *)
(* anything has arrived.                                                    *)
HeadComplete == conn.at >= HeadLen(conn.resp)

ReadHead ==
  /\ pc = "head" /\ ~HeadComplete
  /\ \/ /\ conn.at <= HeaderCap
        /\ \E n \in 1 .. ReadCap : Arrives(n)
        /\ UNCHANGED <<pc, result>>
     \/ /\ \/ conn.at > HeaderCap
           \/ EndsError
           \/ (EndsEmpty /\ conn.at = 0)
        /\ Fail /\ UNCHANGED conn
  /\ UNCHANGED <<exchange, resp, framing, inflating>>

(* The head is parsed as far as it has arrived.                             *)
FieldsOf(r, n) ==
  LET lines == {i \in DOMAIN r.fields : i < n}
      names == {r.fields[i].name : i \in lines}
  IN [f \in names |-> (CHOOSE i \in lines : r.fields[i].name = f)]

Field(name) == IF name \in DOMAIN resp.fields THEN resp.fields[name] ELSE None

Bodyless(status) == req.method = "HEAD" \/ status \in {100, 204, 304}

(* How the body is delimited; a transfer-encoding is the words it contains. *)
Framing(fields) ==
  IF /\ "transfer-encoding" \in DOMAIN fields
     /\ "chunked" \in fields["transfer-encoding"]
  THEN "chunk size"
  ELSE IF "content-length" \in DOMAIN fields THEN "length" ELSE "to the end"

ParseHead ==
  /\ pc = "head"
  /\ HeadComplete \/ (conn.at \in 1 .. HeaderCap /\ EndsEmpty)
  /\ LET r      == conn.resp
         index  == FieldsOf(r, conn.at)
         fields == [f \in DOMAIN index |-> r.fields[index[f]].value]
         first  == IF HeadComplete THEN BodyBytes(HeadLen(r), conn.at) ELSE <<>>
     IN IF r.status = 0
        THEN Fail /\ UNCHANGED <<resp, body, received>>
        ELSE /\ resp' = [status |-> r.status, fields |-> fields]
             /\ IF Bodyless(r.status)
                THEN pc' = "decode" /\ body' = <<>> /\ received' = 0
                ELSE /\ pc' = Framing(fields)
                     /\ body' = first /\ received' = Len(first)
             /\ UNCHANGED result
  /\ UNCHANGED <<exchange, conn, pos, size, decoded, inflating>>

-----------------------------------------------------------------------------
(* fill_to: one read of at most limit bytes.  Mutants: the limit is not     *)
(* checked; a read of nothing is taken for a short one.                     *)
Mutant_ExceedsNever(n) == FALSE
Exceeds(n) == n > MaxResponse
Mutant_CutShortByError == EndsError
CutShort == EndsEmpty \/ EndsError

Fill(limit) ==
  \/ /\ \E n \in 1 .. ReadCap :
          /\ n <= limit /\ Arrives(n)
          /\ body' = body \o BodyBytes(conn.at, conn.at + n)
          /\ received' = received + n
     /\ IF Exceeds(received') THEN Fail ELSE UNCHANGED <<pc, result>>
  \/ /\ CutShort
     /\ Fail /\ UNCHANGED <<conn, body, received>>

(* The size line of a chunk: white space, hexadecimal digits, and           *)
(* extensions that are ignored.  (A sign or a 0x, which std::stoll accepts, *)
(* is left out: no server writes one.)                                      *)
LineEnds == {i \in pos + 1 .. Len(body) - 1 : body[i] = 13 /\ body[i + 1] = 10}
HexDigit(b) == IF b \in 48 .. 57 THEN b - 48
               ELSE IF b \in 97 .. 102 THEN b - 87
               ELSE IF b \in 65 .. 70 THEN b - 55 ELSE 16
White == {9, 10, 13, 32}
HexValue(line) ==
  LET value[n \in 0 .. Len(line)] ==
        IF n = 0 THEN [len |-> 0, v |-> 0, on |-> TRUE]
        ELSE LET p == value[n - 1] IN
             IF p.on /\ HexDigit(line[n]) < 16
             THEN [p EXCEPT !.len = @ + 1, !.v = 16 * @ + HexDigit(line[n])]
             ELSE [p EXCEPT !.on = @ /\ p.len = 0 /\ line[n] \in White]
  IN value[Len(line)]

ReadSizeLine ==
  /\ pc = "chunk size" /\ LineEnds = {}
  /\ Fill(1)
  /\ UNCHANGED <<exchange, resp, pos, size, decoded, inflating>>

(* Mutant: the size is not followed by a line end of its own.               *)
Mutant_AfterSizeLine(end) == end
AfterSizeLine(end) == end + 1

TakeSizeLine ==
  /\ pc = "chunk size" /\ LineEnds # {}
  /\ LET end == First(LineEnds)
         hex == HexValue(SubSeq(body, pos + 1, end - 1))
     IN \/ /\ hex.len = 0 /\ Fail /\ UNCHANGED <<pos, size, body>>
        \/ /\ hex.len > 0 /\ hex.v = 0
           /\ body' = decoded /\ pc' = "decode"
           /\ UNCHANGED <<pos, size, result>>
        \/ /\ hex.len > 0 /\ hex.v > 0
           /\ pos' = AfterSizeLine(end) /\ size' = hex.v
           /\ pc' = "chunk"
           /\ UNCHANGED <<body, result>>
  /\ UNCHANGED <<exchange, conn, resp, decoded, received, inflating>>

ReadChunk ==
  /\ pc = "chunk" /\ Len(body) < pos + size + 2
  /\ Fill(pos + size + 2 - Len(body))
  /\ UNCHANGED <<exchange, resp, pos, size, decoded, inflating>>

TakeChunk ==
  /\ pc = "chunk" /\ Len(body) >= pos + size + 2
  /\ decoded' = decoded \o SubSeq(body, pos + 1, pos + size)
  /\ pos' = pos + size + 2
  /\ IF Exceeds(Len(decoded')) THEN Fail
     ELSE pc' = "chunk size" /\ UNCHANGED result
  /\ UNCHANGED <<exchange, conn, resp, body, size, received, inflating>>

ReadLength ==
  /\ pc = "length" /\ Len(body) < Field("content-length")
  /\ Fill(Field("content-length") - Len(body))
  /\ UNCHANGED <<exchange, resp, pos, size, decoded, inflating>>

TakeLength ==
  /\ pc = "length" /\ Len(body) >= Field("content-length")
  /\ body' = SubSeq(body, 1, Field("content-length"))
  /\ pc' = "decode"
  /\ UNCHANGED <<exchange, conn, resp, pos, size, decoded, received, inflating,
                 result>>

(* Neither: the end of the stream is the end of the body.                   *)
ReadToEnd ==
  /\ pc = "to the end"
  /\ \/ /\ \E n \in 1 .. ReadCap :
             /\ Arrives(n)
             /\ body' = body \o BodyBytes(conn.at, conn.at + n)
             /\ received' = received + n
        /\ IF Exceeds(Len(body')) THEN Fail ELSE UNCHANGED <<pc, result>>
     \/ /\ EndsEmpty /\ pc' = "decode"
        /\ UNCHANGED <<conn, body, received, result>>
     \/ /\ EndsError /\ Fail
        /\ UNCHANGED <<conn, body, received>>
  /\ UNCHANGED <<exchange, resp, pos, size, decoded, inflating>>

-----------------------------------------------------------------------------
(* The content coding.  A body that does not decode is returned as it is.   *)
Codings == {"gzip", "deflate"}
Coding == IF Bodyless(resp.status) \/ body = <<>> THEN None
          ELSE Field("content-encoding")

Decoding ==
  /\ pc = "decode"
  /\ LET payload == IF Coding = "gzip" THEN GunzipPayload(body)
                    ELSE InflatePayload(body)
     IN IF Coding \notin Codings \/ payload = <<>>
        THEN pc' = "respond" /\ UNCHANGED inflating
        ELSE /\ pc' = "inflate"
             /\ inflating' = Start(payload)
  /\ UNCHANGED <<exchange, conn, resp, framing, result>>

(* The check sum of zlib is compared, that of gzip is not.                  *)
InflateStep ==
  /\ pc = "inflate"
  /\ \E z \in {Step(inflating)} :
     \/ /\ IsBroken(z)
        /\ pc' = "respond" /\ inflating' = Idle /\ UNCHANGED body
     \/ /\ ~IsBroken(z) /\ ~IsDone(z)
        /\ inflating' = z /\ UNCHANGED <<pc, body>>
     \/ /\ IsDone(z)
        /\ body' = IF Coding = "deflate" => InflateAccepts(body, z.out)
                   THEN z.out ELSE body
        /\ pc' = "respond" /\ inflating' = Idle
  /\ UNCHANGED <<exchange, conn, resp, pos, size, decoded, received, result>>

-----------------------------------------------------------------------------
(* The loop of http_request: the response is the answer unless it is a      *)
(* redirect that can be followed.                                           *)
Follows ==
  /\ resp.status \in Redirects
  /\ asked.follow /\ redirects < MaxRedirects
  /\ Field("location") # None

(* Mutant: the body goes, its fields stay.                                  *)
Mutant_Bare(r) == [r EXCEPT !.method = "GET", !.body = FALSE]
Bare(r) == [method |-> "GET", body |-> FALSE, fields |-> FALSE]

Return ==
  /\ pc = "respond" /\ ~Follows
  /\ result' = [ok |-> TRUE, status |-> resp.status, body |-> body]
  /\ pc' = "done"
  /\ UNCHANGED <<exchange, conn, resp, framing, inflating>>

Redirect ==
  /\ pc = "respond" /\ Follows
  /\ IF Field("location") \notin Schemes
     THEN Fail /\ UNCHANGED <<exchange, conn, resp, framing>>
     ELSE /\ scheme' = Field("location")
          /\ redirects' = redirects + 1
          /\ followed' = followed \cup {resp.status}
          /\ req' = IF \/ resp.status = 303
                       \/ resp.status \in {301, 302} /\ req.method = "POST"
                    THEN Bare(req) ELSE req
          /\ pc' = "resolve"
          /\ addrs' = <<>> /\ conn' = NoConn /\ resp' = NoResp
          /\ body' = <<>> /\ pos' = 0 /\ size' = 0 /\ decoded' = <<>>
          /\ received' = 0
          /\ UNCHANGED <<asked, result>>
  /\ UNCHANGED inflating

Transfer ==
  \/ Resolve \/ Connect \/ Handshake \/ WriteRequest
  \/ ReadHead \/ ParseHead
  \/ ReadSizeLine \/ TakeSizeLine \/ ReadChunk \/ TakeChunk
  \/ ReadLength \/ TakeLength \/ ReadToEnd
  \/ Decoding \/ Return \/ Redirect

Next == Transfer \/ InflateStep
Spec == Init /\ [][Next]_vars

(* The call is sequential code.  The second conjunct is the weak fairness   *)
(* of InflateStep, which is enabled where pc says so, written without      *)
(* ENABLED, for which TLC would decode every block many times over.         *)
FairSpec ==
  /\ Spec
  /\ WF_vars(Transfer)
  /\ []<>(pc # "inflate") \/ []<><<InflateStep>>_vars

-----------------------------------------------------------------------------
(* PROPERTIES                                                               *)

(* Type invariant.  What is received of a response exceeds its limit, or    *)
(* what may arrive with the head, by no more than one read; the next chunk  *)
(* never begins behind what has arrived.                                    *)
ReceiveLimit == ReadCap + Larger(MaxResponse, HeaderCap + ReadCap)
TypeOK ==
  /\ pc \in {"resolve", "connect", "handshake", "write", "head", "chunk size",
             "chunk", "length", "to the end", "decode", "inflate", "respond", "done"}
  /\ asked \in Requests
  /\ req \in [method : Methods, body : BOOLEAN, fields : BOOLEAN]
  /\ scheme \in Schemes
  /\ redirects \in 0 .. MaxRedirects /\ followed \subseteq Redirects
  /\ addrs \in Seq({"accepts", "refuses"})
  /\ conn.at \in 0 .. conn.cut /\ conn.end \in EndKinds
  /\ body \in Seq(Byte) /\ decoded \in Seq(Byte)
  /\ pos \in Nat /\ size \in Nat
  /\ pc \in {"chunk size", "chunk"} => pos <= Len(body)
  /\ received \in 0 .. ReceiveLimit /\ Len(decoded) <= ReceiveLimit
  /\ Len(inflating.out) <= MaxInflate
  /\ result.ok \in BOOLEAN

(* What the server meant its answer to stand for, given the method.         *)
Meant == IF Bodyless(conn.resp.status) THEN <<>> ELSE conn.resp.entity

Delimited == Framing(resp.fields) # "to the end"

(* A response that is returned is whole, however it was cut into reads and  *)
(* wherever the stream ended: its framing is undone, its coding too, and a  *)
(* body that ends early is an error.  A stream that ends in the head, or in *)
(* a body that only the end of the stream delimits, cannot be told from a   *)
(* short response unless it is a TLS stream.                                *)
WholeBody ==
  result.ok =>
    LET cut == conn.cut < Total(conn.resp) IN
    \/ result.body = Meant
    \/ /\ cut /\ EndsEmpty
       /\ ~Delimited \/ ~HeadComplete

(* Along any chain of redirects, a request is the one the caller made, or a *)
(* GET from which the body and the fields that describe it are both gone,   *)
(* and that only after a redirect that allows it.                           *)
RequestKept ==
  \/ req = [method |-> asked.method, body |-> asked.body, fields |-> asked.body]
  \/ /\ req = [method |-> "GET", body |-> FALSE, fields |-> FALSE]
     /\ \/ 303 \in followed
        \/ (asked.method = "POST" /\ followed \cap {301, 302} # {})

(* The call returns, through any number of redirects, chunks and blocks,    *)
(* unless a peer falls silent with the connection open.                     *)
Returns == <>[](pc = "done" \/ (AtEnd /\ conn.end = "silent"))

(* net.h:115-116: the decompressor is one of `Raw DEFLATE (RFC 1951)', in   *)
(* which stored blocks may follow each other and coded ones: a response     *)
(* that has arrived as a whole is decoded.                                  *)
DecodesDeflate ==
  result.ok /\ conn.at = Total(conn.resp) =>
    result.body = Meant
=============================================================================
