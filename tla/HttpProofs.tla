----------------------------- MODULE HttpProofs -----------------------------
(***************************************************************************)
(* A call of http_request, for every request, every chain of answers and   *)
(* every way to cut them: what a redirect does to a request, how many are  *)
(* followed, and how much of a response is ever held.                      *)
(***************************************************************************)
EXTENDS Http, WellFoundedInduction, TLAPS

-----------------------------------------------------------------------------
(* Redirects.  The method is the caller's, or GET once the body is gone.    *)
KeptInv ==
  /\ RequestKept
  /\ redirects \in 0 .. MaxRedirects

LEMMA KeptNext == KeptInv /\ [Next]_vars => KeptInv'
<1> SUFFICES ASSUME KeptInv, [Next]_vars PROVE KeptInv'
  OBVIOUS
<1>1. CASE UNCHANGED <<asked, req, followed, redirects>>
  BY <1>1 DEF KeptInv, RequestKept
<1>2. CASE Redirect
  <2>1. CASE UNCHANGED exchange
    BY <1>1, <2>1 DEF exchange
  <2>2. CASE /\ asked' = asked /\ redirects' = redirects + 1
             /\ followed' = followed \cup {resp.status}
             /\ req' = IF \/ resp.status = 303
                          \/ resp.status \in {301, 302} /\ req.method = "POST"
                       THEN Bare(req) ELSE req
    <3>1. redirects' \in 0 .. MaxRedirects
      BY <1>2, <2>2, BoundsAssumption DEF Redirect, Follows, KeptInv
    <3>2. CASE resp.status = 303
      BY <2>2, <3>1, <3>2 DEF KeptInv, RequestKept, Bare
    <3>3. CASE resp.status \in {301, 302} /\ req.method = "POST"
      <4>1. asked.method = "POST"
        BY <3>3 DEF KeptInv, RequestKept
      <4> QED BY <2>2, <3>1, <3>3, <4>1 DEF KeptInv, RequestKept, Bare
    <3>4. CASE req' = req
      <4>1. /\ asked' = asked /\ (303 \in followed => 303 \in followed')
            /\ followed \cap {301, 302} # {} => followed' \cap {301, 302} # {}
        BY <2>2
      <4> QED BY <3>1, <3>4, <4>1 DEF KeptInv, RequestKept
    <3> QED BY <2>2, <3>2, <3>3, <3>4
  <2> QED BY <1>2, <2>1, <2>2 DEF Redirect
<1>3. CASE UNCHANGED vars
  BY <1>1, <1>3 DEF vars, exchange
<1>4. CASE \/ Resolve \/ Connect \/ Handshake \/ WriteRequest \/ ReadHead \/ ParseHead
           \/ ReadSizeLine \/ TakeSizeLine \/ ReadChunk \/ TakeChunk
           \/ ReadLength \/ TakeLength \/ ReadToEnd \/ Decoding \/ Return \/ InflateStep
  BY <1>1, <1>4 DEF Resolve, Connect, Handshake, WriteRequest, ReadHead, ParseHead,
    ReadSizeLine, TakeSizeLine, ReadChunk, TakeChunk, ReadLength, TakeLength,
    ReadToEnd, Decoding, Return, InflateStep, exchange
<1> QED BY <1>2, <1>3, <1>4 DEF Next, Transfer

LEMMA KeptHolds == Spec => []KeptInv
<1>1. Init => KeptInv
  BY BoundsAssumption DEF Init, KeptInv, RequestKept
<1> QED BY <1>1, KeptNext, PTL DEF Spec

(* Whatever chain of redirects the servers answer with, a request is the    *)
(* caller's own or a GET without body and without the fields of one, after  *)
(* a redirect that allows it: the rewriting of http_request.                *)
THEOREM RequestAlwaysKept == Spec => []RequestKept
<1>1. KeptInv => RequestKept
  BY DEF KeptInv
<1> QED BY <1>1, KeptHolds, PTL

(* No more redirects than max_redirects are followed.                       *)
THEOREM RedirectsBounded == Spec => [](redirects \in 0 .. MaxRedirects)
<1>1. KeptInv => redirects \in 0 .. MaxRedirects
  BY DEF KeptInv
<1> QED BY <1>1, KeptHolds, PTL
-----------------------------------------------------------------------------
(* Pieces.  While a body is read, what is held of it is exactly what has    *)
(* arrived of what the server sends, in order.                              *)
Framed == {"chunk size", "chunk", "length", "to the end"}
Held   == Larger(MaxResponse, HeaderCap + ReadCap)
Sent   == conn.resp.body
Missing == HeadLen(conn.resp)

ConnInv ==
  /\ conn = [resp |-> conn.resp, cut |-> conn.cut, end |-> conn.end, at |-> conn.at]
  /\ Response(conn.resp)
  /\ conn.at \in Nat /\ conn.cut \in Nat /\ conn.at <= conn.cut
  /\ conn.cut <= Total(conn.resp)
  /\ pc = "head" => conn.at <= HeaderCap + ReadCap
BodyInv ==
  /\ received \in 0 .. ReceiveLimit
  /\ pc \in Framed =>
       /\ body \in Seq(Byte) /\ received = Len(body) /\ received <= Held
       /\ \/ conn.at >= Missing /\ body = SubSeq(Sent, 1, conn.at - Missing)
          \/ conn.at = conn.cut /\ body = <<>>

LEMMA PrefixOf ==
  ASSUME NEW s \in Seq(Byte), NEW n \in 0 .. Len(s)
  PROVE  /\ SubSeq(s, 1, n) \in Seq(Byte) /\ Len(SubSeq(s, 1, n)) = n
         /\ \A i \in 1 .. n : SubSeq(s, 1, n)[i] = s[i]
OBVIOUS

LEMMA PrefixGrows ==
  ASSUME NEW s \in Seq(Byte), NEW m \in 0 .. Len(s), NEW n \in 0 .. Len(s), m <= n
  PROVE  SubSeq(s, 1, m) \o SubSeq(s, m + 1, n) = SubSeq(s, 1, n)
OBVIOUS

LEMMA PrefixShorter ==
  ASSUME NEW s \in Seq(Byte), NEW m \in 0 .. Len(s), NEW n \in 0 .. m
  PROVE  SubSeq(SubSeq(s, 1, m), 1, n) = SubSeq(s, 1, n)
OBVIOUS

LEMMA Lengths ==
  ASSUME ConnInv
  PROVE  /\ Sent \in Seq(Byte) /\ Len(Sent) \in Nat /\ Missing \in Nat /\ Missing >= 2
         /\ Total(conn.resp) = Missing + Len(Sent)
<1>1. Response(conn.resp)
  BY DEF ConnInv
<1>2. Sent \in Seq(Byte) /\ Len(conn.resp.fields) \in Nat
  BY <1>1 DEF Response, Sent
<1> QED BY <1>2 DEF Missing, HeadLen, Total, Sent

LEMMA ArrivesMeans ==
  ASSUME ConnInv, NEW n \in 1 .. ReadCap, Arrives(n)
  PROVE  /\ conn' = [resp |-> conn.resp, cut |-> conn.cut, end |-> conn.end,
                     at |-> conn.at + n]
         /\ conn'.resp = conn.resp /\ conn'.cut = conn.cut /\ conn'.at = conn.at + n
         /\ conn.at + n <= conn.cut /\ conn'.at \in Nat
         /\ Sent' = Sent /\ Missing' = Missing
<1>1. n \in Nat /\ conn.at \in Nat /\ conn.cut \in Nat
  BY BoundsAssumption DEF ConnInv
<1>2. conn' = [resp |-> conn.resp, cut |-> conn.cut, end |-> conn.end, at |-> conn.at + n]
  BY DEF ConnInv, Arrives
<1>3. conn.at + n <= conn.cut
  BY <1>1 DEF Arrives
<1> QED BY <1>1, <1>2, <1>3 DEF Sent, Missing

LEMMA ConnNext == ConnInv /\ KeptInv /\ [Next]_vars => ConnInv'
<1> SUFFICES ASSUME ConnInv, KeptInv, [Next]_vars PROVE ConnInv'
  OBVIOUS
<1>1. ASSUME conn' = conn, pc' # "head" \/ pc = "head" PROVE ConnInv'
  BY <1>1 DEF ConnInv
<1>2. ASSUME NEW n \in 1 .. ReadCap, Arrives(n), pc' = "head" => conn.at <= HeaderCap
      PROVE  ConnInv'
  <2>1. /\ conn' = [resp |-> conn.resp, cut |-> conn.cut, end |-> conn.end,
                    at |-> conn.at + n]
        /\ conn'.resp = conn.resp /\ conn'.cut = conn.cut /\ conn'.at = conn.at + n
        /\ conn.at + n <= conn.cut /\ conn'.at \in Nat
    BY <1>2, ArrivesMeans
  <2>2. pc' = "head" => conn'.at <= HeaderCap + ReadCap
    BY <1>2, <2>1, BoundsAssumption DEF ConnInv
  <2>3. conn' = [resp |-> conn'.resp, cut |-> conn'.cut, end |-> conn'.end, at |-> conn'.at]
    BY <2>1
  <2> QED BY <2>1, <2>2, <2>3 DEF ConnInv
<1>3. CASE WriteRequest
  <2>1. CASE Fail /\ conn' = conn
    BY <1>1, <2>1 DEF Fail
  <2>2. ASSUME NEW r \in Responses(redirects), NEW end \in Ends, NEW cut \in 0 .. Total(r),
               conn' = [resp |-> r, cut |-> cut, end |-> end, at |-> 0]
        PROVE  ConnInv'
    <3>1. Response(r)
      BY ResponsesAssumption DEF KeptInv
    <3>2. Total(r) \in Nat
      <4>1. r.body \in Seq(Byte) /\ Len(r.fields) \in Nat
        BY <3>1 DEF Response
      <4>2. Len(r.body) \in Nat
        BY <4>1
      <4>3. HeadLen(r) \in Nat
        BY <4>1 DEF HeadLen
      <4> QED BY <4>2, <4>3 DEF Total
    <3>3. conn'.resp = r /\ conn'.cut = cut /\ conn'.end = end /\ conn'.at = 0
      BY <2>2
    <3>4. cut \in Nat /\ cut <= Total(r)
      BY <3>2
    <3> QED BY <2>2, <3>1, <3>3, <3>4, BoundsAssumption DEF ConnInv
  <2> QED BY <1>3, <2>1, <2>2 DEF WriteRequest
<1>4. ASSUME NEW limit, Fill(limit), pc # "head" PROVE ConnInv'
  <2>1. CASE \E n \in 1 .. ReadCap : Arrives(n) /\ pc' # "head"
    BY <1>2, <2>1
  <2>2. CASE conn' = conn /\ pc' # "head"
    BY <1>1, <2>2
  <2> QED BY <1>4, <2>1, <2>2 DEF Fill, Fail
<1>5. CASE ReadSizeLine \/ ReadChunk \/ ReadLength
  BY <1>4, <1>5 DEF ReadSizeLine, ReadChunk, ReadLength
<1>6. CASE ReadHead
  <2>1. CASE \E n \in 1 .. ReadCap : Arrives(n) /\ conn.at <= HeaderCap
    BY <1>2, <2>1
  <2>2. CASE conn' = conn
    BY <1>1, <1>6, <2>2 DEF ReadHead
  <2> QED BY <1>6, <2>1, <2>2 DEF ReadHead
<1>7. CASE ReadToEnd
  <2>1. CASE \E n \in 1 .. ReadCap : Arrives(n) /\ pc' # "head"
    BY <1>2, <2>1
  <2>2. CASE conn' = conn /\ pc' # "head"
    BY <1>1, <2>2
  <2> QED BY <1>7, <2>1, <2>2 DEF ReadToEnd, Fail
<1>8. CASE Redirect
  <2>1. CASE conn' = NoConn /\ pc' = "resolve"
    <3>1. Response(NoConn.resp)
      <4>1. NoConn.resp.body = <<>> /\ NoConn.resp.fields = <<>>
        BY DEF NoConn
      <4>2. Len(<<>>) = 0 /\ DOMAIN <<>> = 1 .. 0 /\ <<>> \in Seq(Byte)
        OBVIOUS
      <4> QED BY <4>1, <4>2 DEF Response
    <3>2. Total(NoConn.resp) = 2
      BY DEF NoConn, Total, HeadLen
    <3>3. NoConn.at = 0 /\ NoConn.cut = 0
      BY DEF NoConn
    <3>4. NoConn = [resp |-> NoConn.resp, cut |-> NoConn.cut, end |-> NoConn.end,
                    at |-> NoConn.at]
      BY DEF NoConn
    <3> QED BY <2>1, <3>1, <3>2, <3>3, <3>4 DEF ConnInv
  <2>2. CASE conn' = conn /\ pc' # "head"
    BY <1>1, <2>2
  <2> QED BY <1>8, <2>1, <2>2 DEF Redirect, Fail
<1>9. CASE ParseHead \/ TakeSizeLine \/ TakeChunk \/ TakeLength
  BY <1>1, <1>9 DEF ParseHead, TakeSizeLine, TakeChunk, TakeLength, Fail
<1>10. CASE Resolve \/ Connect \/ Handshake \/ Decoding \/ Return \/ InflateStep
  BY <1>1, <1>10 DEF Resolve, Connect, Handshake, Decoding, Return, InflateStep,
    exchange, Fail
<1>11. CASE UNCHANGED vars
  BY <1>1, <1>11 DEF vars
<1> QED
  BY <1>3, <1>5, <1>6, <1>7, <1>8, <1>9, <1>10, <1>11 DEF Next, Transfer

(* A read adds the next piece.                                              *)
LEMMA PieceAdded ==
  ASSUME ConnInv, BodyInv, pc \in Framed, NEW n \in 1 .. ReadCap, Arrives(n),
         body' = body \o BodyBytes(conn.at, conn.at + n), received' = received + n
  PROVE  /\ body' \in Seq(Byte) /\ received' = Len(body')
         /\ received' \in 0 .. ReceiveLimit
         /\ conn'.at >= Missing' /\ body' = SubSeq(Sent', 1, conn'.at - Missing')
<1>1. /\ conn'.at = conn.at + n /\ conn.at + n <= conn.cut
      /\ Sent' = Sent /\ Missing' = Missing
  BY ArrivesMeans
<1>2. /\ Sent \in Seq(Byte) /\ Len(Sent) \in Nat /\ Missing \in Nat
      /\ Total(conn.resp) = Missing + Len(Sent)
  BY Lengths
<1>3. /\ conn.at \in Nat /\ conn.cut \in Nat /\ conn.cut <= Missing + Len(Sent)
      /\ n \in Nat /\ n >= 1
  BY <1>2, BoundsAssumption DEF ConnInv
<1>4. conn.at >= Missing /\ body = SubSeq(Sent, 1, conn.at - Missing)
  BY <1>1, <1>3 DEF BodyInv
<1> DEFINE m == conn.at - Missing
<1>5. m \in 0 .. Len(Sent) /\ m + n \in 0 .. Len(Sent) /\ m <= m + n
  <2>1. /\ conn.at \in Nat /\ n \in Nat /\ Missing \in Nat /\ Len(Sent) \in Nat
        /\ conn.at >= Missing /\ conn.at + n <= conn.cut /\ conn.cut \in Nat
        /\ conn.cut <= Missing + Len(Sent)
    BY <1>1, <1>2, <1>3, <1>4
  <2>2. \A a, c, h, l \in Nat : a >= h /\ a + n <= c /\ c <= h + l =>
          a - h \in 0 .. l /\ (a - h) + n \in 0 .. l /\ a - h <= (a - h) + n
    BY <2>1
  <2> QED BY <2>1, <2>2
<1>6. BodyBytes(conn.at, conn.at + n) = SubSeq(Sent, m + 1, m + n)
  <2>1. (conn.at + n) - Missing = m + n /\ (conn.at - Missing) + 1 = m + 1
    BY <1>2, <1>3
  <2> QED BY <2>1 DEF BodyBytes, Missing, Sent
<1>7. body' = SubSeq(Sent, 1, m + n)
  <2> HIDE DEF m
  <2>1. SubSeq(Sent, 1, m) \o SubSeq(Sent, m + 1, m + n) = SubSeq(Sent, 1, m + n)
    BY <1>2, <1>5, PrefixGrows
  <2>2. body = SubSeq(Sent, 1, m)
    BY <1>4 DEF m
  <2> QED BY <1>6, <2>1, <2>2
<1>8. body \in Seq(Byte) /\ Len(body) = m /\ body' \in Seq(Byte) /\ Len(body') = m + n
  <2> HIDE DEF m
  <2>1. body = SubSeq(Sent, 1, m)
    BY <1>4 DEF m
  <2> QED BY <1>2, <1>5, <1>7, <2>1, PrefixOf
<1>9. received' = m + n
  BY <1>8 DEF BodyInv
<1>10. received' \in 0 .. ReceiveLimit
  <2>1. received <= Held /\ received \in Nat /\ n <= ReadCap /\ n \in Nat
    BY <1>3, <1>5, <1>8 DEF BodyInv
  <2>2. Held \in Nat /\ ReceiveLimit = ReadCap + Held /\ ReadCap \in Nat
    BY BoundsAssumption DEF Held, ReceiveLimit, Larger
  <2> QED BY <2>1, <2>2
<1>11. conn'.at - Missing' = m + n /\ conn'.at >= Missing'
  <2>1. conn'.at = conn.at + n /\ Missing' = Missing
    BY <1>1
  <2>2. \A a, h \in Nat : a >= h => (a + n) - h = (a - h) + n /\ a + n >= h
    BY <1>3
  <2>3. conn.at \in Nat /\ Missing \in Nat /\ conn.at >= Missing
    BY <1>2, <1>3, <1>4
  <2> QED BY <2>1, <2>2, <2>3
<1> QED BY <1>1, <1>7, <1>8, <1>9, <1>10, <1>11

LEMMA BodyNext == ConnInv /\ BodyInv /\ [Next]_vars => BodyInv'
<1> SUFFICES ASSUME ConnInv, BodyInv, [Next]_vars PROVE BodyInv'
  OBVIOUS
<1>1. Held \in Nat /\ Held >= MaxResponse /\ ReceiveLimit \in Nat /\ Held <= ReceiveLimit
  BY BoundsAssumption DEF Held, ReceiveLimit, Larger
<1>2. ASSUME received' = received \/ received' = 0, pc' \notin Framed PROVE BodyInv'
  BY <1>1, <1>2 DEF BodyInv
<1>3. ASSUME UNCHANGED <<conn, body, received>>, pc' \in Framed => pc \in Framed
      PROVE  BodyInv'
  BY <1>3 DEF BodyInv, Missing, Sent
<1>4. ASSUME NEW n \in 1 .. ReadCap, Arrives(n), pc \in Framed,
             body' = body \o BodyBytes(conn.at, conn.at + n), received' = received + n,
             pc' \in Framed => received' <= MaxResponse
      PROVE  BodyInv'
  <2>1. /\ body' \in Seq(Byte) /\ received' = Len(body')
        /\ received' \in 0 .. ReceiveLimit
        /\ conn'.at >= Missing' /\ body' = SubSeq(Sent', 1, conn'.at - Missing')
    BY <1>4, PieceAdded
  <2>2. pc' \in Framed => received' <= Held
    BY <1>1, <1>4, <2>1, BoundsAssumption
  <2> QED BY <2>1, <2>2 DEF BodyInv
<1>5. ASSUME NEW limit, Fill(limit), pc \in Framed PROVE BodyInv'
  <2>1. ASSUME NEW n \in 1 .. ReadCap, Arrives(n), received' = received + n,
               body' = body \o BodyBytes(conn.at, conn.at + n),
               IF Exceeds(received') THEN Fail ELSE UNCHANGED <<pc, result>>
        PROVE  BodyInv'
    <3>1. received' \in 0 .. ReceiveLimit
      BY <1>5, <2>1, PieceAdded
    <3>2. pc' \in Framed => received' <= MaxResponse
      <4>1. pc' \in Framed => ~Exceeds(received')
        BY <2>1 DEF Fail, Framed
      <4> QED BY <1>1, <3>1, <4>1, BoundsAssumption DEF Exceeds
    <3> QED BY <1>4, <1>5, <2>1, <3>2
  <2>2. CASE Fail /\ received' = received
    BY <1>2, <2>2 DEF Fail, Framed
  <2> QED BY <1>5, <2>1, <2>2 DEF Fill
<1>6. CASE ReadSizeLine \/ ReadChunk \/ ReadLength
  BY <1>5, <1>6 DEF ReadSizeLine, ReadChunk, ReadLength, Framed
<1>7. CASE ReadToEnd
  <2>1. ASSUME NEW n \in 1 .. ReadCap, Arrives(n), received' = received + n,
               body' = body \o BodyBytes(conn.at, conn.at + n),
               IF Exceeds(Len(body')) THEN Fail ELSE UNCHANGED <<pc, result>>
        PROVE  BodyInv'
    <3>1. pc \in Framed
      BY <1>7 DEF ReadToEnd, Framed
    <3>2. received' \in 0 .. ReceiveLimit /\ received' = Len(body')
      BY <2>1, <3>1, PieceAdded
    <3>3. pc' \in Framed => received' <= MaxResponse
      <4>1. pc' \in Framed => ~Exceeds(Len(body'))
        BY <2>1 DEF Fail, Framed
      <4> QED BY <1>1, <3>2, <4>1, BoundsAssumption DEF Exceeds
    <3> QED BY <1>4, <2>1, <3>1, <3>3
  <2>2. CASE pc' \notin Framed /\ received' = received
    BY <1>2, <2>2
  <2> QED BY <1>7, <2>1, <2>2 DEF ReadToEnd, Fail, Framed
<1>8. CASE ParseHead
  <2> DEFINE r == conn.resp
             first == IF HeadComplete THEN BodyBytes(HeadLen(r), conn.at) ELSE <<>>
  <2>1. CASE pc' \notin Framed /\ received' \in {received, 0}
    BY <1>2, <2>1
  <2>2. CASE body' = first /\ received' = Len(first) /\ conn' = conn
    <3>1. /\ Sent \in Seq(Byte) /\ Len(Sent) \in Nat /\ Missing \in Nat
          /\ Total(conn.resp) = Missing + Len(Sent) /\ Missing >= 2
      BY Lengths
    <3>2. /\ conn.at \in Nat /\ conn.cut \in Nat /\ conn.at <= Missing + Len(Sent)
          /\ conn.at <= HeaderCap + ReadCap
      BY <1>8, <3>1 DEF ConnInv, ParseHead
    <3>3. Sent' = Sent /\ Missing' = Missing /\ conn'.at = conn.at /\ conn'.cut = conn.cut
      BY <2>2 DEF Sent, Missing
    <3>4. CASE HeadComplete
      <4>1. conn.at >= Missing
        BY <3>4 DEF HeadComplete, Missing
      <4> DEFINE m == conn.at - Missing
      <4>2. m \in 0 .. Len(Sent)
        BY <3>1, <3>2, <4>1
      <4>3. first = SubSeq(Sent, 1, m)
        <5>1. (Missing - Missing) + 1 = 1
          BY <3>1
        <5> QED BY <3>4, <5>1 DEF BodyBytes, Missing, Sent
      <4>4. first \in Seq(Byte) /\ Len(first) = m
        <5> HIDE DEF m, first
        <5> QED BY <3>1, <4>2, <4>3, PrefixOf
      <4>5. m <= Held
        BY <3>1, <3>2, <4>1, BoundsAssumption DEF Held, Larger
      <4>6. m \in 0 .. ReceiveLimit
        <5> HIDE DEF m
        <5> QED BY <1>1, <3>1, <4>2, <4>5
      <4> HIDE DEF first
      <4> QED BY <2>2, <3>3, <4>1, <4>3, <4>4, <4>5, <4>6 DEF BodyInv
    <3>5. CASE ~HeadComplete
      <4>1. conn.at = conn.cut
        BY <1>8, <3>5 DEF ParseHead, EndsEmpty, AtEnd
      <4>2. body' = <<>> /\ received' = 0 /\ <<>> \in Seq(Byte) /\ Len(<<>>) = 0
        BY <2>2, <3>5
      <4> QED BY <1>1, <3>3, <4>1, <4>2 DEF BodyInv
    <3> QED BY <3>4, <3>5
  <2> QED BY <1>8, <2>1, <2>2 DEF ParseHead, Fail, Framed
<1>9. CASE TakeSizeLine
  <2>1. received' = received /\ conn' = conn
    BY <1>9 DEF TakeSizeLine
  <2>2. \/ pc' \notin Framed
        \/ body' = body /\ pc' = "chunk"
    BY <1>9 DEF TakeSizeLine, Fail, Framed
  <2>3. pc \in Framed
    BY <1>9 DEF TakeSizeLine, Framed
  <2> QED BY <1>2, <1>3, <2>1, <2>2, <2>3
<1>10. CASE TakeChunk
  BY <1>3, <1>10 DEF TakeChunk, Framed
<1>11. CASE TakeLength
  BY <1>2, <1>11 DEF TakeLength, Framed
<1>12. CASE Resolve \/ Connect \/ Handshake \/ WriteRequest \/ ReadHead
  BY <1>2, <1>12 DEF Resolve, Connect, Handshake, WriteRequest, ReadHead,
    framing, Fail, Framed
<1>13. CASE Decoding \/ Return \/ InflateStep \/ Redirect
  BY <1>2, <1>13 DEF Decoding, Return, InflateStep, Redirect, framing, Fail, Framed
<1>14. CASE UNCHANGED vars
  BY <1>3, <1>14 DEF vars, framing
<1> QED
  BY <1>6, <1>7, <1>8, <1>9, <1>10, <1>11, <1>12, <1>13, <1>14 DEF Next, Transfer

LEMMA BodyHolds == Spec => [](KeptInv /\ ConnInv /\ BodyInv)
<1>1. Init => ConnInv
  <2> SUFFICES ASSUME Init PROVE ConnInv
    OBVIOUS
  <2>1. conn.resp.body = <<>> /\ conn.resp.fields = <<>> /\ pc # "head"
        /\ conn.at = 0 /\ conn.cut = 0
    BY DEF Init, NoConn
  <2>2. Len(<<>>) = 0 /\ DOMAIN <<>> = 1 .. 0 /\ <<>> \in Seq(Byte)
    OBVIOUS
  <2>3. Response(conn.resp) /\ Total(conn.resp) = 2
    BY <2>1, <2>2 DEF Response, Total, HeadLen
  <2>4. conn = [resp |-> conn.resp, cut |-> conn.cut, end |-> conn.end, at |-> conn.at]
    BY DEF Init, NoConn
  <2> QED BY <2>1, <2>3, <2>4 DEF ConnInv
<1>2. Init => BodyInv
  BY BoundsAssumption DEF Init, BodyInv, Framed, ReceiveLimit, Larger
<1>3. Init => KeptInv
  BY BoundsAssumption DEF Init, KeptInv, RequestKept
<1> QED BY <1>1, <1>2, <1>3, KeptNext, ConnNext, BodyNext, PTL DEF Spec

(* A response that does not end is not taken in for ever: what is received  *)
(* of it passes max_response_bytes, or what may come with the head, by one  *)
(* read at most.                                                            *)
THEOREM ReceivedBounded == Spec => [](received \in 0 .. ReceiveLimit)
<1>1. BodyInv => received \in 0 .. ReceiveLimit
  BY DEF BodyInv
<1> QED BY <1>1, BodyHolds, PTL

-----------------------------------------------------------------------------
(* A body delimited by its length, and in no coding.                        *)
Wanted   == Field("content-length")
Expected == SubSeq(Sent, 1, Wanted)
Plain    == /\ Framing(resp.fields) = "length" /\ ~Bodyless(resp.status)
            /\ Field("content-encoding") \notin Codings
Asking == {"resolve", "connect", "handshake", "write", "head"}
PlainInv ==
  /\ pc \in Asking => resp = NoResp
  /\ "content-length" \in DOMAIN resp.fields => Wanted \in Nat
  /\ result.ok => pc = "done"
  /\ Plain => /\ pc \notin {"chunk size", "chunk", "to the end", "inflate"}
              /\ pc \in {"decode", "respond"} => body = Expected
              /\ result.ok => result.body = Expected
PlainWhole == result.ok /\ Plain => result.body = Expected

LEMMA FieldParsed ==
  ASSUME NEW r, Response(r), NEW n,
         NEW f \in DOMAIN FieldsOf(r, n), f = "content-length"
  PROVE  r.fields[FieldsOf(r, n)[f]].value \in Nat
<1> DEFINE lines == {i \in DOMAIN r.fields : i < n}
<1>1. f \in {r.fields[i].name : i \in lines}
  BY DEF FieldsOf
<1>2. FieldsOf(r, n)[f] = CHOOSE i \in lines : r.fields[i].name = f
  BY DEF FieldsOf
<1>3. FieldsOf(r, n)[f] \in lines /\ r.fields[FieldsOf(r, n)[f]].name = f
  BY <1>1, <1>2
<1> QED BY <1>3 DEF Response

LEMMA NothingPlain ==
  resp = NoResp => Framing(resp.fields) # "length" /\ "content-length" \notin DOMAIN resp.fields
<1> SUFFICES ASSUME resp = NoResp
             PROVE  Framing(resp.fields) # "length"
                    /\ "content-length" \notin DOMAIN resp.fields
  OBVIOUS
<1>1. resp.fields = <<>> /\ DOMAIN <<>> = {}
  BY DEF NoResp
<1> QED BY <1>1 DEF Framing

LEMMA PlainNext == ConnInv /\ BodyInv /\ PlainInv /\ [Next]_vars => PlainInv'
<1> SUFFICES ASSUME ConnInv, BodyInv, PlainInv, [Next]_vars PROVE PlainInv'
  OBVIOUS
<1>1. ASSUME conn'.resp = conn.resp, UNCHANGED <<resp, req>>
      PROVE  Wanted' = Wanted /\ Expected' = Expected /\ (Plain' <=> Plain)
  BY <1>1 DEF Wanted, Expected, Plain, Sent, Field, Bodyless
<1>2. ASSUME conn'.resp = conn.resp, UNCHANGED <<resp, req>>, Fail PROVE PlainInv'
  BY <1>1, <1>2 DEF PlainInv, Fail, Asking
<1>3. ASSUME conn'.resp = conn.resp, UNCHANGED <<resp, req, pc, result>>,
             pc \notin {"decode", "respond"}
      PROVE  PlainInv'
  BY <1>1, <1>3 DEF PlainInv
<1>4. ASSUME resp' = NoResp, result' = result, pc # "done", pc' # "done" PROVE PlainInv'
  <2>1. ~Plain' /\ "content-length" \notin DOMAIN resp'.fields
    <3>1. resp'.fields = <<>> /\ DOMAIN <<>> = {}
      BY <1>4 DEF NoResp
    <3> QED BY <3>1 DEF Plain, Framing
  <2> QED BY <1>4, <2>1 DEF PlainInv
<1>5. ASSUME pc \in Asking, resp' = resp, result' = result, pc' # "done" PROVE PlainInv'
  BY <1>4, <1>5 DEF PlainInv, Asking
<1>6. ASSUME NEW n \in 1 .. ReadCap, Arrives(n) PROVE conn'.resp = conn.resp
  BY <1>6, ArrivesMeans
<1>7. CASE Resolve \/ Connect \/ Handshake
  <2>1. CASE Fail
    BY <1>2, <1>7, <2>1 DEF Resolve, Connect, Handshake, exchange
  <2>2. CASE result' = result /\ pc' # "done"
    BY <1>5, <1>7, <2>2 DEF Resolve, Connect, Handshake, exchange, Asking
  <2>3. Fail \/ (result' = result /\ pc' # "done")
    BY <1>7 DEF Resolve, Connect, Handshake
  <2> QED BY <2>1, <2>2, <2>3
<1>8. CASE WriteRequest
  <2>1. CASE Fail /\ conn' = conn
    BY <1>2, <1>8, <2>1 DEF WriteRequest, exchange
  <2>2. CASE result' = result /\ pc' = "head"
    BY <1>5, <1>8, <2>2 DEF WriteRequest, Asking
  <2> QED BY <1>8, <2>1, <2>2 DEF WriteRequest
<1>9. CASE ReadHead
  <2>1. CASE Fail /\ conn' = conn
    BY <1>2, <1>9, <2>1 DEF ReadHead, exchange
  <2>2. CASE result' = result /\ pc' = pc
    BY <1>5, <1>9, <2>2 DEF ReadHead, Asking
  <2> QED BY <1>9, <2>1, <2>2 DEF ReadHead
<1>10. CASE ParseHead
  <2> DEFINE r      == conn.resp
             index  == FieldsOf(r, conn.at)
             fields == [f \in DOMAIN index |-> r.fields[index[f]].value]
  <2>1. conn' = conn /\ req' = req /\ pc = "head" /\ ~result.ok
    BY <1>10 DEF ParseHead, exchange, PlainInv
  <2>2. CASE Fail /\ resp' = resp
    BY <1>2, <2>1, <2>2
  <2>3. CASE /\ resp' = [status |-> r.status, fields |-> fields] /\ result' = result
             /\ IF Bodyless(r.status) THEN pc' = "decode" ELSE pc' = Framing(fields)
    <3>1. "content-length" \in DOMAIN resp'.fields => Wanted' \in Nat
      <4>1. SUFFICES ASSUME "content-length" \in DOMAIN fields
                     PROVE  fields["content-length"] \in Nat
        BY <2>3 DEF Wanted, Field
      <4>2. Response(r)
        BY DEF ConnInv
      <4> QED BY <4>1, <4>2, FieldParsed
    <3>2. Plain' => pc' = "length"
      BY <2>1, <2>3 DEF Plain, Bodyless
    <3>3. pc' \notin Asking \cup {"respond", "inflate"}
      BY <2>3 DEF Framing, Asking
    <3> QED BY <2>1, <2>3, <3>1, <3>2, <3>3 DEF PlainInv
  <2> QED BY <1>10, <2>2, <2>3 DEF ParseHead
<1>11. ASSUME NEW limit, Fill(limit), UNCHANGED <<resp, req>>,
              pc \notin {"decode", "respond"}
       PROVE  PlainInv'
  <2>1. conn'.resp = conn.resp
    BY <1>6, <1>11 DEF Fill
  <2> QED BY <1>2, <1>3, <1>11, <2>1 DEF Fill
<1>12. CASE ReadSizeLine \/ ReadChunk \/ ReadLength
  BY <1>11, <1>12 DEF ReadSizeLine, ReadChunk, ReadLength, exchange
<1>13. ASSUME conn' = conn, UNCHANGED <<resp, req, result>>, ~Plain, pc # "done",
              pc' \notin Asking
       PROVE  PlainInv'
  BY <1>1, <1>13 DEF PlainInv
<1>14. CASE TakeSizeLine \/ TakeChunk
  <2>1. /\ conn' = conn /\ UNCHANGED <<resp, req>> /\ pc \in {"chunk size", "chunk"}
        /\ Fail \/ (result' = result /\ pc' \in {"decode", "chunk", "chunk size"})
    BY <1>14 DEF TakeSizeLine, TakeChunk, exchange
  <2>2. ~Plain /\ pc # "done"
    BY <2>1 DEF PlainInv
  <2> QED BY <1>2, <1>13, <2>1, <2>2 DEF Asking
<1>15. CASE ReadToEnd
  <2>1. conn'.resp = conn.resp /\ UNCHANGED <<resp, req>> /\ pc = "to the end"
    BY <1>6, <1>15 DEF ReadToEnd, exchange
  <2>2. CASE Fail \/ UNCHANGED <<pc, result>>
    BY <1>2, <1>3, <2>1, <2>2
  <2>3. CASE conn' = conn /\ pc' = "decode" /\ result' = result
    <3>1. ~Plain
      BY <2>1 DEF PlainInv
    <3> QED BY <1>13, <2>1, <2>3, <3>1 DEF Asking
  <2> QED BY <1>15, <2>2, <2>3 DEF ReadToEnd
<1>16. CASE TakeLength
  <2>1. /\ pc = "length" /\ pc' = "decode" /\ conn' = conn /\ Len(body) >= Wanted
        /\ UNCHANGED <<resp, req, result>> /\ body' = SubSeq(body, 1, Wanted)
    BY <1>16 DEF TakeLength, Wanted, exchange
  <2>2. Wanted' = Wanted /\ Expected' = Expected /\ (Plain' <=> Plain)
    BY <1>1, <2>1
  <2>3. Plain => body' = Expected
    <3>1. SUFFICES ASSUME Plain PROVE SubSeq(body, 1, Wanted) = SubSeq(Sent, 1, Wanted)
      BY <2>1 DEF Expected
    <3>2. Wanted \in Nat
      BY <3>1 DEF Plain, Framing, PlainInv
    <3>3. /\ Sent \in Seq(Byte) /\ Len(Sent) \in Nat /\ Missing \in Nat
          /\ Total(conn.resp) = Missing + Len(Sent)
      BY Lengths
    <3>4. CASE conn.at >= Missing /\ body = SubSeq(Sent, 1, conn.at - Missing)
      <4> DEFINE m == conn.at - Missing
      <4>1. m \in 0 .. Len(Sent)
        BY <3>3, <3>4 DEF ConnInv
      <4>2. body = SubSeq(Sent, 1, m)
        BY <3>4
      <4> HIDE DEF m
      <4>3. Wanted \in 0 .. m
        BY <2>1, <3>2, <3>3, <4>1, <4>2, PrefixOf
      <4> QED BY <3>3, <4>1, <4>2, <4>3, PrefixShorter
    <3>5. CASE body = <<>>
      <4>1. Wanted = 0
        BY <2>1, <3>2, <3>5
      <4>2. SubSeq(Sent, 1, 0) = <<>> /\ SubSeq(<<>>, 1, 0) = <<>>
        BY <3>3
      <4> QED BY <3>5, <4>1, <4>2
    <3> QED BY <2>1, <3>4, <3>5 DEF BodyInv, Framed
  <2> QED BY <2>1, <2>2, <2>3 DEF PlainInv, Asking
<1>17. CASE Decoding
  <2>1. /\ pc = "decode" /\ UNCHANGED <<resp, req, conn, body, result>>
        /\ pc' \in {"respond", "inflate"} /\ (Coding \notin Codings => pc' = "respond")
    BY <1>17 DEF Decoding, exchange, framing
  <2>2. Plain => Coding \notin Codings
    BY DEF Plain, Coding, Codings, None
  <2>3. Wanted' = Wanted /\ Expected' = Expected /\ (Plain' <=> Plain)
    BY <1>1, <2>1
  <2> QED BY <2>1, <2>2, <2>3 DEF PlainInv, Asking
<1>18. CASE InflateStep
  <2>1. /\ pc = "inflate" /\ UNCHANGED <<resp, req, conn, result>>
        /\ pc' \in {"respond", "inflate"}
    BY <1>18 DEF InflateStep, exchange
  <2>2. ~Plain
    BY <2>1 DEF PlainInv
  <2> QED BY <1>13, <2>1, <2>2 DEF Asking
<1>19. CASE Return
  <2>1. /\ pc = "respond" /\ pc' = "done" /\ UNCHANGED <<resp, req, conn>>
        /\ result' = [ok |-> TRUE, status |-> resp.status, body |-> body]
    BY <1>19 DEF Return, exchange
  <2>2. Wanted' = Wanted /\ Expected' = Expected /\ (Plain' <=> Plain)
    BY <1>1, <2>1
  <2> QED BY <2>1, <2>2 DEF PlainInv, Asking
<1>20. CASE Redirect
  <2>1. CASE Fail /\ UNCHANGED <<exchange, conn, resp>>
    BY <1>2, <2>1 DEF exchange
  <2>2. CASE resp' = NoResp /\ result' = result /\ pc = "respond" /\ pc' = "resolve"
    BY <1>4, <2>2
  <2> QED BY <1>20, <2>1, <2>2 DEF Redirect
<1>21. CASE UNCHANGED vars
  <2>1. UNCHANGED <<resp, req, conn, body, result, pc>>
    BY <1>21 DEF vars, exchange, framing
  <2>2. Wanted' = Wanted /\ Expected' = Expected /\ (Plain' <=> Plain)
    BY <1>1, <2>1
  <2> QED BY <2>1, <2>2 DEF PlainInv
<1> QED
  BY <1>7, <1>8, <1>9, <1>10, <1>12, <1>14, <1>15, <1>16, <1>17, <1>18, <1>19, <1>20,
     <1>21 DEF Next, Transfer

LEMMA PlainInit == Init => PlainInv
<1> SUFFICES ASSUME Init PROVE PlainInv
  OBVIOUS
<1>1. resp = NoResp /\ result.ok = FALSE /\ pc = "resolve"
  BY DEF Init
<1> QED BY <1>1, NothingPlain DEF PlainInv, Plain, Asking

(* A response delimited by its length, and not coded, is returned as the    *)
(* server sent it, however it was cut into reads and however its stream     *)
(* ended: http_exchange gives the first content-length bytes that follow    *)
(* the head, or an error.                                                   *)
THEOREM PlainAlwaysWhole == Spec => []PlainWhole
<1>1. Init => PlainInv
  BY PlainInit
<1>2. PlainInv => PlainWhole
  BY DEF PlainInv, PlainWhole
<1> QED BY <1>1, <1>2, PlainNext, BodyHolds, PTL DEF Spec

-----------------------------------------------------------------------------
(* Induction over the naturals.                                             *)
Before == {pair \in Nat \X Nat : pair[1] < pair[2]}

LEMMA LeastNumber ==
  ASSUME NEW T, T \subseteq Nat, T # {}
  PROVE  \E x \in T : \A y \in T : x <= y
<1>1. IsWellFoundedOn(Before, Nat)
  <2>1. Before = OpToRel(<, Nat)
    BY DEF Before, OpToRel
  <2> QED BY <2>1, NatLessThanWellFounded
<1>2. PICK x \in T : \A y \in T : <<y, x>> \notin Before
  BY <1>1, WFMin
<1>3. ASSUME NEW y \in T PROVE x <= y
  <2>1. x \in Nat /\ y \in Nat /\ <<y, x>> \notin Before
    BY <1>2
  <2>2. ~(y < x)
    BY <2>1 DEF Before
  <2> QED BY <2>1, <2>2
<1> QED BY <1>3

LEMMA Induction ==
  ASSUME NEW T, 0 \in T, \A n \in Nat : n \in T => n + 1 \in T
  PROVE  Nat \subseteq T
<1> SUFFICES ASSUME Nat \ T # {} PROVE FALSE
  OBVIOUS
<1>1. PICK x \in Nat \ T : \A y \in Nat \ T : x <= y
  BY LeastNumber
<1>2. x - 1 \in Nat /\ x - 1 \in T
  BY <1>1
<1> QED BY <1>2

LEMMA FirstIs ==
  ASSUME NEW S, S \subseteq Nat, S # {}
  PROVE  First(S) \in S /\ \A t \in S : First(S) <= t
<1>1. \E x \in S : \A t \in S : x <= t
  BY LeastNumber
<1> QED BY <1>1 DEF First

(* A recursion over 0 .. N whose step n is the function step[n].            *)
LEMMA Recursion ==
  ASSUME NEW V, NEW a \in V, NEW N \in Nat, NEW step \in [1 .. N -> [V -> V]]
  PROVE  \E f \in [0 .. N -> V] :
           /\ f[0] = a
           /\ \A n \in 1 .. N : f[n] = step[n][f[n - 1]]
<1> DEFINE Good(m, f) == /\ f \in [0 .. m -> V] /\ f[0] = a
                         /\ \A n \in 1 .. m : f[n] = step[n][f[n - 1]]
           T == {m \in Nat : m <= N => \E f : Good(m, f)}
<1>1. 0 \in T
  <2>1. Good(0, [k \in 0 .. 0 |-> a])
    OBVIOUS
  <2> QED BY <2>1
<1>2. ASSUME NEW m \in Nat, m \in T PROVE m + 1 \in T
  <2> SUFFICES ASSUME m + 1 <= N PROVE \E f : Good(m + 1, f)
    OBVIOUS
  <2>1. PICK f : Good(m, f)
    BY <1>2
  <2>2. m + 1 \in 1 .. N /\ m \in 0 .. m /\ f[m] \in V
    BY <2>1
  <2>3. step[m + 1] \in [V -> V]
    BY <2>2
  <2>4. step[m + 1][f[m]] \in V
    BY <2>2, <2>3
  <2> DEFINE g == [k \in 0 .. m + 1 |-> IF k <= m THEN f[k] ELSE step[m + 1][f[m]]]
  <2>5. g \in [0 .. m + 1 -> V]
    <3>1. \A k \in 0 .. m + 1 : k <= m => k \in 0 .. m
      OBVIOUS
    <3>2. \A k \in 0 .. m : f[k] \in V
      BY <2>1
    <3> QED BY <2>4, <3>1, <3>2
  <2>6. g[0] = a
    BY <2>1
  <2>7. ASSUME NEW n \in 1 .. m + 1 PROVE g[n] = step[n][g[n - 1]]
    <3>1. CASE n <= m
      <4>1. g[n] = f[n] /\ g[n - 1] = f[n - 1] /\ n \in 1 .. m
        BY <3>1
      <4> QED BY <2>1, <4>1
    <3>2. CASE n = m + 1
      <4>1. g[n] = step[m + 1][f[m]] /\ g[n - 1] = f[m]
        BY <3>2
      <4> QED BY <3>2, <4>1
    <3> QED BY <3>1, <3>2
  <2> QED BY <2>5, <2>6, <2>7
<1> HIDE DEF T
<1>3. Nat \subseteq T
  BY <1>1, <1>2, Induction
<1>4. \E f : Good(N, f)
  BY <1>3 DEF T
<1> QED BY <1>4

(* A number read bit by bit, wherever the bits are.                         *)
Doubled(b, N, f) == f = [n \in 0 .. N |-> IF n = 0 THEN 0 ELSE 2 * f[n - 1] + b[n]]

LEMMA Doubling ==
  ASSUME NEW b
  PROVE  \A N \in Nat : \E f : Doubled(b, N, f)
<1> DEFINE T == {N \in Nat : \E f : Doubled(b, N, f)}
<1>1. 0 \in T
  <2>1. Doubled(b, 0, [k \in 0 .. 0 |-> 0])
    BY DEF Doubled
  <2> QED BY <2>1
<1>2. ASSUME NEW m \in Nat, m \in T PROVE m + 1 \in T
  <2>1. PICK f : Doubled(b, m, f)
    BY <1>2
  <2> DEFINE g == [k \in 0 .. m + 1 |-> IF k <= m THEN f[k] ELSE 2 * f[m] + b[m + 1]]
  <2>2. ASSUME NEW k \in 0 .. m + 1
        PROVE  g[k] = IF k = 0 THEN 0 ELSE 2 * g[k - 1] + b[k]
    <3>1. CASE k = 0
      BY <2>1, <3>1 DEF Doubled
    <3>2. CASE k > 0 /\ k <= m
      <4>1. g[k] = f[k] /\ g[k - 1] = f[k - 1] /\ k \in 0 .. m
        BY <3>2
      <4>2. f[k] = 2 * f[k - 1] + b[k]
        BY <2>1, <3>2, <4>1 DEF Doubled
      <4> QED BY <3>2, <4>1, <4>2
    <3>3. CASE k = m + 1
      <4>1. g[k] = 2 * f[m] + b[m + 1] /\ g[k - 1] = f[m] /\ k # 0
        BY <3>3
      <4> QED BY <3>3, <4>1
    <3> QED BY <3>1, <3>2, <3>3
  <2>3. Doubled(b, m + 1, g)
    <3>1. g = [k \in 0 .. m + 1 |-> g[k]]
      OBVIOUS
    <3> HIDE DEF g
    <3> QED BY <2>2, <3>1 DEF Doubled
  <2> QED BY <2>3
<1> HIDE DEF T
<1>3. Nat \subseteq T
  BY <1>1, <1>2, Induction
<1> QED BY <1>3 DEF T

-----------------------------------------------------------------------------
(* Bits.                                                                    *)
Position == [from : Nat, bit : Nat]

LEMMA SkipIs ==
  ASSUME NEW br \in Position, NEW n \in Nat
  PROVE  /\ Skip(br, n) \in Position
         /\ Skip(br, n).from = br.from /\ Skip(br, n).bit = br.bit + n
BY DEF Position, Skip

LEMMA HasLess ==
  ASSUME NEW data \in Seq(Byte), NEW br \in Position, NEW n \in Nat, Has(data, br, n)
  PROVE  \A k, m \in Nat : k + m <= n => Has(data, Skip(br, k), m)
<1>1. Len(data) \in Nat /\ br.from \in Nat /\ br.bit \in Nat
  BY DEF Position
<1>2. ASSUME NEW k \in Nat, NEW m \in Nat, k + m <= n PROVE Has(data, Skip(br, k), m)
  <2>1. Skip(br, k).from = br.from /\ Skip(br, k).bit = br.bit + k
    BY SkipIs
  <2>2. (br.bit + k) + m <= 8 * (Len(data) - br.from)
    BY <1>1, <1>2 DEF Has
  <2> QED BY <2>1, <2>2 DEF Has
<1> QED BY <1>2

LEMMA HasFewer ==
  ASSUME NEW data \in Seq(Byte), NEW br \in Position, NEW n \in Nat, Has(data, br, n)
  PROVE  \A m \in 0 .. n : Has(data, br, m)
<1>1. Len(data) \in Nat /\ br.from \in Nat /\ br.bit \in Nat
  BY DEF Position
<1> QED BY <1>1 DEF Has

LEMMA BitIs ==
  ASSUME NEW data \in Seq(Byte), NEW br \in Position, NEW i \in Nat, Has(data, br, i + 1)
  PROVE  BitAt(data, br, i) \in 0 .. 1
<1> DEFINE k == 8 * br.from + br.bit + i
<1>1. Len(data) \in Nat /\ br.from \in Nat /\ br.bit \in Nat
  BY DEF Position
<1>2. k \in Nat /\ k < 8 * Len(data)
  <2>1. \A f, b, l \in Nat : b + (i + 1) <= 8 * (l - f) =>
          8 * f + b + i \in Nat /\ 8 * f + b + i < 8 * l
    OBVIOUS
  <2> QED BY <1>1, <2>1 DEF Has
<1> HIDE DEF k
<1>3. k \div 8 + 1 \in 1 .. Len(data) /\ k % 8 \in 0 .. 7
  BY <1>1, <1>2
<1>4. data[k \div 8 + 1] \in Nat
  <2>1. data[k \div 8 + 1] \in Byte
    BY <1>3
  <2>2. \A x \in Byte : x \in Nat
    BY DEF Byte
  <2> QED BY <2>1, <2>2
<1>5. \A b \in Nat, e \in 0 .. 7 : (b \div 2 ^ e) % 2 \in 0 .. 1
  OBVIOUS
<1>6. BitAt(data, br, i) = (data[k \div 8 + 1] \div 2 ^ (k % 8)) % 2
  BY DEF BitAt, k
<1> QED BY <1>3, <1>4, <1>5, <1>6

(* What is read of bits that are there is a number; of three, one below 8.  *)
Reading(data, br, count, f) ==
  f = [n \in 0 .. count |->
         IF n = 0 THEN 0 ELSE 2 * f[n - 1] + BitAt(data, br, count - n)]
ReadBits(data, br, count) == CHOOSE f : Reading(data, br, count, f)

LEMMA GetIs ==
  ASSUME NEW data \in Seq(Byte), NEW br \in Position, NEW count \in Nat,
         Has(data, br, count)
  PROVE  /\ Get(data, br, count) \in Nat
         /\ count = 3 => Get(data, br, count) \in 0 .. 7
<1> DEFINE b == [n \in 1 .. count |-> BitAt(data, br, count - n)]
           f == ReadBits(data, br, count)
<1>1. PICK g : Doubled(b, count, g)
  BY Doubling
<1>2. \A n \in 1 .. count : b[n] = BitAt(data, br, count - n)
  OBVIOUS
<1>3. Reading(data, br, count, g)
  <2> HIDE DEF b
  <2>1. \A n \in 0 .. count : n # 0 => n \in 1 .. count
    OBVIOUS
  <2> QED BY <1>1, <1>2, <2>1 DEF Doubled, Reading
<1>4. Reading(data, br, count, f)
  BY <1>3 DEF ReadBits
<1>5. Get(data, br, count) = f[count]
  BY DEF Get, ReadBits, Reading
<1>6. ASSUME NEW n \in 1 .. count PROVE b[n] \in 0 .. 1
  <2>1. count - n \in Nat /\ (count - n) + 1 <= count /\ (count - n) + 1 \in 0 .. count
    OBVIOUS
  <2>2. Has(data, br, (count - n) + 1)
    BY <2>1, HasFewer
  <2> QED BY <1>2, <2>1, <2>2, BitIs
<1> HIDE DEF b, f
<1>7. /\ f[0] = 0
      /\ \A n \in 1 .. count : f[n] = 2 * f[n - 1] + b[n]
  <2>1. \A n \in 0 .. count :
          f[n] = IF n = 0 THEN 0 ELSE 2 * f[n - 1] + BitAt(data, br, count - n)
    BY <1>4 DEF Reading
  <2>2. 0 \in 0 .. count /\ \A n \in 1 .. count : n \in 0 .. count /\ n # 0
    OBVIOUS
  <2> QED BY <1>2, <2>1, <2>2
<1> DEFINE T == {n \in Nat : n <= count => f[n] \in Nat}
<1>8. 0 \in T
  BY <1>7
<1>9. ASSUME NEW n \in Nat, n \in T PROVE n + 1 \in T
  <2> SUFFICES ASSUME n + 1 <= count PROVE f[n + 1] \in Nat
    OBVIOUS
  <2>1. f[n] \in Nat /\ n + 1 \in 1 .. count /\ (n + 1) - 1 = n
    BY <1>9
  <2>2. f[n + 1] = 2 * f[n] + b[n + 1] /\ b[n + 1] \in 0 .. 1
    BY <1>6, <1>7, <2>1
  <2> QED BY <2>1, <2>2
<1> HIDE DEF T
<1>10. Nat \subseteq T
  BY <1>8, <1>9, Induction
<1>11. f[count] \in Nat
  BY <1>10 DEF T
<1>12. ASSUME count = 3 PROVE f[count] \in 0 .. 7
  <2>1. /\ f[1] = 2 * f[0] + b[1] /\ f[2] = 2 * f[1] + b[2] /\ f[3] = 2 * f[2] + b[3]
        /\ b[1] \in 0 .. 1 /\ b[2] \in 0 .. 1 /\ b[3] \in 0 .. 1
    BY <1>6, <1>7, <1>12
  <2> QED BY <1>7, <1>12, <2>1
<1> QED BY <1>5, <1>11, <1>12

-----------------------------------------------------------------------------
(* Codes.                                                                   *)
Code    == [1 .. 15 -> Seq(Nat)]
NoCode  == [n \in 1 .. 15 |-> <<>>]
Entered(lengths, c, k) ==
  IF lengths[k] = 0 THEN c ELSE [c EXCEPT ![lengths[k]] = Append(@, k - 1)]
Building(lengths, f) ==
  f = [k \in 0 .. Len(lengths) |->
         IF k = 0 THEN NoCode ELSE Entered(lengths, f[k - 1], k)]
Built(lengths) == CHOOSE f : Building(lengths, f)

LEMMA EmptyCode == NoCode \in Code
<1>1. <<>> \in Seq(Nat)
  OBVIOUS
<1> QED BY <1>1 DEF Code, NoCode

LEMMA CodeGrows ==
  ASSUME NEW lengths \in Seq(0 .. 15), NEW k \in 1 .. Len(lengths), NEW c \in Code
  PROVE  Entered(lengths, c, k) \in Code
<1>1. lengths[k] \in 0 .. 15 /\ k - 1 \in Nat
  OBVIOUS
<1>2. ASSUME NEW l \in 1 .. 15, NEW s \in Nat
      PROVE  [c EXCEPT ![l] = Append(@, s)] \in Code
  <2>1. c[l] \in Seq(Nat)
    BY DEF Code
  <2>2. Append(c[l], s) \in Seq(Nat)
    BY <2>1
  <2> QED BY <2>2 DEF Code
<1>3. CASE lengths[k] # 0
  <2>1. lengths[k] \in 1 .. 15
    BY <1>1, <1>3
  <2> QED BY <1>1, <1>2, <1>3, <2>1 DEF Entered
<1> QED BY <1>3 DEF Entered

LEMMA HuffmanTyped ==
  ASSUME NEW lengths \in Seq(0 .. 15)
  PROVE  Huffman(lengths) \in Code
<1> DEFINE N == Len(lengths)
           step == [k \in 1 .. N |-> [c \in Code |-> Entered(lengths, c, k)]]
           f == Built(lengths)
<1>1. N \in Nat
  OBVIOUS
<1>2. step \in [1 .. N -> [Code -> Code]]
  BY CodeGrows
<1>3. \A k \in 1 .. N : \A c \in Code : step[k][c] = Entered(lengths, c, k)
  OBVIOUS
<1>4. PICK g \in [0 .. N -> Code] :
        g[0] = NoCode /\ \A k \in 1 .. N : g[k] = step[k][g[k - 1]]
  <2> HIDE DEF step, N
  <2> QED BY <1>1, <1>2, EmptyCode, Recursion
<1> HIDE DEF step
<1>5. Building(lengths, g)
  <2>1. ASSUME NEW k \in 0 .. N
        PROVE  g[k] = IF k = 0 THEN NoCode ELSE Entered(lengths, g[k - 1], k)
    <3>1. CASE k # 0
      <4>1. k \in 1 .. N /\ k - 1 \in 0 .. N
        BY <1>1, <3>1
      <4>2. g[k - 1] \in Code
        BY <4>1
      <4> QED BY <1>3, <1>4, <3>1, <4>1, <4>2
    <3> QED BY <1>4, <3>1
  <2>2. g = [k \in 0 .. N |-> g[k]]
    OBVIOUS
  <2> QED BY <2>1, <2>2 DEF Building
<1>6. Building(lengths, f)
  BY <1>5 DEF Built
<1>7. Huffman(lengths) = f[N]
  BY DEF Huffman, Built, Building, Entered, NoCode
<1> HIDE DEF f
<1>8. \A k \in 0 .. N : f[k] = IF k = 0 THEN NoCode ELSE Entered(lengths, f[k - 1], k)
  BY <1>6 DEF Building
<1> HIDE DEF N
<1> DEFINE T == {k \in Nat : k <= N => f[k] \in Code}
<1>9. 0 \in T
  <2>1. 0 \in 0 .. N
    BY <1>1
  <2>2. f[0] = NoCode
    BY <1>8, <2>1
  <2> QED BY <2>2, EmptyCode
<1>10. ASSUME NEW k \in Nat, k \in T PROVE k + 1 \in T
  <2> SUFFICES ASSUME k + 1 <= N PROVE f[k + 1] \in Code
    OBVIOUS
  <2>1. f[k] \in Code /\ k + 1 \in 1 .. N /\ k + 1 \in 0 .. N /\ (k + 1) - 1 = k /\ k + 1 # 0
    BY <1>1, <1>10
  <2>2. f[k + 1] = Entered(lengths, f[k], k + 1)
    BY <1>8, <2>1
  <2> QED BY <2>1, <2>2, CodeGrows DEF N
<1> HIDE DEF T
<1>11. Nat \subseteq T
  BY <1>9, <1>10, Induction
<1>12. f[N] \in Code
  BY <1>1, <1>11 DEF T
<1> QED BY <1>7, <1>12 DEF N

(* Reading a symbol.  As long as no shorter word is a code a word is not    *)
(* below the first code of its length, so what a symbol is looked up at is  *)
(* a place in the code.                                                     *)
Wording(data, br, f) ==
  f = [n \in 0 .. 15 |-> IF n = 0 THEN 0 ELSE 2 * f[n - 1] + BitAt(data, br, n - 1)]
Word(data, br) == CHOOSE f : Wording(data, br, f)
Lowest(code, f) ==
  f = [n \in 0 .. 15 |-> IF n <= 1 THEN 0 ELSE 2 * (f[n - 1] + Len(code[n - 1]))]
Lower(code, n, v) == IF n <= 1 THEN 0 ELSE 2 * (v + Len(code[n - 1]))
Low(code) == CHOOSE f : Lowest(code, f)

LEMMA CodeSizes ==
  ASSUME NEW code \in Code, NEW n \in 1 .. 15
  PROVE  code[n] \in Seq(Nat) /\ Len(code[n]) \in Nat
<1>1. code[n] \in Seq(Nat)
  BY DEF Code
<1> QED BY <1>1

LEMMA WordIs ==
  ASSUME NEW data \in Seq(Byte), NEW br \in Position
  PROVE  /\ Word(data, br)[0] = 0
         /\ \A n \in 1 .. 15 : Has(data, br, n) =>
              \E b \in 0 .. 1 : Word(data, br)[n] = 2 * Word(data, br)[n - 1] + b
<1> DEFINE b == [n \in 1 .. 15 |-> BitAt(data, br, n - 1)]
           f == Word(data, br)
<1>1. PICK g : Doubled(b, 15, g)
  BY Doubling
<1>2. \A n \in 1 .. 15 : b[n] = BitAt(data, br, n - 1)
  OBVIOUS
<1>3. Wording(data, br, g)
  <2> HIDE DEF b
  <2>1. \A n \in 0 .. 15 : n # 0 => n \in 1 .. 15
    OBVIOUS
  <2> QED BY <1>1, <1>2, <2>1 DEF Doubled, Wording
<1>4. Wording(data, br, f)
  BY <1>3 DEF Word
<1> HIDE DEF f
<1>5. \A n \in 0 .. 15 :
        f[n] = IF n = 0 THEN 0 ELSE 2 * f[n - 1] + BitAt(data, br, n - 1)
  BY <1>4 DEF Wording
<1>6. f[0] = 0
  BY <1>5
<1>7. ASSUME NEW n \in 1 .. 15, Has(data, br, n)
      PROVE  \E c \in 0 .. 1 : f[n] = 2 * f[n - 1] + c
  <2>1. n - 1 \in Nat /\ (n - 1) + 1 = n /\ n \in 0 .. 15 /\ n # 0
    OBVIOUS
  <2>2. BitAt(data, br, n - 1) \in 0 .. 1
    BY <1>7, <2>1, BitIs
  <2>3. f[n] = 2 * f[n - 1] + BitAt(data, br, n - 1)
    BY <1>5, <2>1
  <2> QED BY <2>2, <2>3
<1> QED BY <1>6, <1>7 DEF f

LEMMA LowIs ==
  ASSUME NEW code \in Code
  PROVE  /\ Low(code) \in [0 .. 15 -> Nat] /\ Low(code)[1] = 0
         /\ \A n \in 2 .. 15 : Low(code)[n] = 2 * (Low(code)[n - 1] + Len(code[n - 1]))
<1> DEFINE step == [n \in 1 .. 15 |-> [v \in Nat |-> Lower(code, n, v)]]
           f == Low(code)
<1>1. ASSUME NEW n \in 1 .. 15, NEW v \in Nat PROVE Lower(code, n, v) \in Nat
  <2>1. CASE n > 1
    <3>1. n - 1 \in 1 .. 15
      BY <2>1
    <3>2. Len(code[n - 1]) \in Nat
      BY <3>1, CodeSizes
    <3> QED BY <3>2 DEF Lower
  <2> QED BY <2>1 DEF Lower
<1>2. step \in [1 .. 15 -> [Nat -> Nat]]
  BY <1>1
<1>3. \A n \in 1 .. 15 : \A v \in Nat : step[n][v] = Lower(code, n, v)
  OBVIOUS
<1> HIDE DEF step
<1>4. PICK g \in [0 .. 15 -> Nat] : g[0] = 0 /\ \A n \in 1 .. 15 : g[n] = step[n][g[n - 1]]
  <2> DEFINE numbers == Nat
             zero == 0
             top == 15
  <2>1. zero \in numbers /\ top \in Nat /\ step \in [1 .. top -> [numbers -> numbers]]
    BY <1>2
  <2> HIDE DEF numbers, zero, top
  <2>2. \E g \in [0 .. top -> numbers] :
          g[0] = zero /\ \A n \in 1 .. top : g[n] = step[n][g[n - 1]]
    BY <2>1, Recursion
  <2> QED BY <2>2 DEF numbers, zero, top
<1>5. \A n \in 0 .. 15 : g[n] = Lower(code, n, g[n - 1])
  <2> TAKE n \in 0 .. 15
  <2>1. CASE n # 0
    <3>1. n \in 1 .. 15 /\ g[n - 1] \in Nat
      BY <2>1
    <3> QED BY <1>3, <1>4, <3>1
  <2> QED BY <1>4, <2>1 DEF Lower
<1>6. Lowest(code, g)
  <2>1. g = [n \in 0 .. 15 |-> g[n]]
    OBVIOUS
  <2> QED BY <1>5, <2>1 DEF Lowest, Lower
<1>7. Lowest(code, f)
  BY <1>6 DEF Low
<1> HIDE DEF f
<1>8. \A n \in 0 .. 15 : f[n] = Lower(code, n, f[n - 1])
  BY <1>7 DEF Lowest, Lower
<1>9. \A n \in 2 .. 15 : f[n] = 2 * (f[n - 1] + Len(code[n - 1]))
  <2> TAKE n \in 2 .. 15
  <2>1. n \in 0 .. 15 /\ ~(n <= 1)
    OBVIOUS
  <2> QED BY <1>8, <2>1 DEF Lower
<1>10. f[0] = 0 /\ f[1] = 0
  BY <1>8 DEF Lower
<1> DEFINE T == {n \in Nat : n + 1 <= 15 => f[n + 1] \in Nat}
<1>11. 0 \in T
  BY <1>10
<1>12. ASSUME NEW n \in Nat, n \in T PROVE n + 1 \in T
  <2> SUFFICES ASSUME (n + 1) + 1 <= 15 PROVE f[(n + 1) + 1] \in Nat
    OBVIOUS
  <2>1. f[n + 1] \in Nat /\ n + 1 \in 1 .. 15 /\ (n + 1) + 1 \in 2 .. 15
        /\ ((n + 1) + 1) - 1 = n + 1
    BY <1>12
  <2>2. Len(code[n + 1]) \in Nat
    BY <2>1, CodeSizes
  <2>3. f[(n + 1) + 1] = 2 * (f[n + 1] + Len(code[n + 1]))
    BY <1>9, <2>1
  <2>4. \A v, l \in Nat : 2 * (v + l) \in Nat
    OBVIOUS
  <2> QED BY <2>1, <2>2, <2>3, <2>4
<1> HIDE DEF T
<1>13. Nat \subseteq T
  BY <1>11, <1>12, Induction
<1>14. f \in [0 .. 15 -> Nat]
  <2>1. ASSUME NEW n \in 0 .. 15 PROVE f[n] \in Nat
    <3>1. CASE n # 0
      <4>1. n - 1 \in Nat /\ (n - 1) + 1 = n
        BY <3>1
      <4>2. n - 1 \in T
        BY <1>13, <4>1
      <4> QED BY <4>1, <4>2 DEF T
    <3> QED BY <1>10, <3>1
  <2>2. f = [n \in 0 .. 15 |-> f[n]]
    BY <1>7 DEF Lowest
  <2> QED BY <2>1, <2>2
<1> QED BY <1>9, <1>10, <1>14 DEF f

LEMMA DecodeIs ==
  ASSUME NEW data \in Seq(Byte), NEW br \in Position, NEW code \in Code
  PROVE  LET d == Decode(data, br, code) IN
         /\ d.ok \in BOOLEAN
         /\ d.ok => d.symbol \in Nat /\ d.br \in Position
<1> DEFINE word  == Word(data, br)
           low   == Low(code)
           codes == {n \in 1 .. 15 : Has(data, br, n) /\ word[n] < low[n] + Len(code[n])}
           n     == First(codes)
           d     == Decode(data, br, code)
<1>1. d = IF codes = {} THEN Bad
          ELSE [ok |-> TRUE, symbol |-> code[n][word[n] - low[n] + 1], br |-> Skip(br, n)]
  BY DEF Decode, Word, Wording, Low, Lowest
<1>2. /\ word[0] = 0
      /\ \A k \in 1 .. 15 : Has(data, br, k) =>
           \E b \in 0 .. 1 : word[k] = 2 * word[k - 1] + b
  BY WordIs
<1>3. /\ low \in [0 .. 15 -> Nat] /\ low[1] = 0
      /\ \A k \in 2 .. 15 : low[k] = 2 * (low[k - 1] + Len(code[k - 1]))
  BY LowIs
<1>4. \A k \in 1 .. 15 : code[k] \in Seq(Nat) /\ Len(code[k]) \in Nat
  BY CodeSizes
<1> HIDE DEF word, low, d
<1>5. CASE codes = {}
  <2>1. d = Bad
    BY <1>1, <1>5
  <2>2. d.ok = FALSE
    BY <2>1 DEF Bad
  <2> QED BY <2>2 DEF d
<1>6. CASE codes # {}
  <2>1. n \in codes /\ \A k \in codes : n <= k
    <3>1. codes \subseteq Nat
      OBVIOUS
    <3> HIDE DEF codes
    <3> QED BY <1>6, <3>1, FirstIs
  <2>2. n \in 1 .. 15 /\ Has(data, br, n) /\ word[n] < low[n] + Len(code[n])
    BY <2>1
  <2>3. \A k \in 1 .. 15 : k < n => k \notin codes
    BY <2>1, <2>2
  <2>4. \A k \in 1 .. 15 : Has(data, br, k) /\ k \notin codes =>
            ~(word[k] < low[k] + Len(code[k]))
    OBVIOUS
  <2> HIDE DEF n, codes
  <2>5. \A k \in 0 .. n : Has(data, br, k)
    BY <2>2, HasFewer
  <2> DEFINE T == {k \in Nat : k <= n => /\ word[k] \in Nat
                                         /\ k > 0 => word[k] >= low[k]}
  <2>6. 0 \in T
    BY <1>2
  <2>7. ASSUME NEW k \in Nat, k \in T PROVE k + 1 \in T
    <3> SUFFICES ASSUME k + 1 <= n
                 PROVE  word[k + 1] \in Nat /\ word[k + 1] >= low[k + 1]
      OBVIOUS
    <3>1. k + 1 \in 1 .. 15 /\ k + 1 \in 0 .. n /\ (k + 1) - 1 = k /\ k <= n /\ k < n
      BY <2>2
    <3>2. word[k] \in Nat /\ (k > 0 => word[k] >= low[k])
      BY <2>7, <3>1
    <3>3. PICK b \in 0 .. 1 : word[k + 1] = 2 * word[k] + b
      BY <1>2, <2>5, <3>1
    <3>4. CASE k = 0
      <4>1. word[1] = 2 * word[0] + b /\ k + 1 = 1
        BY <3>3, <3>4
      <4>2. word[1] \in Nat /\ word[1] >= low[1]
        BY <1>2, <1>3, <4>1
      <4> QED BY <4>1, <4>2
    <3>5. CASE k > 0
      <4>1. k \in 1 .. 15 /\ k + 1 \in 2 .. 15 /\ k \in 0 .. n /\ k \in 0 .. 15
        BY <3>1, <3>5
      <4>2. ~(word[k] < low[k] + Len(code[k]))
        BY <2>3, <2>4, <2>5, <3>1, <4>1
      <4>3. low[k] \in Nat /\ Len(code[k]) \in Nat
            /\ low[k + 1] = 2 * (low[k] + Len(code[k]))
        BY <1>3, <1>4, <3>1, <4>1
      <4>4. \A w, l, c \in Nat : ~(w < l + c) => 2 * w + b \in Nat /\ 2 * w + b >= 2 * (l + c)
        OBVIOUS
      <4> QED BY <3>2, <3>3, <4>2, <4>3, <4>4
    <3> QED BY <3>4, <3>5
  <2> HIDE DEF T
  <2>8. Nat \subseteq T
    BY <2>6, <2>7, Induction
  <2>9. word[n] \in Nat /\ word[n] >= low[n] /\ low[n] \in Nat
    <3>1. n \in Nat /\ n > 0 /\ n <= n /\ n \in 0 .. 15
      BY <2>2
    <3>2. n \in T
      BY <2>8, <3>1
    <3> QED BY <1>3, <3>1, <3>2 DEF T
  <2>10. word[n] - low[n] + 1 \in 1 .. Len(code[n])
    <3>1. Len(code[n]) \in Nat
      BY <1>4, <2>2
    <3>2. \A w, l, c \in Nat : w < l + c /\ w >= l => w - l + 1 \in 1 .. c
      OBVIOUS
    <3> QED BY <2>2, <2>9, <3>1, <3>2
  <2>11. code[n][word[n] - low[n] + 1] \in Nat
    <3>1. \A s \in Seq(Nat) : \A i \in 1 .. Len(s) : s[i] \in Nat
      OBVIOUS
    <3>2. code[n] \in Seq(Nat)
      BY <1>4, <2>2
    <3> QED BY <2>10, <3>1, <3>2
  <2>12. Skip(br, n) \in Position
    BY <2>2, SkipIs
  <2>13. d = [ok |-> TRUE, symbol |-> code[n][word[n] - low[n] + 1], br |-> Skip(br, n)]
    BY <1>1, <1>6
  <2>14. d.ok = TRUE /\ d.symbol = code[n][word[n] - low[n] + 1] /\ d.br = Skip(br, n)
    BY <2>13
  <2>15. d.ok \in BOOLEAN /\ d.symbol \in Nat /\ d.br \in Position
    BY <2>11, <2>12, <2>14
  <2> QED BY <2>15 DEF d
<1> QED BY <1>5, <1>6 DEF d

-----------------------------------------------------------------------------
(* The decoder.                                                             *)
OutTyped(out) == out \in Seq(Byte) /\ Len(out) <= MaxInflate
PlaceTyped(place) ==
  /\ place.at = "lengths" =>
       /\ place.clen \in Code /\ place.nlit \in Nat /\ place.total \in Nat
       /\ place.nlit <= place.total /\ place.lengths \in Seq(0 .. 15)
  /\ place.at = "symbols" => place.lit \in Code /\ place.dist \in Code
DecoderTyped(z) ==
  /\ z.data \in Seq(Byte) /\ z.br \in Position /\ OutTyped(z.out)
  /\ PlaceTyped(z.place)

LEMMA DecoderMade ==
  ASSUME NEW data \in Seq(Byte), NEW br \in Position, NEW out, OutTyped(out), NEW final,
         NEW place, PlaceTyped(place)
  PROVE  DecoderTyped(Decoder(data, br, out, final, place))
BY DEF DecoderTyped, Decoder

LEMMA Resumed ==
  ASSUME NEW z, DecoderTyped(z), NEW br \in Position, NEW out, OutTyped(out),
         NEW place, PlaceTyped(place)
  PROVE  DecoderTyped(Resume(z, br, out, place))
BY DecoderMade DEF DecoderTyped, Resume

LEMMA Places ==
  /\ PlaceTyped(Between) /\ PlaceTyped(Broken)
  /\ \A lit, dist \in Code : PlaceTyped(InSymbols(lit, dist))
  /\ \A clen \in Code, nlit \in Nat, total \in Nat, lengths \in Seq(0 .. 15) :
       nlit <= total => PlaceTyped(InLengths(clen, nlit, total, lengths))
BY DEF PlaceTyped, Between, Broken, InSymbols, InLengths

LEMMA Stopped == ASSUME NEW z, DecoderTyped(z) PROVE DecoderTyped(Stop(z))
BY DecoderMade, Places DEF DecoderTyped, Stop

LEMMA StartTyped == ASSUME NEW data \in Seq(Byte) PROVE DecoderTyped(Start(data))
<1>1. Reader(0) \in Position
  BY DEF Reader, Position
<1>2. OutTyped(<<>>)
  BY MaxInflateAssumption DEF OutTyped
<1> QED BY <1>1, <1>2, DecoderMade, Places DEF Start

(* A match repeats what has been put out, wherever it overlaps itself.      *)
LEMMA MatchTyped ==
  ASSUME NEW out \in Seq(Byte), NEW distance \in 1 .. Len(out), NEW length \in Nat
  PROVE  Match(out, distance, length) \in Seq(Byte)
         /\ Len(Match(out, distance, length)) = length
<1> DEFINE at(i) == Len(out) - distance + 1 + ((i - 1) % distance)
<1>1. Len(out) \in Nat
  OBVIOUS
<1>2. \A i \in 1 .. length : at(i) \in 1 .. Len(out)
  <2>1. \A l \in Nat : \A d \in 1 .. l : \A i \in 1 .. length :
          l - d + 1 + ((i - 1) % d) \in 1 .. l
    OBVIOUS
  <2> QED BY <1>1, <2>1
<1> HIDE DEF at
<1>3. \A i \in 1 .. length : out[at(i)] \in Byte
  BY <1>2
<1>4. Match(out, distance, length) = [i \in 1 .. length |-> out[at(i)]]
  BY DEF Match, at
<1>5. [i \in 1 .. length |-> out[at(i)]] \in Seq(Byte)
  BY <1>3
<1>6. Len([i \in 1 .. length |-> out[at(i)]]) = length
  OBVIOUS
<1> QED BY <1>4, <1>5, <1>6

LEMMA Longer ==
  ASSUME NEW out \in Seq(Byte), NEW more \in Seq(Byte),
         Len(out) + Len(more) <= MaxInflate
  PROVE  OutTyped(out \o more)
<1>1. out \o more \in Seq(Byte) /\ Len(out \o more) = Len(out) + Len(more)
  OBVIOUS
<1> QED BY <1>1 DEF OutTyped

LEMMA Tables ==
  /\ \A k \in 1 .. 29 : LenExtra[k] \in Nat /\ LenBase[k] \in Nat
  /\ \A k \in 1 .. 30 : DistExtra[k] \in Nat /\ DistBase[k] \in Nat \ {0}
<1>1. \A k \in 1 .. 29 : LenExtra[k] \in Nat
  BY DEF LenExtra
<1>2. \A k \in 1 .. 29 : LenBase[k] \in Nat
  BY DEF LenBase
<1>3. \A k \in 1 .. 30 : DistBase[k] \in Nat \ {0}
  BY DEF DistBase
<1>4. \A k \in 1 .. 30 : DistExtra[k] \in Nat
  BY DEF DistExtra
<1> QED BY <1>1, <1>2, <1>3, <1>4

LEMMA RepeatedIs ==
  ASSUME NEW data \in Seq(Byte), NEW br \in Position, NEW dist \in Code,
         NEW k \in Nat \ {0}, NEW out, OutTyped(out)
  PROVE  LET m == Repeated(data, br, dist, k, out) IN
         /\ m.ok \in BOOLEAN
         /\ m.ok => m.br \in Position /\ OutTyped(m.out)
<1> DEFINE m == Repeated(data, br, dist, k, out)
<1> HIDE DEF m
<1> SUFFICES m.ok \in BOOLEAN /\ (m.ok => m.br \in Position /\ OutTyped(m.out))
  BY DEF m
<1>1. ASSUME m = Bad PROVE m.ok = FALSE
  BY <1>1 DEF Bad
<1>2. CASE k > 29 \/ ~Has(data, br, LenExtra[k])
  BY <1>1, <1>2 DEF Repeated, m
<1>3. CASE ~(k > 29 \/ ~Has(data, br, LenExtra[k]))
  <2> DEFINE more == LenExtra[k]
             length == LenBase[k] + Get(data, br, more)
             d == Decode(data, Skip(br, more), dist)
  <2>1. k \in 1 .. 29
    BY <1>3
  <2>2. more \in Nat /\ Has(data, br, more)
    BY <1>3, <2>1, Tables
  <2>3. length \in Nat
    <3>1. Get(data, br, more) \in Nat
      BY <2>2, GetIs
    <3>2. LenBase[k] \in Nat
      BY <2>1, Tables
    <3> QED BY <3>1, <3>2
  <2>4. d.ok \in BOOLEAN /\ (d.ok => d.symbol \in Nat /\ d.br \in Position)
    <3>1. Skip(br, more) \in Position
      BY <2>2, SkipIs
    <3> QED BY <3>1, DecodeIs
  <2> DEFINE extra == DistExtra[d.symbol + 1]
             distance == DistBase[d.symbol + 1] + Get(data, d.br, extra)
             long == [ok |-> TRUE, br |-> Skip(d.br, extra),
                      out |-> out \o Match(out, distance, length)]
  <2>5. m = IF ~d.ok \/ d.symbol >= 30 \/ ~Has(data, d.br, extra) THEN Bad
            ELSE IF distance > Len(out) \/ Len(out) + length > MaxInflate THEN Bad
            ELSE long
    <3>1. CASE ~d.ok
      BY <1>3, <3>1 DEF Repeated, m
    <3>2. CASE d.ok /\ d.symbol >= 30
      BY <1>3, <3>2 DEF Repeated, m
    <3>3. CASE d.ok /\ ~(d.symbol >= 30)
      BY <1>3, <3>3 DEF Repeated, m
    <3> QED BY <3>1, <3>2, <3>3
  <2> HIDE DEF d
  <2>6. CASE ~d.ok \/ d.symbol >= 30 \/ ~Has(data, d.br, extra)
    BY <1>1, <2>5, <2>6
  <2>7. CASE ~(~d.ok \/ d.symbol >= 30 \/ ~Has(data, d.br, extra))
    <3>1. d.symbol + 1 \in 1 .. 30 /\ d.br \in Position
      <4>1. d.symbol \in Nat /\ ~(d.symbol >= 30) /\ d.br \in Position
        BY <2>4, <2>7
      <4>2. \A s \in Nat : ~(s >= 30) => s + 1 \in 1 .. 30
        OBVIOUS
      <4> QED BY <4>1, <4>2
    <3>2. extra \in Nat /\ DistBase[d.symbol + 1] \in Nat \ {0}
      BY <3>1, Tables
    <3>3. Get(data, d.br, extra) \in Nat
      <4> HIDE DEF extra
      <4> QED BY <2>7, <3>1, <3>2, GetIs
    <3>4. distance \in Nat \ {0}
      <4> HIDE DEF extra
      <4> QED BY <3>2, <3>3
    <3>5. Skip(d.br, extra) \in Position
      BY <3>1, <3>2, SkipIs
    <3> HIDE DEF extra, distance, length
    <3>6. CASE distance > Len(out) \/ Len(out) + length > MaxInflate
      BY <1>1, <2>5, <2>7, <3>6
    <3>7. CASE ~(distance > Len(out) \/ Len(out) + length > MaxInflate)
      <4>1. m = long
        BY <2>5, <2>7, <3>7
      <4>2. out \in Seq(Byte) /\ Len(out) \in Nat
        BY DEF OutTyped
      <4>3. distance \in 1 .. Len(out) /\ Len(out) + length <= MaxInflate
        BY <2>3, <3>4, <3>7, <4>2, MaxInflateAssumption
      <4>4. Match(out, distance, length) \in Seq(Byte)
            /\ Len(Match(out, distance, length)) = length
        BY <2>3, <4>2, <4>3, MatchTyped
      <4>5. OutTyped(out \o Match(out, distance, length))
        BY <4>2, <4>3, <4>4, Longer
      <4>6. m.ok = TRUE /\ m.br = Skip(d.br, extra)
            /\ m.out = out \o Match(out, distance, length)
        BY <4>1
      <4> QED BY <3>5, <4>5, <4>6
    <3> QED BY <3>6, <3>7
  <2> QED BY <2>6, <2>7
<1> QED BY <1>2, <1>3

LEMMA SymbolRead ==
  ASSUME NEW z, DecoderTyped(z), z.place.at = "symbols"
  PROVE  DecoderTyped(NextSymbol(z))
<1> DEFINE l == Decode(z.data, z.br, z.place.lit)
           m == Repeated(z.data, l.br, z.place.dist, l.symbol - 256, z.out)
<1>1. /\ z.data \in Seq(Byte) /\ z.br \in Position /\ OutTyped(z.out)
      /\ PlaceTyped(z.place) /\ z.place.lit \in Code /\ z.place.dist \in Code
  BY DEF DecoderTyped, PlaceTyped
<1>2. l.ok \in BOOLEAN /\ (l.ok => l.symbol \in Nat /\ l.br \in Position)
  BY <1>1, DecodeIs
<1>3. NextSymbol(z) =
        IF ~l.ok THEN Stop(z)
        ELSE IF l.symbol < 256
        THEN IF Len(z.out) >= MaxInflate THEN Stop(z)
             ELSE Resume(z, l.br, Append(z.out, l.symbol), z.place)
        ELSE IF l.symbol = 256 THEN Resume(z, l.br, z.out, Between)
        ELSE IF m.ok THEN Resume(z, m.br, m.out, z.place) ELSE Stop(z)
  BY DEF NextSymbol
<1> HIDE DEF l
<1>4. CASE ~l.ok
  BY <1>3, <1>4, Stopped
<1>5. CASE l.ok /\ l.symbol < 256
  <2>1. CASE Len(z.out) >= MaxInflate
    BY <1>3, <1>5, <2>1, Stopped
  <2>2. CASE ~(Len(z.out) >= MaxInflate)
    <3>1. l.symbol \in Byte /\ l.br \in Position
      <4>1. \A s \in Nat : s < 256 => s \in Byte
        BY DEF Byte
      <4> QED BY <1>2, <1>5, <4>1
    <3>2. OutTyped(Append(z.out, l.symbol))
      <4>1. z.out \in Seq(Byte) /\ Len(z.out) \in Nat
        BY <1>1 DEF OutTyped
      <4>2. /\ Append(z.out, l.symbol) \in Seq(Byte)
            /\ Len(Append(z.out, l.symbol)) = Len(z.out) + 1
        BY <3>1, <4>1
      <4>3. Len(z.out) + 1 <= MaxInflate
        BY <2>2, <4>1, MaxInflateAssumption
      <4> QED BY <4>2, <4>3 DEF OutTyped
    <3> QED BY <1>1, <1>3, <1>5, <2>2, <3>1, <3>2, Resumed
  <2> QED BY <2>1, <2>2
<1>6. CASE l.ok /\ ~(l.symbol < 256) /\ l.symbol = 256
  BY <1>1, <1>2, <1>3, <1>6, Places, Resumed
<1>7. CASE l.ok /\ ~(l.symbol < 256) /\ l.symbol # 256
  <2>1. l.symbol - 256 \in Nat \ {0} /\ l.br \in Position
    <3>1. \A s \in Nat : ~(s < 256) /\ s # 256 => s - 256 \in Nat \ {0}
      OBVIOUS
    <3> QED BY <1>2, <1>7, <3>1
  <2>2. m.ok \in BOOLEAN /\ (m.ok => m.br \in Position /\ OutTyped(m.out))
    BY <1>1, <2>1, RepeatedIs
  <2> HIDE DEF m
  <2> QED BY <1>1, <1>3, <1>7, <2>2, Resumed, Stopped
<1> QED BY <1>4, <1>5, <1>6, <1>7

LEMMA TimesTyped ==
  ASSUME NEW n \in Nat, NEW x \in 0 .. 15
  PROVE  Times(n, x) \in Seq(0 .. 15)
<1>1. [i \in 1 .. n |-> x] \in Seq(0 .. 15)
  OBVIOUS
<1> QED BY <1>1 DEF Times

LEMMA LengthsGrow ==
  ASSUME NEW z, DecoderTyped(z), z.place.at = "lengths", NEW br \in Position,
         NEW more \in Seq(0 .. 15)
  PROVE  DecoderTyped(MoreLengths(z, br, more))
<1>1. /\ z.place.clen \in Code /\ z.place.nlit \in Nat /\ z.place.total \in Nat
      /\ z.place.nlit <= z.place.total /\ z.place.lengths \in Seq(0 .. 15)
      /\ OutTyped(z.out)
  BY DEF DecoderTyped, PlaceTyped
<1>2. z.place.lengths \o more \in Seq(0 .. 15)
  BY <1>1
<1>3. PlaceTyped(InLengths(z.place.clen, z.place.nlit, z.place.total,
                           z.place.lengths \o more))
  BY <1>1, <1>2, Places
<1> QED BY <1>1, <1>3, Resumed DEF MoreLengths

LEMMA LengthsRead ==
  ASSUME NEW z, DecoderTyped(z), z.place.at = "lengths"
  PROVE  DecoderTyped(NextLengths(z))
<1> DEFINE ls == z.place.lengths
           n == Len(ls)
           c == Decode(z.data, z.br, z.place.clen)
           bits == RepeatBits(c.symbol)
           again == RepeatLeast(c.symbol) + Get(z.data, c.br, bits)
           what == IF c.symbol = 16 THEN ls[n] ELSE 0
           lit == Huffman(SubSeq(ls, 1, z.place.nlit))
           dist == Huffman(SubSeq(ls, z.place.nlit + 1, n))
<1>1. /\ z.data \in Seq(Byte) /\ z.br \in Position /\ OutTyped(z.out)
      /\ z.place.clen \in Code /\ z.place.nlit \in Nat /\ z.place.total \in Nat
      /\ z.place.nlit <= z.place.total /\ ls \in Seq(0 .. 15)
  BY DEF DecoderTyped, PlaceTyped
<1>2. c.ok \in BOOLEAN /\ (c.ok => c.symbol \in Nat /\ c.br \in Position)
  BY <1>1, DecodeIs
<1>3. n \in Nat
  BY <1>1
<1>4. NextLengths(z) =
        IF n > z.place.total THEN Stop(z)
        ELSE IF n = z.place.total THEN Resume(z, z.br, z.out, InSymbols(lit, dist))
        ELSE IF ~c.ok THEN Stop(z)
        ELSE IF c.symbol < 16 THEN MoreLengths(z, c.br, <<c.symbol>>)
        ELSE IF (c.symbol = 16 /\ n = 0) \/ ~Has(z.data, c.br, bits) THEN Stop(z)
        ELSE MoreLengths(z, Skip(c.br, bits), Times(again, what))
  BY DEF NextLengths
<1> HIDE DEF c
<1>5. CASE n > z.place.total
  BY <1>4, <1>5, Stopped
<1>6. CASE ~(n > z.place.total) /\ n = z.place.total
  <2>1. SubSeq(ls, 1, z.place.nlit) \in Seq(0 .. 15)
    <3>1. \A s \in Seq(0 .. 15) : \A k \in 0 .. Len(s) : SubSeq(s, 1, k) \in Seq(0 .. 15)
      OBVIOUS
    <3>2. z.place.nlit \in 0 .. Len(ls)
      BY <1>1, <1>3, <1>6
    <3> QED BY <1>1, <3>1, <3>2
  <2>2. SubSeq(ls, z.place.nlit + 1, n) \in Seq(0 .. 15)
    <3>1. \A s \in Seq(0 .. 15) : \A k \in Nat : SubSeq(s, k + 1, Len(s)) \in Seq(0 .. 15)
      OBVIOUS
    <3> QED BY <1>1, <3>1
  <2>3. lit \in Code /\ dist \in Code
    BY <2>1, <2>2, HuffmanTyped
  <2> HIDE DEF lit, dist
  <2>4. PlaceTyped(InSymbols(lit, dist))
    BY <2>3, Places
  <2>5. NextLengths(z) = Resume(z, z.br, z.out, InSymbols(lit, dist))
    BY <1>4, <1>6
  <2> QED BY <1>1, <2>4, <2>5, Resumed
<1>7. CASE ~(n > z.place.total) /\ n # z.place.total /\ ~c.ok
  BY <1>4, <1>7, Stopped
<1>8. CASE ~(n > z.place.total) /\ n # z.place.total /\ c.ok
  <2>1. c.symbol \in Nat /\ c.br \in Position
    BY <1>2, <1>8
  <2>2. CASE c.symbol < 16
    <3>1. c.symbol \in 0 .. 15
      <4>1. \A s \in Nat : s < 16 => s \in 0 .. 15
        OBVIOUS
      <4> QED BY <2>1, <2>2, <4>1
    <3>2. <<c.symbol>> \in Seq(0 .. 15)
      BY <3>1
    <3>3. NextLengths(z) = MoreLengths(z, c.br, <<c.symbol>>)
      BY <1>4, <1>8, <2>2
    <3> QED BY <2>1, <3>2, <3>3, LengthsGrow
  <2>3. CASE ~(c.symbol < 16) /\ ((c.symbol = 16 /\ n = 0) \/ ~Has(z.data, c.br, bits))
    BY <1>4, <1>8, <2>3, Stopped
  <2>4. CASE ~(c.symbol < 16) /\ ~((c.symbol = 16 /\ n = 0) \/ ~Has(z.data, c.br, bits))
    <3>1. bits \in Nat /\ RepeatLeast(c.symbol) \in Nat
      BY DEF RepeatBits, RepeatLeast
    <3>2. Get(z.data, c.br, bits) \in Nat
      <4> HIDE DEF bits
      <4> QED BY <1>1, <2>1, <2>4, <3>1, GetIs
    <3>3. again \in Nat
      BY <3>1, <3>2
    <3>4. what \in 0 .. 15
      <4>1. \A s \in Seq(0 .. 15) : Len(s) # 0 => s[Len(s)] \in 0 .. 15
        OBVIOUS
      <4>2. c.symbol = 16 => n # 0
        BY <2>4
      <4>3. c.symbol = 16 => ls[n] \in 0 .. 15
        BY <1>1, <4>1, <4>2
      <4> HIDE DEF n, ls
      <4> QED BY <4>3
    <3>5. Times(again, what) \in Seq(0 .. 15)
      <4> HIDE DEF again, what
      <4> QED BY <3>3, <3>4, TimesTyped
    <3>6. Skip(c.br, bits) \in Position
      BY <2>1, <3>1, SkipIs
    <3>7. NextLengths(z) = MoreLengths(z, Skip(c.br, bits), Times(again, what))
      BY <1>4, <1>8, <2>4
    <3> HIDE DEF again, what, bits
    <3> QED BY <3>5, <3>6, <3>7, LengthsGrow
  <2> QED BY <2>2, <2>3, <2>4
<1> QED BY <1>5, <1>6, <1>7, <1>8

LEMMA ClenTyped ==
  ASSUME NEW data \in Seq(Byte), NEW br \in Position, NEW nclen \in Nat,
         Has(data, br, 3 * nclen)
  PROVE  ClenLengths(data, br, nclen) \in Seq(0 .. 15)
<1> DEFINE i(s) == CHOOSE j \in 1 .. 19 : ClenOrder[j] = s - 1
           l(s) == IF i(s) > nclen THEN 0 ELSE Get(data, Skip(br, 3 * (i(s) - 1)), 3)
<1>1. ASSUME NEW s \in 1 .. 19 PROVE i(s) \in 1 .. 19
  <2>1. \E j \in 1 .. 19 : ClenOrder[j] = s - 1
    <3> DEFINE Lists(v) == \E j \in 1 .. 19 : ClenOrder[j] = v
    <3>1. Lists(0) /\ Lists(1) /\ Lists(2) /\ Lists(3) /\ Lists(4) /\ Lists(5) /\ Lists(6)
      BY DEF ClenOrder
    <3>2. Lists(7) /\ Lists(8) /\ Lists(9) /\ Lists(10) /\ Lists(11) /\ Lists(12)
      BY DEF ClenOrder
    <3>3. Lists(13) /\ Lists(14) /\ Lists(15) /\ Lists(16) /\ Lists(17) /\ Lists(18)
      BY DEF ClenOrder
    <3>4. s - 1 \in {0, 1, 2, 3, 4, 5, 6, 7, 8, 9, 10, 11, 12, 13, 14, 15, 16, 17, 18}
      OBVIOUS
    <3> QED BY <3>1, <3>2, <3>3, <3>4
  <2> QED BY <2>1
<1> HIDE DEF i
<1>2. ASSUME NEW s \in 1 .. 19 PROVE l(s) \in 0 .. 15
  <2>1. CASE i(s) > nclen
    BY <2>1
  <2>2. CASE ~(i(s) > nclen)
    <3>1. 3 * (i(s) - 1) \in Nat /\ 3 * (i(s) - 1) + 3 <= 3 * nclen /\ 3 * nclen \in Nat
      <4>1. \A k \in 1 .. 19 : ~(k > nclen) =>
              3 * (k - 1) \in Nat /\ 3 * (k - 1) + 3 <= 3 * nclen /\ 3 * nclen \in Nat
        OBVIOUS
      <4> QED BY <1>1, <2>2, <4>1
    <3>2. Has(data, Skip(br, 3 * (i(s) - 1)), 3)
      BY <3>1, HasLess
    <3>3. Skip(br, 3 * (i(s) - 1)) \in Position
      BY <3>1, SkipIs
    <3>4. Get(data, Skip(br, 3 * (i(s) - 1)), 3) \in 0 .. 7
      BY <3>2, <3>3, GetIs
    <3> QED BY <2>2, <3>4
  <2> QED BY <2>1, <2>2
<1>3. ClenLengths(data, br, nclen) = [s \in 1 .. 19 |-> l(s)]
  BY DEF ClenLengths, i
<1> HIDE DEF l
<1>4. [s \in 1 .. 19 |-> l(s)] \in Seq(0 .. 15)
  BY <1>2
<1> QED BY <1>3, <1>4

LEMMA DynamicTyped ==
  ASSUME NEW z, DecoderTyped(z), NEW br \in Position
  PROVE  DecoderTyped(DynamicBlock(z, br))
<1> DEFINE nlit  == 257 + Get(z.data, br, 5)
           ndist == 1 + Get(z.data, Skip(br, 5), 5)
           nclen == 4 + Get(z.data, Skip(br, 10), 4)
           at    == Skip(br, 14)
           clen  == Huffman(ClenLengths(z.data, at, nclen))
<1>1. z.data \in Seq(Byte) /\ OutTyped(z.out)
  BY DEF DecoderTyped
<1>2. DynamicBlock(z, br) =
        IF ~Has(z.data, br, 14) THEN Stop(z)
        ELSE IF ~Has(z.data, at, 3 * nclen) THEN Stop(z)
        ELSE Resume(z, Skip(at, 3 * nclen), z.out,
                    InLengths(clen, nlit, nlit + ndist, <<>>))
  BY DEF DynamicBlock
<1>3. CASE ~Has(z.data, br, 14)
  BY <1>2, <1>3, Stopped
<1>4. CASE Has(z.data, br, 14)
  <2>1. Has(z.data, br, 5) /\ Has(z.data, Skip(br, 5), 5) /\ Has(z.data, Skip(br, 10), 4)
    BY <1>1, <1>4, HasLess, HasFewer
  <2>2. Skip(br, 5) \in Position /\ Skip(br, 10) \in Position /\ at \in Position
    BY SkipIs
  <2>3. /\ Get(z.data, br, 5) \in Nat /\ Get(z.data, Skip(br, 5), 5) \in Nat
        /\ Get(z.data, Skip(br, 10), 4) \in Nat
    BY <1>1, <2>1, <2>2, GetIs
  <2>4. /\ nlit \in Nat /\ nclen \in Nat /\ nlit + ndist \in Nat /\ nlit <= nlit + ndist
        /\ 3 * nclen \in Nat
    BY <2>3
  <2> HIDE DEF nlit, ndist, nclen, at
  <2>5. CASE ~Has(z.data, at, 3 * nclen)
    BY <1>2, <1>4, <2>5, Stopped
  <2>6. CASE Has(z.data, at, 3 * nclen)
    <3>1. clen \in Code
      BY <1>1, <2>2, <2>4, <2>6, ClenTyped, HuffmanTyped
    <3>2. Skip(at, 3 * nclen) \in Position
      BY <2>2, <2>4, SkipIs
    <3>3. <<>> \in Seq(0 .. 15)
      OBVIOUS
    <3> HIDE DEF clen
    <3>4. PlaceTyped(InLengths(clen, nlit, nlit + ndist, <<>>))
      BY <2>4, <3>1, <3>3, Places
    <3> QED BY <1>1, <1>2, <1>4, <2>6, <3>2, <3>4, Resumed
  <2> QED BY <2>5, <2>6
<1> QED BY <1>3, <1>4

LEMMA FixedTyped == PlaceTyped(FixedCodes)
<1>1. \A a, b \in Seq(0 .. 15) : a \o b \in Seq(0 .. 15)
  OBVIOUS
<1>2. /\ Times(144, 8) \in Seq(0 .. 15) /\ Times(112, 9) \in Seq(0 .. 15)
      /\ Times(24, 7) \in Seq(0 .. 15) /\ Times(8, 8) \in Seq(0 .. 15)
      /\ Times(30, 5) \in Seq(0 .. 15)
  BY TimesTyped
<1>3. FixedLit \in Seq(0 .. 15)
  BY <1>1, <1>2 DEF FixedLit
<1>4. Huffman(FixedLit) \in Code /\ Huffman(Times(30, 5)) \in Code
  BY <1>2, <1>3, HuffmanTyped
<1> QED BY <1>4, Places DEF FixedCodes

LEMMA StoredTyped ==
  ASSUME NEW z, DecoderTyped(z), NEW br \in Position
  PROVE  DecoderTyped(StoredBlock(z, br))
<1> DEFINE at == BytePosition(br)
           len == z.data[at + 1] + 256 * z.data[at + 2]
           piece == SubSeq(z.data, at + 5, at + 4 + len)
<1>1. z.data \in Seq(Byte) /\ OutTyped(z.out) /\ Len(z.data) \in Nat
  BY DEF DecoderTyped
<1>2. StoredBlock(z, br) =
        IF at + 4 > Len(z.data) THEN Stop(z)
        ELSE IF at + 4 + len > Len(z.data) \/ Len(z.out) + len > MaxInflate THEN Stop(z)
        ELSE Resume(z, Reader(at + 4 + len), z.out \o piece, Between)
  BY DEF StoredBlock
<1>3. at \in Nat
  <2>1. br.bit \in Nat
    BY DEF Position
  <2> QED BY <2>1 DEF BytePosition
<1> HIDE DEF at
<1>4. CASE at + 4 > Len(z.data)
  BY <1>2, <1>4, Stopped
<1>5. CASE ~(at + 4 > Len(z.data))
  <2>1. len \in Nat
    <3>1. at + 1 \in 1 .. Len(z.data) /\ at + 2 \in 1 .. Len(z.data)
      BY <1>1, <1>3, <1>5
    <3>2. z.data[at + 1] \in Byte /\ z.data[at + 2] \in Byte
      BY <1>1, <3>1
    <3>3. \A a, b \in Byte : a + 256 * b \in Nat
      BY DEF Byte
    <3> QED BY <3>2, <3>3
  <2> HIDE DEF len
  <2>2. CASE at + 4 + len > Len(z.data) \/ Len(z.out) + len > MaxInflate
    BY <1>2, <1>5, <2>2, Stopped
  <2>3. CASE ~(at + 4 + len > Len(z.data) \/ Len(z.out) + len > MaxInflate)
    <3>1. piece \in Seq(Byte) /\ Len(piece) = len
      <4>1. \A s \in Seq(Byte) : \A a, n \in Nat : a + 4 + n <= Len(s) =>
              /\ SubSeq(s, a + 5, a + 4 + n) \in Seq(Byte)
              /\ Len(SubSeq(s, a + 5, a + 4 + n)) = n
        OBVIOUS
      <4>2. at + 4 + len <= Len(z.data)
        BY <1>1, <1>3, <2>1, <2>3
      <4> QED BY <1>1, <1>3, <2>1, <4>1, <4>2
    <3>2. OutTyped(z.out \o piece)
      <4> HIDE DEF piece
      <4>1. z.out \in Seq(Byte) /\ Len(z.out) \in Nat
        BY <1>1 DEF OutTyped
      <4>2. Len(z.out) + Len(piece) <= MaxInflate
        BY <2>1, <2>3, <3>1, <4>1, MaxInflateAssumption
      <4> QED BY <3>1, <4>1, <4>2, Longer
    <3>3. Reader(at + 4 + len) \in Position
      BY <1>3, <2>1 DEF Reader, Position
    <3> HIDE DEF piece
    <3> QED BY <1>2, <1>5, <2>3, <3>2, <3>3, Places, Resumed
  <2> QED BY <2>2, <2>3
<1> QED BY <1>4, <1>5

LEMMA BlockTyped ==
  ASSUME NEW z, DecoderTyped(z)
  PROVE  DecoderTyped(Block(z))
<1> DEFINE final == Get(z.data, z.br, 1) = 1
           type  == Get(z.data, Skip(z.br, 1), 2)
           at    == Skip(z.br, 3)
           here  == Decoder(z.data, z.br, z.out, final, Between)
<1>1. z.data \in Seq(Byte) /\ z.br \in Position /\ OutTyped(z.out)
  BY DEF DecoderTyped
<1>2. Block(z) = IF ~Has(z.data, z.br, 3) THEN Stop(z)
                 ELSE IF type = 0 THEN StoredBlock(here, at)
                 ELSE IF type = 1 THEN Resume(here, at, z.out, FixedCodes)
                 ELSE IF type = 2 THEN DynamicBlock(here, at)
                 ELSE Stop(here)
  BY DEF Block
<1>3. at \in Position
  BY <1>1, SkipIs
<1>4. DecoderTyped(here)
  BY <1>1, DecoderMade, Places
<1> HIDE DEF type, at, here
<1>5. /\ DecoderTyped(Stop(z)) /\ DecoderTyped(Stop(here))
      /\ DecoderTyped(StoredBlock(here, at)) /\ DecoderTyped(DynamicBlock(here, at))
      /\ DecoderTyped(Resume(here, at, z.out, FixedCodes))
  BY <1>1, <1>3, <1>4, Stopped, StoredTyped, DynamicTyped, FixedTyped, Resumed
<1> QED BY <1>2, <1>5

(* Whatever the bytes, a step of the decoder takes only bits that are       *)
(* there, looks no symbol up outside its code, repeats only what has been   *)
(* put out, and puts out no more than MaxInflate bytes.                     *)
LEMMA StepTyped ==
  ASSUME NEW z, DecoderTyped(z)
  PROVE  DecoderTyped(Step(z))
BY SymbolRead, LengthsRead, BlockTyped DEF Step

(* What the wrappers leave is bytes of what they wrap.                      *)
LEMMA RestTyped ==
  ASSUME NEW data \in Seq(Byte), NEW at \in Nat
  PROVE  SubSeq(data, at + 1, Len(data)) \in Seq(Byte)
OBVIOUS

LEMMA InflatePayloadTyped ==
  ASSUME NEW data \in Seq(Byte)
  PROVE  InflatePayload(data) \in Seq(Byte)
<1>1. SubSeq(data, 3, Len(data)) \in Seq(Byte)
  <2>1. SubSeq(data, 2 + 1, Len(data)) \in Seq(Byte)
    BY RestTyped
  <2> QED BY <2>1
<1> QED BY <1>1 DEF InflatePayload

LEMMA GunzipPayloadTyped ==
  ASSUME NEW data \in Seq(Byte)
  PROVE  GunzipPayload(data) \in Seq(Byte)
<1> DEFINE n == Len(data)
           flag(b) == (data[4] \div b) % 2 = 1
           ends(at) == {i \in at .. n - 1 : data[i + 1] = 0}
           pastString(at) == IF ends(at) = {} THEN n ELSE 1 + First(ends(at))
           extra   == IF flag(4) THEN 12 + data[11] + 256 * data[12] ELSE 10
           name    == IF flag(8) THEN pastString(extra) ELSE extra
           comment == IF flag(16) THEN pastString(name) ELSE name
           at      == IF flag(2) THEN comment + 2 ELSE comment
           wrong   == n < 18 \/ data[1] # 31 \/ data[2] # 139 \/ data[3] # 8 \/ at >= n
<1>1. GunzipPayload(data) = IF wrong THEN <<>> ELSE SubSeq(data, at + 1, n)
  BY DEF GunzipPayload
<1>2. n \in Nat /\ <<>> \in Seq(Byte)
  OBVIOUS
<1> HIDE DEF flag
<1>3. CASE n < 18
  BY <1>1, <1>2, <1>3
<1>4. CASE ~(n < 18)
  <2>1. extra \in Nat
    <3>1. 11 \in 1 .. n /\ 12 \in 1 .. n
      BY <1>2, <1>4
    <3>2. data[11] \in Byte /\ data[12] \in Byte
      BY <3>1
    <3>3. \A a, b \in Byte : 12 + a + 256 * b \in Nat
      BY DEF Byte
    <3> QED BY <3>2, <3>3
  <2>2. ASSUME NEW k \in Nat PROVE pastString(k) \in Nat
    <3>1. CASE ends(k) = {}
      BY <1>2, <3>1
    <3>2. CASE ends(k) # {}
      <4>1. ends(k) \subseteq Nat
        BY <1>2
      <4> HIDE DEF ends
      <4>2. First(ends(k)) \in Nat
        BY <3>2, <4>1, FirstIs
      <4> QED BY <3>2, <4>2
    <3> QED BY <3>1, <3>2
  <2> HIDE DEF pastString, extra
  <2>3. name \in Nat
    BY <2>1, <2>2
  <2> HIDE DEF name
  <2>4. comment \in Nat
    BY <2>2, <2>3
  <2> HIDE DEF comment
  <2>5. at \in Nat
    BY <2>4
  <2> HIDE DEF at
  <2>6. SubSeq(data, at + 1, n) \in Seq(Byte)
    BY <2>5, RestTyped
  <2> QED BY <1>1, <1>2, <2>6
<1> QED BY <1>3, <1>4

-----------------------------------------------------------------------------
(* The types.  First what only the control of the call touches.             *)
Points == {"resolve", "connect", "handshake", "write", "head", "chunk size",
           "chunk", "length", "to the end", "decode", "inflate", "respond", "done"}
CallInv ==
  /\ pc \in Points
  /\ asked \in Requests
  /\ req \in [method : Methods, body : BOOLEAN, fields : BOOLEAN]
  /\ scheme \in Schemes /\ followed \subseteq Redirects
  /\ addrs \in Seq({"accepts", "refuses"})
  /\ conn.end \in EndKinds
  /\ result.ok \in BOOLEAN

LEMMA CallInit == Init => CallInv
<1> SUFFICES ASSUME Init PROVE CallInv
  OBVIOUS
<1>1. asked.method \in Methods /\ asked.body \in BOOLEAN /\ asked \in Requests
  BY RequestsAssumption DEF Init
<1>2. req = [method |-> asked.method, body |-> asked.body, fields |-> asked.body]
  BY DEF Init
<1>3. req \in [method : Methods, body : BOOLEAN, fields : BOOLEAN]
  BY <1>1, <1>2
<1>4. <<>> \in Seq({"accepts", "refuses"})
  OBVIOUS
<1>5. conn.end = "closed" /\ result.ok = FALSE /\ addrs = <<>> /\ pc = "resolve"
      /\ followed = {} /\ scheme \in Schemes
  BY DEF Init, NoConn
<1> QED BY <1>1, <1>3, <1>4, <1>5 DEF CallInv, Points, EndKinds

LEMMA CallNext == ConnInv /\ CallInv /\ [Next]_vars => CallInv'
<1> SUFFICES ASSUME ConnInv, CallInv, [Next]_vars PROVE CallInv'
  OBVIOUS
<1>1. ASSUME UNCHANGED <<exchange, conn>>, pc' \in Points, result'.ok \in BOOLEAN
      PROVE  CallInv'
  BY <1>1 DEF CallInv, exchange
<1>2. ASSUME NEW n \in 1 .. ReadCap, Arrives(n), UNCHANGED exchange,
             pc' \in Points, result'.ok \in BOOLEAN
      PROVE  CallInv'
  <2>1. conn'.end = conn.end
    <3>1. conn' = [resp |-> conn.resp, cut |-> conn.cut, end |-> conn.end,
                   at |-> conn.at + n]
      BY <1>2, ArrivesMeans
    <3> QED BY <3>1
  <2> QED BY <1>2, <2>1 DEF CallInv, exchange
<1>3. Fail => pc' \in Points /\ result'.ok \in BOOLEAN
  <2>1. [ok |-> FALSE].ok = FALSE
    OBVIOUS
  <2> QED BY <2>1 DEF Fail, Points
<1>4. UNCHANGED <<pc, result>> => pc' \in Points /\ result'.ok \in BOOLEAN
  BY DEF CallInv
<1>5. ASSUME NEW limit, Fill(limit), UNCHANGED exchange PROVE CallInv'
  BY <1>1, <1>2, <1>3, <1>4, <1>5 DEF Fill
<1>6. CASE Resolve \/ Connect
  <2>1. addrs' \in Seq({"accepts", "refuses"})
    <3>1. Resolve => addrs' \in AddressLists \cup {addrs}
      BY DEF Resolve
    <3>2. Connect => addrs' = addrs \/ (addrs # <<>> /\ addrs' = Tail(addrs))
      BY DEF Connect
    <3>3. addrs \in Seq({"accepts", "refuses"})
      BY DEF CallInv
    <3>4. addrs # <<>> => Tail(addrs) \in Seq({"accepts", "refuses"})
      BY <3>3
    <3> QED BY <1>6, <3>1, <3>2, <3>3, <3>4, AddressAssumption
  <2>2. /\ UNCHANGED <<asked, req, scheme, followed, conn>>
        /\ pc' \in Points /\ result'.ok \in BOOLEAN
    <3>1. Resolve => Fail \/ (pc' = "connect" /\ result' = result)
      BY DEF Resolve
    <3>2. Connect => \/ Fail \/ UNCHANGED <<pc, result>>
                     \/ pc' \in {"handshake", "write"} /\ result' = result
      BY DEF Connect
    <3>3. UNCHANGED <<asked, req, scheme, followed, conn>>
      BY <1>6 DEF Resolve, Connect
    <3> QED BY <1>3, <1>4, <1>6, <3>1, <3>2, <3>3 DEF CallInv, Points
  <2> QED BY <2>1, <2>2 DEF CallInv
<1>7. CASE Handshake
  <2>1. Fail \/ (pc' = "write" /\ result' = result)
    BY <1>7 DEF Handshake
  <2>2. UNCHANGED <<exchange, conn>>
    BY <1>7 DEF Handshake
  <2> QED BY <1>1, <1>3, <2>1, <2>2 DEF CallInv, Points
<1>8. CASE WriteRequest
  <2>1. UNCHANGED exchange
    BY <1>8 DEF WriteRequest
  <2>2. CASE Fail /\ conn' = conn
    BY <1>1, <1>3, <2>1, <2>2
  <2>3. ASSUME NEW r, NEW end \in Ends, NEW cut, pc' = "head", result' = result,
               conn' = [resp |-> r, cut |-> cut, end |-> end, at |-> 0]
        PROVE  CallInv'
    <3>1. conn'.end \in EndKinds
      BY <2>3, EndsAssumption
    <3> QED BY <2>1, <2>3, <3>1 DEF CallInv, exchange, Points
  <2> QED BY <1>8, <2>2, <2>3 DEF WriteRequest
<1>9. CASE ReadHead
  <2>1. UNCHANGED exchange
    BY <1>9 DEF ReadHead
  <2> QED BY <1>1, <1>2, <1>3, <1>4, <1>9, <2>1 DEF ReadHead
<1>10. CASE ParseHead \/ TakeSizeLine \/ TakeChunk \/ TakeLength \/ Decoding \/ InflateStep
  <2>1. UNCHANGED <<exchange, conn>>
    BY <1>10 DEF ParseHead, TakeSizeLine, TakeChunk, TakeLength, Decoding, InflateStep
  <2>2. Fail \/ (pc' \in Points /\ result' = result)
    BY <1>10 DEF ParseHead, TakeSizeLine, TakeChunk, TakeLength, Decoding, InflateStep,
      Framing, Points, Fail
  <2> QED BY <1>1, <1>3, <2>1, <2>2 DEF CallInv
<1>11. CASE ReadSizeLine \/ ReadChunk \/ ReadLength
  BY <1>5, <1>11 DEF ReadSizeLine, ReadChunk, ReadLength
<1>12. CASE ReadToEnd
  <2>1. UNCHANGED exchange
    BY <1>12 DEF ReadToEnd
  <2>2. CASE \E n \in 1 .. ReadCap : Arrives(n) /\ (Fail \/ UNCHANGED <<pc, result>>)
    BY <1>2, <1>3, <1>4, <2>1, <2>2
  <2>3. CASE conn' = conn /\ (Fail \/ (pc' = "decode" /\ result' = result))
    BY <1>1, <1>3, <2>1, <2>3 DEF CallInv, Points
  <2> QED BY <1>12, <2>2, <2>3 DEF ReadToEnd
<1>13. CASE Return
  <2>1. result' = [ok |-> TRUE, status |-> resp.status, body |-> body] /\ pc' = "done"
        /\ UNCHANGED <<exchange, conn>>
    BY <1>13 DEF Return
  <2>2. result'.ok = TRUE
    BY <2>1
  <2> QED BY <1>1, <2>1, <2>2 DEF Points
<1>14. CASE Redirect
  <2>1. CASE Fail /\ UNCHANGED <<exchange, conn>>
    BY <1>1, <1>3, <2>1
  <2>2. CASE /\ Field("location") \in Schemes /\ scheme' = Field("location")
             /\ followed' = followed \cup {resp.status}
             /\ req' \in {Bare(req), req} /\ pc' = "resolve" /\ addrs' = <<>>
             /\ conn' = NoConn /\ asked' = asked /\ result' = result
    <3>1. req' \in [method : Methods, body : BOOLEAN, fields : BOOLEAN]
      <4>1. Bare(req) \in [method : Methods, body : BOOLEAN, fields : BOOLEAN]
        BY DEF Bare, Methods
      <4> QED BY <2>2, <4>1 DEF CallInv
    <3>2. followed' \subseteq Redirects
      BY <1>14, <2>2 DEF Redirect, Follows, CallInv
    <3>3. conn'.end = "closed"
      BY <2>2 DEF NoConn
    <3>4. <<>> \in Seq({"accepts", "refuses"})
      OBVIOUS
    <3> QED BY <2>2, <3>1, <3>2, <3>3, <3>4 DEF CallInv, EndKinds, Points
  <2>3. \/ Fail /\ UNCHANGED <<exchange, conn>>
        \/ /\ Field("location") \in Schemes /\ scheme' = Field("location")
           /\ followed' = followed \cup {resp.status}
           /\ req' \in {Bare(req), req} /\ pc' = "resolve" /\ addrs' = <<>>
           /\ conn' = NoConn /\ asked' = asked /\ result' = result
    BY <1>14 DEF Redirect
  <2> QED BY <2>1, <2>2, <2>3
<1>15. CASE UNCHANGED vars
  BY <1>1, <1>4, <1>15 DEF vars
<1> QED
  BY <1>6, <1>7, <1>8, <1>9, <1>10, <1>11, <1>12, <1>13, <1>14, <1>15 DEF Next, Transfer

(* The size line of a chunk reads as a number.                              *)
Number == [len : Nat, v : Nat, on : BOOLEAN]
Nought == [len |-> 0, v |-> 0, on |-> TRUE]
HexStep(p, b) ==
  IF p.on /\ HexDigit(b) < 16
  THEN [p EXCEPT !.len = @ + 1, !.v = 16 * @ + HexDigit(b)]
  ELSE [p EXCEPT !.on = @ /\ p.len = 0 /\ b \in White]
Hexing(line, f) ==
  f = [n \in 0 .. Len(line) |-> IF n = 0 THEN Nought ELSE HexStep(f[n - 1], line[n])]
Hex(line) == CHOOSE f : Hexing(line, f)

LEMMA HexStepTyped ==
  ASSUME NEW p \in Number, NEW b \in Byte
  PROVE  HexStep(p, b) \in Number
<1>1. HexDigit(b) \in Nat
  BY DEF HexDigit, Byte
<1>2. p.len \in Nat /\ p.v \in Nat /\ p.on \in BOOLEAN
  BY DEF Number
<1>3. p.len + 1 \in Nat /\ 16 * p.v + HexDigit(b) \in Nat
  BY <1>1, <1>2
<1>4. (p.on /\ p.len = 0 /\ b \in White) \in BOOLEAN
  OBVIOUS
<1>5. [p EXCEPT !.len = @ + 1, !.v = 16 * @ + HexDigit(b)] \in Number
  BY <1>3 DEF Number
<1>6. [p EXCEPT !.on = @ /\ p.len = 0 /\ b \in White] \in Number
  BY <1>4 DEF Number
<1> QED BY <1>5, <1>6 DEF HexStep

LEMMA HexTyped ==
  ASSUME NEW line \in Seq(Byte)
  PROVE  HexValue(line).len \in Nat /\ HexValue(line).v \in Nat
<1> DEFINE N == Len(line)
           step == [n \in 1 .. N |-> [p \in Number |-> HexStep(p, line[n])]]
           f == Hex(line)
<1>1. N \in Nat /\ Nought \in Number
  BY DEF Nought, Number
<1>2. \A n \in 1 .. N : \A p \in Number : HexStep(p, line[n]) \in Number
  BY HexStepTyped
<1>3. step \in [1 .. N -> [Number -> Number]]
  BY <1>2
<1>4. \A n \in 1 .. N : \A p \in Number : step[n][p] = HexStep(p, line[n])
  OBVIOUS
<1>5. PICK g \in [0 .. N -> Number] :
        g[0] = Nought /\ \A n \in 1 .. N : g[n] = step[n][g[n - 1]]
  <2> HIDE DEF step, N
  <2> QED BY <1>1, <1>3, Recursion
<1> HIDE DEF step
<1>6. Hexing(line, g)
  <2>1. ASSUME NEW n \in 0 .. N
        PROVE  g[n] = IF n = 0 THEN Nought ELSE HexStep(g[n - 1], line[n])
    <3>1. CASE n # 0
      <4>1. n \in 1 .. N /\ n - 1 \in 0 .. N
        BY <1>1, <3>1
      <4>2. g[n - 1] \in Number
        BY <4>1
      <4> QED BY <1>4, <1>5, <3>1, <4>1, <4>2
    <3> QED BY <1>5, <3>1
  <2>2. g = [n \in 0 .. N |-> g[n]]
    OBVIOUS
  <2> QED BY <2>1, <2>2 DEF Hexing
<1>7. Hexing(line, f)
  BY <1>6 DEF Hex
<1>8. HexValue(line) = f[N]
  BY DEF HexValue, Hex, Hexing, HexStep, Nought
<1> HIDE DEF f
<1>9. \A n \in 0 .. N : f[n] = IF n = 0 THEN Nought ELSE HexStep(f[n - 1], line[n])
  BY <1>7 DEF Hexing
<1> HIDE DEF N
<1> DEFINE T == {n \in Nat : n <= N => f[n] \in Number}
<1>10. 0 \in T
  <2>1. 0 \in 0 .. N
    BY <1>1
  <2>2. f[0] = Nought
    BY <1>9, <2>1
  <2> QED BY <1>1, <2>2
<1>11. ASSUME NEW n \in Nat, n \in T PROVE n + 1 \in T
  <2> SUFFICES ASSUME n + 1 <= N PROVE f[n + 1] \in Number
    OBVIOUS
  <2>1. f[n] \in Number /\ n + 1 \in 1 .. N /\ n + 1 \in 0 .. N /\ (n + 1) - 1 = n /\ n + 1 # 0
    BY <1>1, <1>11
  <2>2. f[n + 1] = HexStep(f[n], line[n + 1])
    BY <1>9, <2>1
  <2> QED BY <1>2, <2>1, <2>2
<1> HIDE DEF T
<1>12. Nat \subseteq T
  BY <1>10, <1>11, Induction
<1>13. f[N] \in Number
  BY <1>1, <1>12 DEF T
<1> QED BY <1>8, <1>13 DEF Number

(* Then the bytes.  The chunks put together are no more than what has been  *)
(* gone through of the body.                                                *)
Chunking == {"chunk size", "chunk"}
BytesInv ==
  /\ body \in Seq(Byte) /\ decoded \in Seq(Byte) /\ pos \in Nat /\ size \in Nat
  /\ Len(decoded) <= ReceiveLimit
  /\ pc \in Asking => decoded = <<>> /\ pos = 0
  /\ pc \in Chunking => Len(decoded) <= pos /\ pos <= Len(body)
  /\ pc = "length" => Wanted \in Nat
  /\ DecoderTyped(inflating)

LEMMA SubSeqTyped ==
  ASSUME NEW s \in Seq(Byte), NEW m \in Nat, NEW n \in 0 .. Len(s)
  PROVE  SubSeq(s, m + 1, n) \in Seq(Byte)
OBVIOUS

LEMMA NothingDecoded == <<>> \in Seq(Byte) /\ Len(<<>>) = 0 /\ DecoderTyped(Idle)
<1>1. <<>> \in Seq(Byte) /\ Len(<<>>) = 0
  OBVIOUS
<1> QED BY <1>1, StartTyped DEF Idle

LEMMA LimitIs == ReceiveLimit \in Nat /\ Held \in Nat /\ Held <= ReceiveLimit
BY BoundsAssumption DEF Held, ReceiveLimit, Larger

LEMMA BytesInit == Init => BytesInv
<1> SUFFICES ASSUME Init PROVE BytesInv
  OBVIOUS
<1>1. body = <<>> /\ decoded = <<>> /\ pos = 0 /\ size = 0 /\ pc = "resolve"
      /\ inflating = Idle
  BY DEF Init
<1> QED BY <1>1, NothingDecoded, LimitIs DEF BytesInv, Asking, Chunking

(* A read.                                                                  *)
LEMMA BytesRead ==
  ASSUME ConnInv, BodyInv, BytesInv, pc \in Framed, NEW n \in 1 .. ReadCap, Arrives(n),
         body' = body \o BodyBytes(conn.at, conn.at + n), received' = received + n,
         UNCHANGED <<resp, pos, size, decoded, inflating>>,
         pc' = pc \/ pc' = "done"
  PROVE  BytesInv'
<1>1. body' \in Seq(Byte) /\ received' = Len(body')
  BY PieceAdded
<1>2. Len(body) \in Nat /\ received = Len(body) /\ n \in Nat
  <2>1. body \in Seq(Byte)
    BY DEF BytesInv
  <2> QED BY <2>1, BoundsAssumption DEF BodyInv
<1>3. Len(body') >= Len(body) /\ Len(body') \in Nat
  BY <1>1, <1>2
<1>4. pc' \notin Asking
  BY DEF Asking, Framed
<1>5. pc' \in Chunking => Len(decoded') <= pos' /\ pos' <= Len(body')
  <2>1. pc' \in Chunking => Len(decoded) <= pos /\ pos <= Len(body) /\ pos \in Nat
    BY DEF BytesInv, Chunking
  <2> QED BY <1>2, <1>3, <2>1
<1>6. pc' = "length" => Wanted' \in Nat
  BY DEF BytesInv, Wanted, Field
<1> QED BY <1>1, <1>4, <1>5, <1>6 DEF BytesInv, ReceiveLimit

LEMMA BytesNext ==
  ConnInv /\ BodyInv /\ PlainInv /\ BytesInv /\ BodyInv' /\ PlainInv' /\ [Next]_vars => BytesInv'
<1> SUFFICES ASSUME ConnInv, BodyInv, PlainInv, BytesInv, BodyInv', PlainInv', [Next]_vars
             PROVE  BytesInv'
  OBVIOUS
<1> DEFINE Still == UNCHANGED <<body, pos, size, decoded, inflating>>
<1>1. ASSUME Still, pc' \notin Asking \cup Chunking \cup {"length"} PROVE BytesInv'
  BY <1>1 DEF BytesInv, ReceiveLimit
<1>2. ASSUME Still, resp' = resp, pc' = pc PROVE BytesInv'
  BY <1>2 DEF BytesInv, ReceiveLimit, Wanted, Field
<1>3. Fail => pc' \notin Asking \cup Chunking \cup {"length"}
  BY DEF Fail, Asking, Chunking
<1>4. ASSUME NEW limit, Fill(limit), pc \in Framed,
             UNCHANGED <<resp, pos, size, decoded, inflating>>
      PROVE  BytesInv'
  <2>1. CASE \E n \in 1 .. ReadCap :
               /\ Arrives(n) /\ body' = body \o BodyBytes(conn.at, conn.at + n)
               /\ received' = received + n /\ (pc' = pc \/ pc' = "done")
    BY <1>4, <2>1, BytesRead
  <2>2. CASE Fail /\ body' = body
    BY <1>1, <1>3, <1>4, <2>2
  <2> QED BY <1>4, <2>1, <2>2 DEF Fill, Fail
<1>5. CASE ReadSizeLine \/ ReadChunk \/ ReadLength
  BY <1>4, <1>5 DEF ReadSizeLine, ReadChunk, ReadLength, Framed
<1>6. CASE ReadToEnd
  <2>1. CASE \E n \in 1 .. ReadCap :
               /\ Arrives(n) /\ body' = body \o BodyBytes(conn.at, conn.at + n)
               /\ received' = received + n /\ (pc' = pc \/ pc' = "done")
    <3>1. pc \in Framed /\ UNCHANGED <<resp, pos, size, decoded, inflating>>
      BY <1>6 DEF ReadToEnd, Framed
    <3> QED BY <2>1, <3>1, BytesRead
  <2>2. CASE Still /\ (Fail \/ pc' = "decode")
    BY <1>1, <1>3, <2>2 DEF Asking, Chunking
  <2> QED BY <1>6, <2>1, <2>2 DEF ReadToEnd, Fail
<1>7. CASE Resolve \/ Connect \/ Handshake \/ WriteRequest \/ ReadHead
  <2>1. Still /\ (Fail \/ (pc \in Asking /\ pc' \in Asking))
    BY <1>7 DEF Resolve, Connect, Handshake, WriteRequest, ReadHead, framing, Asking
  <2>2. CASE Fail
    BY <1>1, <1>3, <2>1, <2>2
  <2>3. CASE pc \in Asking /\ pc' \in Asking
    BY <2>1, <2>3 DEF BytesInv, ReceiveLimit, Asking, Chunking
  <2> QED BY <2>1, <2>2, <2>3
<1>8. CASE ParseHead
  <2>1. decoded = <<>> /\ pos = 0 /\ UNCHANGED <<pos, size, decoded, inflating>>
    BY <1>8 DEF ParseHead, BytesInv, Asking
  <2>2. body' \in Seq(Byte)
    <3>1. \/ body' = body \/ body' = <<>> \/ pc' \in Framed
      BY <1>8 DEF ParseHead, Framing, Framed
    <3>2. pc' \in Framed => body' \in Seq(Byte)
      BY DEF BodyInv
    <3> QED BY <3>1, <3>2, NothingDecoded DEF BytesInv
  <2>3. pc' \notin Asking
    BY <1>8 DEF ParseHead, Fail, Framing, Asking
  <2>4. pc' = "length" => Wanted' \in Nat
    <3>1. pc' = "length" => "content-length" \in DOMAIN resp'.fields
      <4> SUFFICES ASSUME pc' = "length" PROVE "content-length" \in DOMAIN resp'.fields
        OBVIOUS
      <4> DEFINE index  == FieldsOf(conn.resp, conn.at)
                 fields == [f \in DOMAIN index |-> conn.resp.fields[index[f]].value]
      <4>1. resp' = [status |-> conn.resp.status, fields |-> fields]
            /\ Framing(fields) = "length"
        BY <1>8 DEF ParseHead, Fail
      <4>2. resp'.fields = fields
        BY <4>1
      <4> HIDE DEF fields
      <4> QED BY <4>1, <4>2 DEF Framing
    <3> QED BY <3>1 DEF PlainInv
  <2>5. Len(decoded') <= pos' /\ pos' <= Len(body') /\ Len(decoded') <= ReceiveLimit
    <3>1. Len(body') \in Nat /\ Len(decoded') = 0 /\ pos' = 0
      BY <2>1, <2>2, NothingDecoded
    <3> QED BY <3>1, LimitIs
  <2> QED BY <2>1, <2>2, <2>3, <2>4, <2>5 DEF BytesInv, ReceiveLimit
<1>9. CASE TakeSizeLine
  <2> DEFINE end == First(LineEnds)
             hex == HexValue(SubSeq(body, pos + 1, end - 1))
  <2>1. end \in pos + 1 .. Len(body) - 1 /\ end \in Nat
    <3>1. LineEnds \subseteq Nat /\ LineEnds # {}
      <4>1. pos \in Nat /\ LineEnds # {}
        BY <1>9 DEF BytesInv, TakeSizeLine
      <4>2. LineEnds \subseteq Nat
        BY <4>1 DEF LineEnds
      <4> QED BY <4>1, <4>2
    <3>2. First(LineEnds) \in LineEnds
      BY <3>1, FirstIs
    <3>3. LineEnds \subseteq pos + 1 .. Len(body) - 1
      BY DEF LineEnds
    <3> QED BY <3>1, <3>2, <3>3
  <2>2. hex.len \in Nat /\ hex.v \in Nat
    <3>1. SubSeq(body, pos + 1, end - 1) \in Seq(Byte)
      <4>1. body \in Seq(Byte) /\ pos \in Nat /\ Len(body) \in Nat
        BY DEF BytesInv
      <4>2. end - 1 \in 0 .. Len(body)
        BY <2>1, <4>1
      <4> QED BY <4>1, <4>2, SubSeqTyped
    <3> QED BY <3>1, HexTyped
  <2>3. /\ decoded' = decoded /\ inflating' = inflating /\ pc = "chunk size"
        /\ \/ Fail /\ UNCHANGED <<pos, size, body>>
           \/ body' = decoded /\ pc' = "decode" /\ UNCHANGED <<pos, size>>
           \/ pos' = end + 1 /\ size' = hex.v /\ pc' = "chunk" /\ body' = body
    BY <1>9 DEF TakeSizeLine, AfterSizeLine
  <2> HIDE DEF end, hex
  <2>4. CASE Fail /\ UNCHANGED <<pos, size, body>>
    BY <1>1, <1>3, <2>3, <2>4
  <2>5. CASE body' = decoded /\ pc' = "decode" /\ UNCHANGED <<pos, size>>
    BY <2>3, <2>5 DEF BytesInv, ReceiveLimit, Asking, Chunking
  <2>6. CASE pos' = end + 1 /\ size' = hex.v /\ pc' = "chunk" /\ body' = body
    <3>1. pos' \in Nat /\ Len(decoded') <= pos' /\ pos' <= Len(body')
      <4>1. Len(decoded) <= pos
        BY <2>3 DEF BytesInv, Chunking
      <4>2. pos \in Nat /\ Len(body) \in Nat /\ Len(decoded) \in Nat
        BY DEF BytesInv
      <4>3. pos' \in Nat /\ Len(decoded) <= pos' /\ pos' <= Len(body)
        BY <2>1, <2>6, <4>1, <4>2
      <4> QED BY <2>3, <2>6, <4>3
    <3> QED BY <2>2, <2>3, <2>6, <3>1 DEF BytesInv, ReceiveLimit, Asking
  <2> QED BY <2>3, <2>4, <2>5, <2>6
<1>10. CASE TakeChunk
  <2> DEFINE piece == SubSeq(body, pos + 1, pos + size)
  <2>1. /\ body \in Seq(Byte) /\ decoded \in Seq(Byte) /\ pos \in Nat /\ size \in Nat
        /\ Len(body) \in Nat /\ Len(decoded) \in Nat
    BY DEF BytesInv
  <2>2. /\ pc = "chunk" /\ Len(body) >= pos + size + 2
        /\ decoded' = decoded \o piece /\ pos' = pos + size + 2
        /\ UNCHANGED <<body, size, inflating>> /\ pc' \in {"done", "chunk size"}
    BY <1>10 DEF TakeChunk, Fail
  <2>3. piece \in Seq(Byte) /\ Len(piece) = size
    <3>1. \A s \in Seq(Byte) : \A p, n \in Nat : p + n + 2 <= Len(s) =>
            /\ SubSeq(s, p + 1, p + n) \in Seq(Byte)
            /\ Len(SubSeq(s, p + 1, p + n)) = n
      OBVIOUS
    <3>2. pos + size + 2 <= Len(body)
      BY <2>1, <2>2
    <3> QED BY <2>1, <3>1, <3>2
  <2> HIDE DEF piece
  <2>4. decoded' \in Seq(Byte) /\ Len(decoded') = Len(decoded) + size
    <3>1. \A s, t \in Seq(Byte) : s \o t \in Seq(Byte) /\ Len(s \o t) = Len(s) + Len(t)
      OBVIOUS
    <3> QED BY <2>1, <2>2, <2>3, <3>1
  <2>5. Len(decoded) <= pos /\ Len(body) <= Held
    <3>1. received = Len(body) /\ received <= Held
      BY <2>2 DEF BodyInv, Framed
    <3> QED BY <2>2, <3>1 DEF BytesInv, Chunking
  <2>6. /\ pos' \in Nat /\ Len(decoded') <= pos' /\ pos' <= Len(body)
        /\ Len(decoded') <= ReceiveLimit
    <3>1. \A d, p, n, b, h, l \in Nat : d <= p /\ b >= p + n + 2 /\ b <= h /\ h <= l =>
            /\ p + n + 2 \in Nat /\ d + n <= p + n + 2 /\ p + n + 2 <= b
            /\ d + n <= l
      OBVIOUS
    <3>2. /\ Len(decoded) <= pos /\ Len(body) >= pos + size + 2 /\ Len(body) <= Held
          /\ Held <= ReceiveLimit /\ Held \in Nat /\ ReceiveLimit \in Nat
      BY <2>2, <2>5, LimitIs
    <3>3. /\ pos + size + 2 \in Nat /\ Len(decoded) + size <= pos + size + 2
          /\ pos + size + 2 <= Len(body) /\ Len(decoded) + size <= ReceiveLimit
      BY <2>1, <3>1, <3>2
    <3>4. pos' = pos + size + 2 /\ Len(decoded') = Len(decoded) + size
      BY <2>2, <2>4
    <3> QED BY <3>3, <3>4
  <2>7. pc' \notin Asking /\ pc' # "length"
    BY <2>2 DEF Asking
  <2> QED BY <2>1, <2>2, <2>4, <2>6, <2>7 DEF BytesInv, ReceiveLimit
<1>11. CASE TakeLength
  <2>1. /\ Len(body) >= Wanted /\ body' = SubSeq(body, 1, Wanted) /\ pc' = "decode"
        /\ UNCHANGED <<pos, size, decoded, inflating>> /\ pc = "length"
    BY <1>11 DEF TakeLength, Wanted
  <2>2. body' \in Seq(Byte)
    <3>1. Wanted \in Nat /\ body \in Seq(Byte) /\ Len(body) \in Nat
      BY <2>1 DEF BytesInv
    <3> QED BY <2>1, <3>1, PrefixOf
  <2> QED BY <2>1, <2>2 DEF BytesInv, ReceiveLimit, Asking, Chunking
<1>12. CASE Decoding
  <2> DEFINE payload == IF Coding = "gzip" THEN GunzipPayload(body) ELSE InflatePayload(body)
  <2>1. /\ UNCHANGED <<body, pos, size, decoded>> /\ pc' \in {"respond", "inflate"}
        /\ inflating' = inflating \/ inflating' = Start(payload)
    BY <1>12 DEF Decoding, framing
  <2>2. DecoderTyped(inflating')
    <3>1. payload \in Seq(Byte)
      BY InflatePayloadTyped, GunzipPayloadTyped DEF BytesInv
    <3>2. DecoderTyped(Start(payload))
      BY <3>1, StartTyped
    <3> HIDE DEF payload
    <3> QED BY <2>1, <3>2 DEF BytesInv
  <2> QED BY <2>1, <2>2 DEF BytesInv, ReceiveLimit, Asking, Chunking
<1>13. CASE InflateStep
  <2> DEFINE z == Step(inflating)
  <2>1. DecoderTyped(z) /\ z.out \in Seq(Byte)
    BY StepTyped DEF BytesInv, DecoderTyped, OutTyped
  <2>2. /\ UNCHANGED <<pos, size, decoded>> /\ pc' \in {"respond", "inflate"}
        /\ inflating' \in {Idle, z} /\ body' \in {body, z.out}
    BY <1>13 DEF InflateStep
  <2> HIDE DEF z
  <2> QED BY <2>1, <2>2, NothingDecoded DEF BytesInv, ReceiveLimit, Asking, Chunking
<1>14. CASE Return
  BY <1>1, <1>14 DEF Return, framing, Asking, Chunking
<1>15. CASE Redirect
  <2>1. CASE Fail /\ UNCHANGED framing /\ inflating' = inflating
    BY <1>1, <1>3, <2>1 DEF framing
  <2>2. CASE /\ body' = <<>> /\ decoded' = <<>> /\ pos' = 0 /\ size' = 0
             /\ pc' = "resolve" /\ inflating' = inflating
    <3>1. /\ body' \in Seq(Byte) /\ decoded' \in Seq(Byte) /\ Len(decoded') = 0
          /\ pos' \in Nat /\ size' \in Nat /\ DecoderTyped(inflating')
      BY <2>2, NothingDecoded DEF BytesInv
    <3>2. Len(decoded') <= ReceiveLimit'
      BY <3>1, LimitIs DEF ReceiveLimit
    <3> QED BY <2>2, <3>1, <3>2 DEF BytesInv, Chunking
  <2> QED BY <1>15, <2>1, <2>2 DEF Redirect
<1>16. CASE UNCHANGED vars
  BY <1>2, <1>16 DEF vars, framing
<1> QED
  BY <1>5, <1>6, <1>7, <1>8, <1>9, <1>10, <1>11, <1>12, <1>13, <1>14, <1>15, <1>16
     DEF Next, Transfer

(* Every response, however it is cut, framed and coded, keeps the call in   *)
(* its types: what is held of it is bounded, the chunks are taken from what *)
(* has arrived, and no stream is expanded beyond MaxInflate bytes.          *)
THEOREM TypeCorrect == Spec => []TypeOK
<1>1. Init => CallInv /\ BytesInv /\ PlainInv
  BY CallInit, BytesInit, PlainInit
<1>2. KeptInv /\ ConnInv /\ BodyInv /\ PlainInv /\ CallInv /\ BytesInv => TypeOK
  <2> SUFFICES ASSUME KeptInv, ConnInv, BodyInv, CallInv, BytesInv PROVE TypeOK
    OBVIOUS
  <2>1. conn.at \in 0 .. conn.cut
    BY DEF ConnInv
  <2>2. Len(inflating.out) <= MaxInflate
    BY DEF BytesInv, DecoderTyped, OutTyped
  <2>3. /\ redirects \in 0 .. MaxRedirects /\ received \in 0 .. ReceiveLimit
        /\ conn.end \in EndKinds /\ result.ok \in BOOLEAN
    BY DEF KeptInv, BodyInv, CallInv
  <2>4. /\ body \in Seq(Byte) /\ decoded \in Seq(Byte) /\ pos \in Nat /\ size \in Nat
        /\ Len(decoded) <= ReceiveLimit
        /\ pc \in {"chunk size", "chunk"} => pos <= Len(body)
    BY DEF BytesInv, Chunking
  <2>5. /\ pc \in Points /\ asked \in Requests
        /\ req \in [method : Methods, body : BOOLEAN, fields : BOOLEAN]
        /\ scheme \in Schemes /\ followed \subseteq Redirects
        /\ addrs \in Seq({"accepts", "refuses"})
    BY DEF CallInv
  <2> QED BY <2>1, <2>2, <2>3, <2>4, <2>5 DEF TypeOK, Points
<1> QED BY <1>1, <1>2, BodyHolds, PlainNext, CallNext, BytesNext, PTL DEF Spec
=============================================================================
