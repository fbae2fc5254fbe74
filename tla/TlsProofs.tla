------------------------------ MODULE TlsProofs ------------------------------
(***************************************************************************)
(* Three theorems about a connection of TlsClient and TlsStream, for every *)
(* server, every way its messages fall into records, every amount of data, *)
(* and however the connection ends.                                        *)
(*                                                                         *)
(* The client never seals two records with one key under one number, be    *)
(* they written or not.  It never fails but for a reason of the server or  *)
(* of the connection: the two ends agree on keys, record numbers and       *)
(* transcript.  And what it returns to its caller is a Stream: the blocks  *)
(* the server sent, in order, with an end that is only reported when they  *)
(* have all been read, or when one was forged in the clear.                *)
(*                                                                         *)
(* The last two rest on one invariant, AgreeInv.  Where an end is in what  *)
(* the server sends is a view; the records on their way to the client lead *)
(* from its view to the server's, one after the other (Leads), unless one  *)
(* was lost for a reason that excuses the client; those on their way to    *)
(* the server lead from what it waits for to what the client sends next    *)
(* (Meets).                                                                *)
(***************************************************************************)
EXTENDS Tls, SequenceTheorems, TLAPS

IsSequence(s) == \E S : s \in Seq(S)

(* Before its Finished the client has no key to write with and has sealed   *)
(* nothing.  From then on it writes with one key, whose number is above all *)
(* it was used with; what else it has sealed had another key.  It is left   *)
(* with the key of the Finished only when that could not be written.        *)
Unkeyed ==
  /\ writeKey = NoKey /\ sealed = <<>>
  /\ pc \notin {"open", "ended", "left"}
Keyed ==
  /\ writeKey = [epoch |-> writeKey.epoch, over |-> writeKey.over, seq |-> writeKey.seq]
  /\ writeKey.epoch \in {"application", "handshake"} /\ writeKey.seq \in Nat
  /\ writeKey.epoch = "handshake" => pc = "failed"
  /\ \A i \in DOMAIN sealed : sealed[i].epoch = writeKey.epoch
       => sealed[i].seq \in Nat /\ sealed[i].seq < writeKey.seq
  /\ pc \in {"open", "ended", "left", "failed"}
KeyInv ==
  /\ IsSequence(up) /\ IsSequence(sealed)
  /\ NonceFresh
  /\ Unkeyed \/ Keyed

-----------------------------------------------------------------------------
(* Sequences.                                                               *)
LEMMA AppendIs ==
  ASSUME NEW s, IsSequence(s), NEW e
  PROVE  /\ IsSequence(Append(s, e)) /\ Len(s) \in Nat
         /\ Len(Append(s, e)) = Len(s) + 1 /\ Append(s, e)[Len(s) + 1] = e
<1>1. PICK S : s \in Seq(S)
  BY DEF IsSequence
<1> DEFINE T == S \cup {e}
<1>2. s \in Seq(T) /\ e \in T
  BY <1>1
<1>3. Append(s, e) \in Seq(T)
  BY <1>2
<1> QED BY <1>2, <1>3 DEF IsSequence

LEMMA TailIs ==
  ASSUME NEW s, IsSequence(s), s # <<>>
  PROVE  IsSequence(Tail(s)) /\ Len(s) \in Nat /\ Len(Tail(s)) = Len(s) - 1
<1>1. PICK S : s \in Seq(S)
  BY DEF IsSequence
<1> QED BY <1>1 DEF IsSequence

LEMMA EmptyIs == IsSequence(<<>>) /\ Len(<<>>) = 0
<1>1. <<>> \in Seq({})
  OBVIOUS
<1> QED BY <1>1 DEF IsSequence

LEMMA LengthIs == ASSUME NEW s, IsSequence(s) PROVE Len(s) \in Nat
BY DEF IsSequence

LEMMA TwoAppended ==
  ASSUME NEW s, IsSequence(s), NEW a, NEW b
  PROVE  s \o <<a, b>> = Append(Append(s, a), b)
<1>1. PICK S : s \in Seq(S)
  BY DEF IsSequence
<1> DEFINE T == S \cup {a, b}
<1>2. s \in Seq(T) /\ a \in T /\ b \in T
  BY <1>1
<1> HIDE DEF T
<1> QED BY <1>2

LEMMA AppendAt ==
  ASSUME NEW s, IsSequence(s), NEW e
  PROVE  /\ DOMAIN Append(s, e) = DOMAIN s \cup {Len(s) + 1}
         /\ \A i \in DOMAIN s : i # Len(s) + 1 /\ Append(s, e)[i] = s[i]
<1>1. PICK S : s \in Seq(S)
  BY DEF IsSequence
<1> DEFINE T == S \cup {e}
<1>2. s \in Seq(T) /\ e \in T
  BY <1>1
<1> HIDE DEF T
<1>3. /\ Len(s) \in Nat /\ DOMAIN s = 1 .. Len(s)
      /\ DOMAIN Append(s, e) = 1 .. Len(s) + 1
      /\ \A i \in 1 .. Len(s) : Append(s, e)[i] = s[i]
  BY <1>2, AppendProperties, LenProperties
<1> QED BY <1>3

-----------------------------------------------------------------------------
(* A record sealed with the key the client writes with, written or not.     *)
LEMMA SealFresh ==
  ASSUME KeyInv, Keyed, IsSequence(up'), sealed' = Append(sealed, writeKey),
         writeKey' = Used(writeKey), pc' \in {"open", "ended", "left", "failed"},
         pc = "failed" => pc' = "failed"
  PROVE  KeyInv'
<1>1. IsSequence(sealed) /\ NonceFresh
  BY DEF KeyInv
<1> DEFINE n == Len(sealed) + 1
<1>2. /\ IsSequence(sealed') /\ sealed'[n] = writeKey
      /\ DOMAIN sealed' = DOMAIN sealed \cup {n}
      /\ \A i \in DOMAIN sealed : i # n /\ sealed'[i] = sealed[i]
  BY <1>1, AppendIs, AppendAt
<1> HIDE DEF n
<1>3. \A i \in DOMAIN sealed : sealed[i] # writeKey
  BY DEF Keyed
<1>4. NonceFresh'
  <2>1. ASSUME NEW i \in DOMAIN sealed', NEW j \in DOMAIN sealed', sealed'[i] = sealed'[j]
        PROVE  i = j
    <3>1. CASE i \in DOMAIN sealed /\ j \in DOMAIN sealed
      BY <1>1, <1>2, <2>1, <3>1 DEF NonceFresh
    <3>2. CASE i = n \/ j = n
      BY <1>2, <1>3, <2>1, <3>2
    <3> QED BY <1>2, <3>1, <3>2
  <2> QED BY <2>1 DEF NonceFresh
<1>5. /\ writeKey' = [epoch |-> writeKey.epoch, over |-> writeKey.over,
                      seq |-> writeKey.seq + 1]
      /\ writeKey.seq \in Nat
  BY DEF Keyed, Used
<1>6. /\ writeKey'.seq = writeKey.seq + 1 /\ writeKey'.over = writeKey.over
      /\ writeKey'.epoch = writeKey.epoch
  BY <1>5
<1>7. \A i \in DOMAIN sealed' : sealed'[i].epoch = writeKey'.epoch
        => sealed'[i].seq \in Nat /\ sealed'[i].seq < writeKey'.seq
  <2>1. SUFFICES ASSUME NEW i \in DOMAIN sealed', sealed'[i].epoch = writeKey'.epoch
                 PROVE  sealed'[i].seq \in Nat /\ sealed'[i].seq < writeKey'.seq
    OBVIOUS
  <2>2. CASE i = n
    BY <1>2, <1>5, <1>6, <2>2
  <2>3. CASE i \in DOMAIN sealed
    <3>1. sealed[i].seq \in Nat /\ sealed[i].seq < writeKey.seq
      BY <1>2, <1>6, <2>1, <2>3 DEF Keyed
    <3> QED BY <1>2, <1>5, <1>6, <2>3, <3>1
  <2> QED BY <1>2, <2>1, <2>2, <2>3
<1>8. Keyed'
  BY <1>5, <1>6, <1>7 DEF Keyed
<1> QED BY <1>2, <1>4, <1>8 DEF KeyInv

(* The Finished, written or not, is the first record to be sealed.          *)
LEMMA FinishedFresh ==
  ASSUME KeyInv, Unkeyed, IsSequence(up'), NEW over, NEW all,
         sealed' = Append(sealed, Key("handshake", over)),
         \/ writeKey' = Key("application", all) /\ pc' = "open"
         \/ writeKey' = Used(Key("handshake", over)) /\ pc' = "failed"
  PROVE  KeyInv'
<1> DEFINE key == [epoch |-> "handshake", over |-> over, seq |-> 0]
<1>1. sealed' = <<key>> /\ Key("handshake", over) = key
  <2>1. sealed = <<>> /\ Key("handshake", over) = key
    BY DEF Unkeyed, Key
  <2> HIDE DEF key
  <2> QED BY <2>1
<1>2. /\ IsSequence(sealed') /\ DOMAIN sealed' = {1} /\ sealed'[1] = key
  <2> HIDE DEF key
  <2>1. <<key>> \in Seq({key}) /\ DOMAIN <<key>> = {1} /\ <<key>>[1] = key
    OBVIOUS
  <2> QED BY <1>1, <2>1 DEF IsSequence
<1>3. NonceFresh'
  BY <1>2 DEF NonceFresh
<1>4. CASE writeKey' = Key("application", all) /\ pc' = "open"
  <2>1. writeKey' = [epoch |-> "application", over |-> all, seq |-> 0]
    BY <1>4 DEF Key
  <2>2. Keyed'
    BY <1>2, <1>4, <2>1 DEF Keyed
  <2> QED BY <1>2, <1>3, <2>2 DEF KeyInv
<1>5. CASE writeKey' = Used(Key("handshake", over)) /\ pc' = "failed"
  <2>1. writeKey' = [epoch |-> "handshake", over |-> over, seq |-> 1]
    BY <1>1, <1>5 DEF Used
  <2>2. Keyed'
    BY <1>2, <1>5, <2>1 DEF Keyed
  <2> QED BY <1>2, <1>3, <2>2 DEF KeyInv
<1> QED BY <1>4, <1>5

(* A step that seals nothing and leaves the keys alone.                     *)
Idle ==
  /\ UNCHANGED <<writeKey, sealed>>
  /\ \/ pc' = pc
     \/ pc' = "failed"
     \/ pc = "open" /\ pc' \in {"ended", "left"}
     \/ /\ pc \notin {"open", "ended", "left", "failed"}
        /\ pc' \notin {"open", "ended", "left"}

LEMMA NothingSealed ==
  ASSUME KeyInv, Idle,
         up' = up \/ up' = <<>> \/ (up # <<>> /\ up' = Tail(up))
  PROVE  KeyInv'
<1>1. IsSequence(up')
  BY EmptyIs, TailIs DEF KeyInv
<1>2. Unkeyed' \/ Keyed'
  BY DEF KeyInv, Unkeyed, Keyed, Idle
<1>3. IsSequence(sealed') /\ NonceFresh'
  BY DEF KeyInv, NonceFresh, Idle
<1> QED BY <1>1, <1>2, <1>3 DEF KeyInv

LEMMA KeyInit == Init => KeyInv
<1>1. DOMAIN <<>> = {}
  OBVIOUS
<1> QED BY <1>1, EmptyIs DEF Init, KeyInv, Unkeyed, NonceFresh

-----------------------------------------------------------------------------
LEMMA ClientSteps == ASSUME KeyInv, Client PROVE KeyInv'
<1>1. CASE SendHello
  <2>1. CASE up' = Append(up, Plain("handshake", Units("ClientHello", <<>>)))
    <3>1. IsSequence(up')
      BY <2>1, AppendIs DEF KeyInv
    <3>2. Unkeyed' /\ UNCHANGED sealed
      BY <1>1 DEF SendHello, KeyInv, Unkeyed, Keyed, Fail
    <3> QED BY <3>1, <3>2 DEF KeyInv, NonceFresh
  <2>2. CASE up' = up /\ pc' = "failed"
    <3>1. Idle
      BY <1>1, <2>2 DEF SendHello, Idle
    <3> QED BY <2>2, <3>1, NothingSealed
  <2> QED BY <1>1, <2>1, <2>2 DEF SendHello, Fail
<1>2. CASE ConnectionEnds
  <2>1. Idle /\ up' = up
    BY <1>2 DEF ConnectionEnds, Idle, Fail
  <2> QED BY <2>1, NothingSealed
<1>3. CASE SkipChangeCipherSpec
  <2>1. Idle /\ up' = up
    BY <1>3 DEF SkipChangeCipherSpec, Idle, client
  <2> QED BY <2>1, NothingSealed
<1>4. CASE PlainAlert
  <2>1. Idle /\ up' = up
    BY <1>4 DEF PlainAlert, Idle, AfterAlert
  <2> QED BY <2>1, NothingSealed
<1>5. CASE Unreadable
  <2>1. Idle /\ up' = up
    BY <1>5 DEF Unreadable, Idle, Fail
  <2> QED BY <2>1, NothingSealed
<1>6. CASE ReadServerHello
  <2>1. Idle /\ up' = up
    BY <1>6 DEF ReadServerHello, Idle, Fail
  <2> QED BY <2>1, NothingSealed
<1>7. CASE ReadAlert
  <2>1. Idle /\ up' = up
    BY <1>7 DEF ReadAlert, Idle, AfterAlert
  <2> QED BY <2>1, NothingSealed
<1>8. CASE ReadFlight
  <2>1. Idle /\ up' = up
    BY <1>8 DEF ReadFlight, Idle
  <2> QED BY <2>1, NothingSealed
<1>9. CASE NeedMore
  <2>1. Idle /\ up' = up
    BY <1>9 DEF NeedMore, Idle
  <2> QED BY <2>1, NothingSealed
<1>10. CASE ProcessMessage
  <2>1. Idle /\ up' = up
    BY <1>10 DEF ProcessMessage, Idle, Fail
  <2> QED BY <2>1, NothingSealed
<1>11. CASE SendFinished
  <2>1. CASE pc' = "failed" /\ UNCHANGED <<up, sealed, writeKey>>
    <3>1. Idle /\ up' = up
      BY <2>1 DEF Idle
    <3> QED BY <3>1, NothingSealed
  <2>2. Unkeyed
    BY <1>11 DEF SendFinished, KeyInv, Keyed
  <2>3. CASE pc' = "open"
    <3> DEFINE last == Sealed(FinishedKey, "handshake",
                              Units("ClientFinished", transcript))
               mid == Append(up, ChangeCipherSpec)
    <3>1. /\ up' = up \o <<ChangeCipherSpec, last>>
          /\ sealed' = Append(sealed, FinishedKey) /\ writeKey' = ApplicationKey
      BY <1>11, <2>3 DEF SendFinished, Fail
    <3> HIDE DEF last
    <3>2. up' = Append(mid, last) /\ IsSequence(mid)
      BY <3>1, TwoAppended, AppendIs DEF KeyInv
    <3> HIDE DEF mid
    <3>3. IsSequence(up')
      BY <3>2, AppendIs
    <3> QED
      BY <2>2, <2>3, <3>1, <3>3, FinishedFresh DEF FinishedKey, ApplicationKey
  <2>4. CASE /\ pc' = "failed" /\ up' = Append(up, ChangeCipherSpec)
             /\ sealed' = Append(sealed, FinishedKey)
             /\ writeKey' = Used(FinishedKey)
    <3>1. IsSequence(up')
      BY <2>4, AppendIs DEF KeyInv
    <3> QED BY <2>2, <2>4, <3>1, FinishedFresh DEF FinishedKey
  <2> QED BY <1>11, <2>1, <2>3, <2>4 DEF SendFinished, Fail, Counts
<1>12. CASE WriteRecord
  <2>1. /\ Keyed /\ pc' \in {"open", "failed"} /\ pc = "open"
        /\ sealed' = Append(sealed, writeKey) /\ writeKey' = Used(writeKey)
    BY <1>12 DEF WriteRecord, KeyInv, Unkeyed, Fail, Counts
  <2>2. IsSequence(up')
    BY <1>12, AppendIs DEF WriteRecord, KeyInv
  <2> QED BY <2>1, <2>2, SealFresh
<1>13. CASE ReadBuffered
  <2>1. Idle /\ up' = up
    BY <1>13 DEF ReadBuffered, Idle
  <2> QED BY <2>1, NothingSealed
<1>14. CASE ReadData
  <2>1. Idle /\ up' = up
    BY <1>14 DEF ReadData, Idle
  <2> QED BY <2>1, NothingSealed
<1>15. CASE ReadPostHandshake
  <2>1. Idle /\ up' = up
    BY <1>15 DEF ReadPostHandshake, Idle
  <2> QED BY <2>1, NothingSealed
<1>16. CASE Close
  <2>1. pc' = pc \/ (pc = "open" /\ pc' = "left")
    BY <1>16 DEF Close
  <2>2. CASE writeKey.epoch = "none"
    <3>1. Idle /\ up' = up
      BY <1>16, <2>1, <2>2 DEF Close, Idle
    <3> QED BY <3>1, NothingSealed
  <2>3. CASE writeKey.epoch # "none"
    <3>1. Keyed
      BY <2>3 DEF KeyInv, Unkeyed, NoKey, Key
    <3>2. pc' \in {"open", "ended", "left", "failed"}
      BY <2>1, <3>1 DEF Keyed
    <3>3. /\ sealed' = Append(sealed, writeKey) /\ writeKey' = Used(writeKey)
          /\ up' = Append(up, Sealed(writeKey, "alert", <<"close_notify">>))
      BY <1>16, <2>3 DEF Close, Counts
    <3>4. IsSequence(up')
      BY <3>3, AppendIs DEF KeyInv
    <3> QED BY <2>1, <3>1, <3>2, <3>3, <3>4, SealFresh
  <2> QED BY <2>2, <2>3
<1> QED
  BY <1>1, <1>2, <1>3, <1>4, <1>5, <1>6, <1>7, <1>8, <1>9, <1>10, <1>11, <1>12,
     <1>13, <1>14, <1>15, <1>16 DEF Client

(* What the server and the connection do is not the client's writing.       *)
LEMMA OtherSteps ==
  ASSUME KeyInv, Server \/ SrvRefuses \/ Break \/ Garble PROVE KeyInv'
<1>1. UNCHANGED <<client, sealed>>
  BY DEF Server, SrvHello, SrvChangeCipherSpec, SrvMessages, SrvRecord, SrvData,
         SrvNotify, SrvCloses, SrvRefuses, Break, Garble
<1>2. up' = up \/ up' = <<>> \/ (up # <<>> /\ up' = Tail(up))
  BY DEF Server, SrvHello, SrvChangeCipherSpec, SrvMessages, SrvRecord, SrvData,
         SrvNotify, SrvCloses, SrvRefuses, Break, Garble
<1>3. Idle
  BY <1>1 DEF client, Idle
<1> QED BY <1>2, <1>3, NothingSealed

-----------------------------------------------------------------------------
(* The Finished, the request and the close_notify, alone or after one       *)
(* another, written or not, whoever ends the connection: no number of a key *)
(* of TlsStream::write_records and send_alert is used twice.                *)
THEOREM NonceFreshAlways == Spec => []NonceFresh
<1>1. ASSUME KeyInv, [Next]_vars PROVE KeyInv'
  <2>1. CASE UNCHANGED vars
    <3>1. Idle /\ up' = up
      BY <2>1 DEF vars, client, Idle
    <3> QED BY <1>1, <3>1, NothingSealed
  <2> QED BY <1>1, <2>1, ClientSteps, OtherSteps DEF Next
<1>2. KeyInv => NonceFresh
  BY DEF KeyInv
<1> QED BY <1>1, <1>2, KeyInit, PTL DEF Spec

-----------------------------------------------------------------------------
(* How far one is in what a server sends: the ServerHello (0 or 1), the     *)
(* units of its flight, the key of the next record, the blocks of the       *)
(* answer, the close_notify; lost is 0 until a record is past that makes    *)
(* the client fail.                                                         *)
IsKey(k) ==
  k = [epoch |-> k.epoch, over |-> k.over, seq |-> k.seq] /\ k.seq \in Nat
Seen(v) ==
  /\ v.lost \in Nat /\ v.hello \in Nat /\ v.flight \in Nat /\ v.blocks \in Nat
  /\ v.over \in Nat /\ IsKey(v.key) /\ (v.hello # 0 => v.key.epoch # "none")

View(hello, flight, key, blocks, over) ==
  [lost |-> 0, hello |-> hello, flight |-> flight, key |-> key, blocks |-> blocks,
   over |-> over]
Lost(v) ==
  [lost |-> 1, hello |-> v.hello, flight |-> v.flight, key |-> v.key,
   blocks |-> v.blocks, over |-> v.over]

Before(x, y) == /\ x.hello <= y.hello /\ x.flight <= y.flight
                /\ x.blocks <= y.blocks /\ x.over <= y.over

Onwards(x, y) == Before(x, y) /\ (x.lost # 0 => y.lost # 0)

(* The flight fl, the transcript it ends, and the key that comes after it;  *)
(* posts are the messages that may come after the handshake.                *)
AllOf(fl)  == UnitsOf(fl, Hellos)
At(n)      == Parts * n
Total(fl)  == At(Len(fl))
Whole(fl)  == Hellos \o fl
AppKey(fl) == Key("application", Whole(fl))

Posted(posts, units) ==
  IsSequence(units) /\ \A i \in DOMAIN units : units[i].m \in posts

CloseNotify == <<"close_notify">>

(* The records of a server, and what each makes of a view.                  *)
HelloTo(x, r, y) ==
  /\ x.hello = 0 /\ r.type = "handshake" /\ Len(r.body) >= Parts
  /\ y = View(1, x.flight, Key("handshake", Hellos), x.blocks, x.over)
FlightTo(fl, x, r, y) ==
  /\ x.hello # 0 /\ r.inner = "handshake"
  /\ \E n \in Nat \ {0} :
       /\ x.flight + n <= Total(fl)
       /\ r.body = SubSeq(AllOf(fl), x.flight + 1, x.flight + n)
       /\ y = View(x.hello, x.flight + n,
                   IF x.flight + n = Total(fl) THEN AppKey(fl) ELSE Used(x.key),
                   x.blocks, x.over)
PostTo(fl, posts, x, r, y) ==
  /\ x.hello # 0 /\ x.flight = Total(fl) /\ r.inner = "handshake"
  /\ Posted(posts, r.body)
  /\ y = View(x.hello, x.flight, Used(x.key), x.blocks, x.over)
DataTo(fl, x, r, y) ==
  /\ x.hello # 0 /\ x.flight = Total(fl) /\ r.inner = "data"
  /\ \E n \in Nat :
       /\ x.blocks + n <= Blocks
       /\ r.body = SubSeq(Answer, x.blocks + 1, x.blocks + n)
       /\ y = View(x.hello, x.flight, Used(x.key), x.blocks + n, x.over)
NotifyTo(fl, x, r, y) ==
  /\ x.hello # 0 /\ x.flight = Total(fl) /\ r.inner = "alert"
  /\ r.body = CloseNotify /\ x.blocks = Blocks /\ x.over = 0
  /\ y = View(x.hello, x.flight, x.key, x.blocks, 1)
SealedTo(fl, posts, x, r, y) ==
  /\ r.type = "data" /\ r.key = x.key
  /\ FlightTo(fl, x, r, y) \/ PostTo(fl, posts, x, r, y) \/ DataTo(fl, x, r, y)
     \/ NotifyTo(fl, x, r, y)
Bad(x, r) ==
  \/ r.type = "alert"
  \/ r.type = "handshake" /\ (x.hello # 0 \/ Len(r.body) < Parts)
  \/ /\ r.type = "data"
     /\ \/ x.hello = 0 \/ r.key # x.key
        \/ r.inner = "alert" /\ r.body # CloseNotify
Follows(fl, posts, x, r, y) ==
  \/ r.type = "ccs" /\ y = x
  \/ x.lost = 0 /\ (HelloTo(x, r, y) \/ SealedTo(fl, posts, x, r, y))
  \/ (x.lost # 0 \/ Bad(x, r)) /\ y.lost # 0 /\ Seen(y) /\ Before(x, y)

(* From view x, the records s lead to view y.                               *)
Leads(fl, posts, x, s, y) ==
  \E at : /\ DOMAIN at = 1 .. Len(s) + 1
          /\ at[1] = x /\ at[Len(s) + 1] = y
          /\ \A i \in 1 .. Len(s) : Follows(fl, posts, at[i], s[i], at[i + 1])
          /\ \A i \in 1 .. Len(s) + 1 : Seen(at[i])
          /\ \A i, j \in 1 .. Len(s) + 1 : i <= j => Onwards(at[i], at[j])

-----------------------------------------------------------------------------
LEMMA KeyIs ==
  ASSUME NEW epoch, NEW over
  PROVE  /\ IsKey(Key(epoch, over))
         /\ Key(epoch, over).epoch = epoch /\ Key(epoch, over).over = over
         /\ Key(epoch, over).seq = 0
BY DEF Key, IsKey

LEMMA UsedIs ==
  ASSUME NEW k, IsKey(k)
  PROVE  /\ IsKey(Used(k)) /\ Used(k).epoch = k.epoch /\ Used(k).over = k.over
         /\ Used(k).seq = k.seq + 1
BY DEF Used, IsKey

LEMMA ViewIs ==
  ASSUME NEW hello, NEW flight, NEW key, NEW blocks, NEW over
  PROVE  /\ View(hello, flight, key, blocks, over).lost = 0
         /\ View(hello, flight, key, blocks, over).hello = hello
         /\ View(hello, flight, key, blocks, over).flight = flight
         /\ View(hello, flight, key, blocks, over).key = key
         /\ View(hello, flight, key, blocks, over).blocks = blocks
         /\ View(hello, flight, key, blocks, over).over = over
BY DEF View

LEMMA ViewSeen ==
  ASSUME NEW hello \in Nat, NEW flight \in Nat, NEW key, IsKey(key), NEW blocks \in Nat,
         NEW over \in Nat, hello # 0 => key.epoch # "none"
  PROVE  Seen(View(hello, flight, key, blocks, over))
BY DEF View, Seen

LEMMA LostIs ==
  ASSUME NEW v, Seen(v)
  PROVE  /\ Seen(Lost(v)) /\ Lost(v).lost = 1
         /\ \A x : Before(x, v) <=> Before(x, Lost(v))
         /\ \A x : Before(v, x) <=> Before(Lost(v), x)
BY DEF Lost, Seen, Before

LEMMA OnwardsAgain ==
  ASSUME NEW x, NEW y, NEW z, Seen(x), Seen(y), Seen(z), Onwards(x, y), Onwards(y, z)
  PROVE  Onwards(x, z)
BY DEF Onwards, Before, Seen

LEMMA OnwardsItself == ASSUME NEW x, Seen(x) PROVE Onwards(x, x)
BY DEF Onwards, Before, Seen

LEMMA HellosIs == IsSequence(Hellos) /\ Len(Hellos) = 2
<1>1. Hellos \in Seq({"ClientHello", "ServerHello"}) /\ Len(Hellos) = 2
  BY DEF Hellos
<1> QED BY <1>1 DEF IsSequence

LEMMA AppKeyIs ==
  ASSUME NEW fl
  PROVE  /\ IsKey(AppKey(fl))
         /\ AppKey(fl).epoch = "application" /\ AppKey(fl).seq = 0
         /\ AppKey(fl).over = Whole(fl)
BY KeyIs DEF AppKey

LEMMA TotalIs == ASSUME NEW fl, IsSequence(fl) PROVE Total(fl) \in Nat
BY LengthIs, SizesAssumption DEF Total, At

(* A record leads onwards, and what is lost remains so.                     *)
LEMMA FollowsOnwards ==
  ASSUME NEW fl, IsSequence(fl), NEW posts, NEW x, NEW r, NEW y,
         Seen(x), Follows(fl, posts, x, r, y)
  PROVE  Seen(y) /\ Onwards(x, y)
<1>0. /\ x.hello \in Nat /\ x.flight \in Nat /\ IsKey(x.key) /\ x.blocks \in Nat
      /\ x.over \in Nat /\ (x.hello # 0 => x.key.epoch # "none")
      /\ IsKey(Used(x.key)) /\ Used(x.key).epoch = x.key.epoch
      /\ Total(fl) \in Nat /\ Blocks \in Nat
  BY UsedIs, TotalIs, SizesAssumption DEF Seen
<1>1. CASE r.type = "ccs" /\ y = x
  BY <1>1, OnwardsItself
<1>2. CASE x.lost = 0 /\ HelloTo(x, r, y)
  <2>1. /\ x.hello = 0
        /\ y = View(1, x.flight, Key("handshake", Hellos), x.blocks, x.over)
    BY <1>2 DEF HelloTo
  <2>2. IsKey(Key("handshake", Hellos)) /\ Key("handshake", Hellos).epoch # "none"
    BY KeyIs, HellosIs
  <2>3. Seen(y)
    BY <1>0, <2>1, <2>2, ViewSeen
  <2>4. Before(x, y)
    BY <1>0, <2>1, ViewIs DEF Before
  <2> QED BY <1>2, <2>3, <2>4 DEF Onwards
<1>3. CASE x.lost = 0 /\ FlightTo(fl, x, r, y)
  <2>1. PICK n \in Nat \ {0} :
          y = View(x.hello, x.flight + n,
                   IF x.flight + n = Total(fl) THEN AppKey(fl) ELSE Used(x.key),
                   x.blocks, x.over)
    BY <1>3 DEF FlightTo
  <2> DEFINE k == IF x.flight + n = Total(fl) THEN AppKey(fl) ELSE Used(x.key)
  <2>2. IsKey(k) /\ (x.hello # 0 => k.epoch # "none") /\ x.flight + n \in Nat
    BY <1>0, AppKeyIs
  <2> HIDE DEF k
  <2>3. y = View(x.hello, x.flight + n, k, x.blocks, x.over)
    BY <2>1 DEF k
  <2>4. Seen(y)
    BY <1>0, <2>2, <2>3, ViewSeen
  <2>5. Before(x, y)
    BY <1>0, <2>3, ViewIs DEF Before
  <2> QED BY <1>3, <2>4, <2>5 DEF Onwards
<1>4. CASE x.lost = 0 /\ PostTo(fl, posts, x, r, y)
  <2>1. y = View(x.hello, x.flight, Used(x.key), x.blocks, x.over)
    BY <1>4 DEF PostTo
  <2>2. Seen(y)
    BY <1>0, <2>1, ViewSeen
  <2>3. Before(x, y)
    BY <1>0, <2>1, ViewIs DEF Before
  <2> QED BY <1>4, <2>2, <2>3 DEF Onwards
<1>5. CASE x.lost = 0 /\ DataTo(fl, x, r, y)
  <2>1. PICK n \in Nat :
          y = View(x.hello, x.flight, Used(x.key), x.blocks + n, x.over)
    BY <1>5 DEF DataTo
  <2>2. x.blocks + n \in Nat /\ x.blocks <= x.blocks + n
    BY <1>0
  <2>3. Seen(y)
    BY <1>0, <2>1, <2>2, ViewSeen
  <2>4. Before(x, y)
    BY <1>0, <2>1, <2>2, ViewIs DEF Before
  <2> QED BY <1>5, <2>3, <2>4 DEF Onwards
<1>6. CASE x.lost = 0 /\ NotifyTo(fl, x, r, y)
  <2>1. y = View(x.hello, x.flight, x.key, x.blocks, 1) /\ x.over = 0
    BY <1>6 DEF NotifyTo
  <2>2. Seen(y)
    BY <1>0, <2>1, ViewSeen
  <2>3. Before(x, y)
    BY <1>0, <2>1, ViewIs DEF Before
  <2> QED BY <1>6, <2>2, <2>3 DEF Onwards
<1>7. CASE y.lost # 0 /\ Seen(y) /\ Before(x, y)
  BY <1>7 DEF Onwards
<1> QED BY <1>1, <1>2, <1>3, <1>4, <1>5, <1>6, <1>7 DEF Follows, SealedTo

-----------------------------------------------------------------------------
(* Records on their way.                                                    *)
LEMMA LeadsNowhere ==
  ASSUME NEW fl, NEW posts, NEW x, NEW y, Seen(x)
  PROVE  Leads(fl, posts, x, <<>>, y) <=> x = y
<1>1. ASSUME Leads(fl, posts, x, <<>>, y) PROVE x = y
  BY <1>1, EmptyIs DEF Leads
<1>2. ASSUME x = y PROVE Leads(fl, posts, x, <<>>, y)
  <2> DEFINE at == [i \in 1 .. 1 |-> x]
  <2>1. DOMAIN at = 1 .. 0 + 1 /\ at[1] = x /\ at[0 + 1] = y
    BY <1>2
  <2>2. \A i \in 1 .. 0 : Follows(fl, posts, at[i], <<>>[i], at[i + 1])
    OBVIOUS
  <2>3. /\ \A i \in 1 .. 0 + 1 : Seen(at[i])
        /\ \A i, j \in 1 .. 0 + 1 : i <= j => Onwards(at[i], at[j])
    BY <1>2, OnwardsItself
  <2> HIDE DEF at
  <2> QED BY <2>1, <2>2, <2>3, EmptyIs DEF Leads
<1> QED BY <1>1, <1>2

LEMMA LeadsFrom ==
  ASSUME NEW fl, NEW posts, NEW x, NEW s, NEW y, IsSequence(s),
         Leads(fl, posts, x, s, y)
  PROVE  Seen(x) /\ Seen(y) /\ Onwards(x, y)
<1>1. Len(s) \in Nat
  BY LengthIs
<1>2. 1 \in 1 .. Len(s) + 1 /\ Len(s) + 1 \in 1 .. Len(s) + 1 /\ 1 <= Len(s) + 1
  BY <1>1
<1> QED BY <1>2 DEF Leads

LEMMA LeadsFirst ==
  ASSUME NEW fl, NEW posts, NEW x, NEW s, NEW y, IsSequence(s), s # <<>>,
         Leads(fl, posts, x, s, y)
  PROVE  \E z : Follows(fl, posts, x, Head(s), z) /\ Leads(fl, posts, z, Tail(s), y)
<1> DEFINE n == Len(s)
<1>1. /\ n \in Nat /\ n > 0 /\ Head(s) = s[1] /\ Len(Tail(s)) = n - 1
      /\ \A i \in 1 .. n - 1 : Tail(s)[i] = s[i + 1]
  <2>1. PICK S : s \in Seq(S)
    BY DEF IsSequence
  <2> QED BY <2>1, HeadTailProperties, EmptySeq
<1>2. PICK at : /\ DOMAIN at = 1 .. n + 1
                /\ at[1] = x /\ at[n + 1] = y
                /\ \A i \in 1 .. n : Follows(fl, posts, at[i], s[i], at[i + 1])
                /\ \A i \in 1 .. n + 1 : Seen(at[i])
                /\ \A i, j \in 1 .. n + 1 : i <= j => Onwards(at[i], at[j])
  BY DEF Leads
<1> HIDE DEF n
<1> DEFINE after == [i \in 1 .. n |-> at[i + 1]]
<1>3. DOMAIN after = 1 .. (n - 1) + 1 /\ after[1] = at[2] /\ after[(n - 1) + 1] = y
  BY <1>1, <1>2
<1>4. \A i \in 1 .. n - 1 : Follows(fl, posts, after[i], Tail(s)[i], after[i + 1])
  <2>1. SUFFICES ASSUME NEW i \in 1 .. n - 1
                 PROVE  Follows(fl, posts, after[i], Tail(s)[i], after[i + 1])
    OBVIOUS
  <2>2. i + 1 \in 1 .. n /\ i \in 1 .. n
    BY <1>1
  <2>3. after[i] = at[i + 1] /\ after[i + 1] = at[i + 1 + 1] /\ Tail(s)[i] = s[i + 1]
    BY <1>1, <2>2
  <2> QED BY <1>2, <2>2, <2>3
<1>5. /\ \A i \in 1 .. (n - 1) + 1 : Seen(after[i])
      /\ \A i, j \in 1 .. (n - 1) + 1 : i <= j => Onwards(after[i], after[j])
  BY <1>1, <1>2
<1>6. Follows(fl, posts, x, Head(s), at[2])
  BY <1>1, <1>2
<1> HIDE DEF after
<1>7. Leads(fl, posts, at[2], Tail(s), y)
  BY <1>1, <1>3, <1>4, <1>5 DEF Leads
<1> QED BY <1>6, <1>7

LEMMA LeadsOn ==
  ASSUME NEW fl, IsSequence(fl), NEW posts, NEW x, NEW s, NEW y, IsSequence(s),
         NEW r, NEW z, Leads(fl, posts, x, s, y), Follows(fl, posts, y, r, z)
  PROVE  Leads(fl, posts, x, Append(s, r), z)
<1> DEFINE n == Len(s)
           t == Append(s, r)
<1>1. /\ n \in Nat /\ Len(t) = n + 1 /\ t[n + 1] = r
      /\ \A i \in 1 .. n : t[i] = s[i]
  <2>1. PICK S : s \in Seq(S)
    BY DEF IsSequence
  <2> DEFINE T == S \cup {r}
  <2>2. s \in Seq(T) /\ r \in T
    BY <2>1
  <2> HIDE DEF T
  <2> QED BY <2>2, AppendProperties
<1>2. PICK at : /\ DOMAIN at = 1 .. n + 1
                /\ at[1] = x /\ at[n + 1] = y
                /\ \A i \in 1 .. n : Follows(fl, posts, at[i], s[i], at[i + 1])
                /\ \A i \in 1 .. n + 1 : Seen(at[i])
                /\ \A i, j \in 1 .. n + 1 : i <= j => Onwards(at[i], at[j])
  BY DEF Leads
<1>3. Seen(y) /\ Seen(z) /\ Onwards(y, z)
  BY LeadsFrom, FollowsOnwards
<1> HIDE DEF n, t
<1> DEFINE on == [i \in 1 .. n + 2 |-> IF i = n + 2 THEN z ELSE at[i]]
<1>4. DOMAIN on = 1 .. (n + 1) + 1 /\ on[1] = x /\ on[(n + 1) + 1] = z
  BY <1>1, <1>2
<1>5. \A i \in 1 .. n + 1 : Follows(fl, posts, on[i], t[i], on[i + 1])
  <2>1. SUFFICES ASSUME NEW i \in 1 .. n + 1
                 PROVE  Follows(fl, posts, on[i], t[i], on[i + 1])
    OBVIOUS
  <2>2. CASE i = n + 1
    <3>1. on[i] = y /\ t[i] = r /\ on[i + 1] = z
      BY <1>1, <1>2, <2>2
    <3> QED BY <3>1
  <2>3. CASE i \in 1 .. n
    <3>1. on[i] = at[i] /\ t[i] = s[i] /\ on[i + 1] = at[i + 1]
      BY <1>1, <1>2, <2>3
    <3> QED BY <1>2, <2>3, <3>1
  <2> QED BY <1>1, <2>1, <2>2, <2>3
<1>6. \A i \in 1 .. (n + 1) + 1 : Seen(on[i])
  BY <1>1, <1>2, <1>3
<1>7. \A i, j \in 1 .. (n + 1) + 1 : i <= j => Onwards(on[i], on[j])
  <2>1. SUFFICES ASSUME NEW i \in 1 .. n + 2, NEW j \in 1 .. n + 2, i <= j
                 PROVE  Onwards(on[i], on[j])
    BY <1>1
  <2>2. CASE i = n + 2
    <3>1. on[i] = z /\ on[j] = z
      BY <1>1, <2>1, <2>2
    <3> QED BY <1>3, <3>1, OnwardsItself
  <2>3. CASE i # n + 2 /\ j = n + 2
    <3>1. /\ i \in 1 .. n + 1 /\ n + 1 \in 1 .. n + 1 /\ i <= n + 1
          /\ on[i] = at[i] /\ on[j] = z
      BY <1>1, <2>3
    <3>2. Onwards(at[i], y) /\ Seen(at[i])
      BY <1>2, <3>1
    <3> QED BY <1>3, <3>1, <3>2, OnwardsAgain
  <2>4. CASE i # n + 2 /\ j # n + 2
    <3>1. i \in 1 .. n + 1 /\ j \in 1 .. n + 1 /\ on[i] = at[i] /\ on[j] = at[j]
      BY <1>1, <2>4
    <3> QED BY <1>2, <2>1, <3>1
  <2> QED BY <2>2, <2>3, <2>4
<1> HIDE DEF on
<1>8. Leads(fl, posts, x, t, z)
  BY <1>1, <1>4, <1>5, <1>6, <1>7 DEF Leads
<1> QED BY <1>8 DEF t

LEMMA LeadsPartly ==
  ASSUME NEW fl, NEW posts, NEW x, NEW s, NEW y, IsSequence(s), NEW n \in 0 .. Len(s),
         Leads(fl, posts, x, s, y)
  PROVE  /\ IsSequence(SubSeq(s, 1, n))
         /\ \E z : /\ Leads(fl, posts, x, SubSeq(s, 1, n), z)
                   /\ Seen(z) /\ Onwards(z, y)
<1> DEFINE t == SubSeq(s, 1, n)
<1>1. /\ Len(s) \in Nat /\ Len(t) = n /\ IsSequence(t)
      /\ \A i \in 1 .. n : t[i] = s[i]
  <2>1. PICK S : s \in Seq(S)
    BY DEF IsSequence
  <2>2. Len(s) \in Nat /\ n \in Int /\ 1 \in Int
    BY <2>1, LenProperties
  <2>3. \A i \in 1 .. n : s[i] \in S
    BY <2>1, <2>2, ElementOfSeq
  <2>4. /\ t \in Seq(S) /\ Len(t) = (IF 1 <= n THEN n - 1 + 1 ELSE 0)
        /\ \A i \in 1 .. n - 1 + 1 : t[i] = s[1 + i - 1]
    BY <2>2, <2>3, SubSeqProperties
  <2> HIDE DEF t
  <2>5. Len(t) = n
    BY <2>2, <2>4
  <2>6. \A i \in 1 .. n : t[i] = s[i]
    BY <2>2, <2>4
  <2> QED BY <2>2, <2>4, <2>5, <2>6 DEF IsSequence
<1>2. PICK at : /\ DOMAIN at = 1 .. Len(s) + 1
                /\ at[1] = x /\ at[Len(s) + 1] = y
                /\ \A i \in 1 .. Len(s) : Follows(fl, posts, at[i], s[i], at[i + 1])
                /\ \A i \in 1 .. Len(s) + 1 : Seen(at[i])
                /\ \A i, j \in 1 .. Len(s) + 1 : i <= j => Onwards(at[i], at[j])
  BY DEF Leads
<1> HIDE DEF t
<1> DEFINE to == [i \in 1 .. n + 1 |-> at[i]]
<1>3. /\ DOMAIN to = 1 .. n + 1 /\ to[1] = x /\ to[n + 1] = at[n + 1]
      /\ n + 1 \in 1 .. Len(s) + 1 /\ n + 1 <= Len(s) + 1
      /\ Len(s) + 1 \in 1 .. Len(s) + 1
      /\ \A i \in 1 .. n + 1 : i \in 1 .. Len(s) + 1 /\ to[i] = at[i]
      /\ \A i \in 1 .. n : i \in 1 .. Len(s) /\ to[i + 1] = at[i + 1]
  BY <1>1, <1>2
<1> HIDE DEF to
<1>4. \A i \in 1 .. n : Follows(fl, posts, to[i], t[i], to[i + 1])
  <2>1. SUFFICES ASSUME NEW i \in 1 .. n
                 PROVE  Follows(fl, posts, to[i], t[i], to[i + 1])
    OBVIOUS
  <2>2. to[i] = at[i] /\ t[i] = s[i] /\ to[i + 1] = at[i + 1] /\ i \in 1 .. Len(s)
    BY <1>1, <1>3
  <2> QED BY <1>2, <2>2
<1>5. /\ \A i \in 1 .. n + 1 : Seen(to[i])
      /\ \A i, j \in 1 .. n + 1 : i <= j => Onwards(to[i], to[j])
  BY <1>2, <1>3
<1>6. Leads(fl, posts, x, t, at[n + 1])
  BY <1>1, <1>3, <1>4, <1>5 DEF Leads
<1>7. Seen(at[n + 1]) /\ Onwards(at[n + 1], y)
  BY <1>2, <1>3
<1> QED BY <1>1, <1>6, <1>7 DEF t

(* A record that arrives as another: all that comes after it is lost.       *)
LEMMA LeadsGarbled ==
  ASSUME NEW fl, IsSequence(fl), NEW posts, NEW x, NEW s, NEW y, IsSequence(s),
         NEW k \in DOMAIN s, NEW record \in Clear, Leads(fl, posts, x, s, y)
  PROVE  /\ IsSequence([s EXCEPT ![k] = record])
         /\ Leads(fl, posts, x, [s EXCEPT ![k] = record], Lost(y))
<1> DEFINE n == Len(s)
           t == [s EXCEPT ![k] = record]
<1>1. /\ n \in Nat /\ k \in 1 .. n /\ IsSequence(t) /\ Len(t) = n
      /\ t[k] = record /\ \A i \in 1 .. n : i # k => t[i] = s[i]
  <2>1. PICK S : s \in Seq(S)
    BY DEF IsSequence
  <2> DEFINE T == S \cup {record}
  <2>2. s \in Seq(T) /\ record \in T
    BY <2>1
  <2> HIDE DEF T
  <2>3. n \in Nat /\ k \in 1 .. n
    BY <2>1, LenProperties
  <2>4. /\ t \in Seq(T) /\ Len(t) = n
        /\ \A j \in 1 .. n : t[j] = IF j = k THEN record ELSE s[j]
    BY <2>2, <2>3, ExceptSeq
  <2> QED BY <2>3, <2>4 DEF IsSequence
<1>2. PICK at : /\ DOMAIN at = 1 .. n + 1
                /\ at[1] = x /\ at[n + 1] = y
                /\ \A i \in 1 .. n : Follows(fl, posts, at[i], s[i], at[i + 1])
                /\ \A i \in 1 .. n + 1 : Seen(at[i])
                /\ \A i, j \in 1 .. n + 1 : i <= j => Onwards(at[i], at[j])
  BY DEF Leads
<1> HIDE DEF n, t
<1> DEFINE off == [i \in 1 .. n + 1 |-> IF i <= k THEN at[i] ELSE Lost(at[i])]
<1>3. DOMAIN off = 1 .. n + 1 /\ off[1] = x /\ off[n + 1] = Lost(y)
  BY <1>1, <1>2
<1>4. ASSUME NEW i \in 1 .. n PROVE Follows(fl, posts, off[i], t[i], off[i + 1])
  <2>1. /\ i \in 1 .. n + 1 /\ i + 1 \in 1 .. n + 1 /\ i <= i + 1
        /\ Seen(at[i]) /\ Seen(at[i + 1]) /\ Before(at[i], at[i + 1])
    BY <1>1, <1>2 DEF Onwards
  <2>2. CASE i < k
    <3>1. off[i] = at[i] /\ off[i + 1] = at[i + 1] /\ t[i] = s[i]
      BY <1>1, <2>1, <2>2
    <3> QED BY <1>2, <3>1
  <2>3. CASE i = k
    <3>1. off[i] = at[i] /\ off[i + 1] = Lost(at[i + 1]) /\ t[i] = record
      BY <1>1, <2>1, <2>3
    <3>2. Seen(off[i + 1]) /\ Before(off[i], off[i + 1]) /\ off[i + 1].lost # 0
      BY <2>1, <3>1, LostIs
    <3>3. /\ t[i].key = NoKey
          /\ t[i].type = "alert" \/ (t[i].type \in {"data", "handshake"} /\ Len(t[i].body) = 0)
      BY <3>1, EmptyIs DEF Clear, ClearNotify, Plain, Record
    <3>4. Parts > 0
      BY SizesAssumption
    <3>5. Bad(at[i], t[i])
      BY <2>1, <3>3, <3>4, KeyIs DEF Bad, Seen, NoKey
    <3> QED BY <3>1, <3>2, <3>5 DEF Follows
  <2>4. CASE i > k
    <3>1. off[i] = Lost(at[i]) /\ off[i + 1] = Lost(at[i + 1])
      BY <1>1, <2>1, <2>4
    <3>2. /\ Seen(off[i + 1]) /\ Before(off[i], off[i + 1])
          /\ off[i].lost # 0 /\ off[i + 1].lost # 0
      BY <2>1, <3>1, LostIs
    <3> QED BY <3>2 DEF Follows
  <2> QED BY <1>1, <2>2, <2>3, <2>4
<1>5. \A i \in 1 .. n + 1 : Seen(off[i])
  BY <1>1, <1>2, LostIs
<1>6. ASSUME NEW i \in 1 .. n + 1, NEW j \in 1 .. n + 1, i <= j
      PROVE  Onwards(off[i], off[j])
  <2>1. Seen(at[i]) /\ Seen(at[j]) /\ Onwards(at[i], at[j])
    BY <1>2, <1>6
  <2>2. CASE j <= k
    BY <1>1, <1>6, <2>1, <2>2
  <2>3. CASE j > k
    <3>1. off[j] = Lost(at[j]) /\ (off[i] = at[i] \/ off[i] = Lost(at[i]))
      BY <1>1, <2>3
    <3> QED BY <2>1, <3>1, LostIs DEF Onwards
  <2> QED BY <1>1, <2>2, <2>3
<1> HIDE DEF off
<1>7. Leads(fl, posts, x, t, Lost(y))
  BY <1>1, <1>3, <1>4, <1>5, <1>6 DEF Leads
<1> QED BY <1>1, <1>7 DEF t

(* More messages that may come after the handshake.                         *)
LEMMA LeadsStill ==
  ASSUME NEW fl, NEW posts, NEW more, posts \subseteq more, NEW x, NEW s, NEW y,
         Leads(fl, posts, x, s, y)
  PROVE  Leads(fl, more, x, s, y)
<1>1. ASSUME NEW v, NEW r, NEW w, Follows(fl, posts, v, r, w)
      PROVE  Follows(fl, more, v, r, w)
  BY <1>1 DEF Follows, SealedTo, PostTo, Posted
<1> QED BY <1>1 DEF Leads

-----------------------------------------------------------------------------
(* The same for what the client sends: what the server waits for, with the  *)
(* key that opens it.  inners are the records it may get on an open stream. *)
Await(at, key) == [at |-> at, key |-> key]
Later(x, y) == x.at = "open" => y.at = "open" /\ x.key.seq <= y.key.seq

Expects(fl, inners, x, r, y) ==
  \/ /\ x.at = "hello" /\ r.type = "handshake"
     /\ y = Await("finished", Key("handshake", Hellos))
  \/ x.at = "finished" /\ r.type = "ccs" /\ y = x
  \/ /\ x.at = "finished"
     /\ r = Sealed(x.key, "handshake", Units("ClientFinished", Whole(fl)))
     /\ y = Await("open", AppKey(fl))
  \/ /\ x.at = "open" /\ r.type = "data" /\ r.key = x.key /\ r.inner \in inners
     /\ y = Await("open", Used(x.key))

Meets(fl, inners, x, s, y) ==
  \E at : /\ DOMAIN at = 1 .. Len(s) + 1
          /\ at[1] = x /\ at[Len(s) + 1] = y
          /\ \A i \in 1 .. Len(s) : Expects(fl, inners, at[i], s[i], at[i + 1])
          /\ \A i \in 1 .. Len(s) + 1 : IsKey(at[i].key) /\ Later(at[i], y)

LEMMA AwaitIs ==
  ASSUME NEW at, NEW key
  PROVE  Await(at, key).at = at /\ Await(at, key).key = key
BY DEF Await

LEMMA ExpectsLater ==
  ASSUME NEW fl, NEW inners, NEW x, NEW r, NEW y, IsKey(x.key),
         Expects(fl, inners, x, r, y)
  PROVE  IsKey(y.key) /\ Later(x, y)
<1>1. IsKey(Used(x.key)) /\ Used(x.key).seq = x.key.seq + 1 /\ x.key.seq \in Nat
  BY UsedIs DEF IsKey
<1>2. IsKey(AppKey(fl)) /\ IsKey(Key("handshake", Hellos))
  BY KeyIs, AppKeyIs
<1>3. CASE x.at = "open"
  <2>1. y = Await("open", Used(x.key))
    BY <1>3 DEF Expects
  <2> QED BY <1>1, <2>1, AwaitIs DEF Later
<1>4. CASE x.at # "open"
  <2>1. \/ y = Await("finished", Key("handshake", Hellos)) \/ y = x
        \/ y = Await("open", AppKey(fl))
    BY <1>4 DEF Expects
  <2> QED BY <1>2, <1>4, <2>1, AwaitIs DEF Later
<1> QED BY <1>3, <1>4

LEMMA MeetsNothing ==
  ASSUME NEW fl, NEW inners, NEW x, NEW y, IsKey(x.key)
  PROVE  Meets(fl, inners, x, <<>>, y) <=> x = y
<1>0. x.key.seq \in Nat
  BY DEF IsKey
<1>1. ASSUME Meets(fl, inners, x, <<>>, y) PROVE x = y
  BY <1>1, EmptyIs DEF Meets
<1>2. ASSUME x = y PROVE Meets(fl, inners, x, <<>>, y)
  <2> DEFINE at == [i \in 1 .. 1 |-> x]
  <2>1. DOMAIN at = 1 .. 0 + 1 /\ at[1] = x /\ at[0 + 1] = y
    BY <1>2
  <2>2. \A i \in 1 .. 0 : Expects(fl, inners, at[i], <<>>[i], at[i + 1])
    OBVIOUS
  <2>3. \A i \in 1 .. 0 + 1 : IsKey(at[i].key) /\ Later(at[i], y)
    BY <1>0, <1>2 DEF Later
  <2> HIDE DEF at
  <2> QED BY <2>1, <2>2, <2>3, EmptyIs DEF Meets
<1> QED BY <1>1, <1>2

LEMMA MeetsFrom ==
  ASSUME NEW fl, NEW inners, NEW x, NEW s, NEW y, IsSequence(s),
         Meets(fl, inners, x, s, y)
  PROVE  IsKey(x.key) /\ IsKey(y.key) /\ Later(x, y)
<1>1. Len(s) \in Nat
  BY LengthIs
<1>2. 1 \in 1 .. Len(s) + 1 /\ Len(s) + 1 \in 1 .. Len(s) + 1
  BY <1>1
<1> QED BY <1>2 DEF Meets

LEMMA MeetsFirst ==
  ASSUME NEW fl, NEW inners, NEW x, NEW s, NEW y, IsSequence(s), s # <<>>,
         Meets(fl, inners, x, s, y)
  PROVE  \E z : Expects(fl, inners, x, Head(s), z) /\ Meets(fl, inners, z, Tail(s), y)
<1> DEFINE n == Len(s)
<1>1. /\ n \in Nat /\ n > 0 /\ Head(s) = s[1] /\ Len(Tail(s)) = n - 1
      /\ \A i \in 1 .. n - 1 : Tail(s)[i] = s[i + 1]
  <2>1. PICK S : s \in Seq(S)
    BY DEF IsSequence
  <2> QED BY <2>1, HeadTailProperties, EmptySeq
<1>2. PICK at : /\ DOMAIN at = 1 .. n + 1
                /\ at[1] = x /\ at[n + 1] = y
                /\ \A i \in 1 .. n : Expects(fl, inners, at[i], s[i], at[i + 1])
                /\ \A i \in 1 .. n + 1 : IsKey(at[i].key) /\ Later(at[i], y)
  BY DEF Meets
<1> HIDE DEF n
<1> DEFINE after == [i \in 1 .. n |-> at[i + 1]]
<1>3. DOMAIN after = 1 .. (n - 1) + 1 /\ after[1] = at[2] /\ after[(n - 1) + 1] = y
  BY <1>1, <1>2
<1>4. \A i \in 1 .. n - 1 : Expects(fl, inners, after[i], Tail(s)[i], after[i + 1])
  <2>1. SUFFICES ASSUME NEW i \in 1 .. n - 1
                 PROVE  Expects(fl, inners, after[i], Tail(s)[i], after[i + 1])
    OBVIOUS
  <2>2. i + 1 \in 1 .. n /\ i \in 1 .. n
    BY <1>1
  <2>3. after[i] = at[i + 1] /\ after[i + 1] = at[i + 1 + 1] /\ Tail(s)[i] = s[i + 1]
    BY <1>1, <2>2
  <2> QED BY <1>2, <2>2, <2>3
<1>5. \A i \in 1 .. (n - 1) + 1 : IsKey(after[i].key) /\ Later(after[i], y)
  BY <1>1, <1>2
<1>6. Expects(fl, inners, x, Head(s), at[2])
  BY <1>1, <1>2
<1> HIDE DEF after
<1>7. Meets(fl, inners, at[2], Tail(s), y)
  BY <1>1, <1>3, <1>4, <1>5 DEF Meets
<1> QED BY <1>6, <1>7

LEMMA MeetsOn ==
  ASSUME NEW fl, NEW inners, NEW x, NEW s, NEW y, IsSequence(s),
         NEW r, NEW z, Meets(fl, inners, x, s, y), Expects(fl, inners, y, r, z)
  PROVE  Meets(fl, inners, x, Append(s, r), z)
<1> DEFINE n == Len(s)
           t == Append(s, r)
<1>1. /\ n \in Nat /\ Len(t) = n + 1 /\ t[n + 1] = r
      /\ \A i \in 1 .. n : t[i] = s[i]
  <2>1. PICK S : s \in Seq(S)
    BY DEF IsSequence
  <2> DEFINE T == S \cup {r}
  <2>2. s \in Seq(T) /\ r \in T
    BY <2>1
  <2> HIDE DEF T
  <2> QED BY <2>2, AppendProperties
<1>2. PICK at : /\ DOMAIN at = 1 .. n + 1
                /\ at[1] = x /\ at[n + 1] = y
                /\ \A i \in 1 .. n : Expects(fl, inners, at[i], s[i], at[i + 1])
                /\ \A i \in 1 .. n + 1 : IsKey(at[i].key) /\ Later(at[i], y)
  BY DEF Meets
<1>3. IsKey(y.key) /\ IsKey(z.key) /\ Later(y, z)
  BY MeetsFrom, ExpectsLater
<1> HIDE DEF n, t
<1> DEFINE on == [i \in 1 .. n + 2 |-> IF i = n + 2 THEN z ELSE at[i]]
<1>4. DOMAIN on = 1 .. (n + 1) + 1 /\ on[1] = x /\ on[(n + 1) + 1] = z
  BY <1>1, <1>2
<1>5. \A i \in 1 .. n + 1 : Expects(fl, inners, on[i], t[i], on[i + 1])
  <2>1. SUFFICES ASSUME NEW i \in 1 .. n + 1
                 PROVE  Expects(fl, inners, on[i], t[i], on[i + 1])
    OBVIOUS
  <2>2. CASE i = n + 1
    <3>1. on[i] = y /\ t[i] = r /\ on[i + 1] = z
      BY <1>1, <1>2, <2>2
    <3> QED BY <3>1
  <2>3. CASE i \in 1 .. n
    <3>1. on[i] = at[i] /\ t[i] = s[i] /\ on[i + 1] = at[i + 1]
      BY <1>1, <1>2, <2>3
    <3> QED BY <1>2, <2>3, <3>1
  <2> QED BY <1>1, <2>1, <2>2, <2>3
<1>6. \A i \in 1 .. (n + 1) + 1 : IsKey(on[i].key) /\ Later(on[i], z)
  <2>1. SUFFICES ASSUME NEW i \in 1 .. n + 2
                 PROVE  IsKey(on[i].key) /\ Later(on[i], z)
    BY <1>1
  <2>2. CASE i = n + 2
    BY <1>1, <1>3, <2>2 DEF Later, IsKey
  <2>3. CASE i \in 1 .. n + 1
    <3>1. on[i] = at[i] /\ IsKey(at[i].key) /\ Later(at[i], y)
      BY <1>1, <1>2, <2>3
    <3> QED BY <1>3, <3>1 DEF Later, IsKey
  <2> QED BY <1>1, <2>1, <2>2, <2>3
<1> HIDE DEF on
<1>7. Meets(fl, inners, x, t, z)
  BY <1>1, <1>4, <1>5, <1>6 DEF Meets
<1> QED BY <1>7 DEF t

LEMMA MeetsStill ==
  ASSUME NEW fl, NEW inners, NEW more, inners \subseteq more, NEW x, NEW s, NEW y,
         Meets(fl, inners, x, s, y)
  PROVE  Meets(fl, more, x, s, y)
<1>1. ASSUME NEW v, NEW r, NEW w, Expects(fl, inners, v, r, w)
      PROVE  Expects(fl, more, v, r, w)
  BY <1>1 DEF Expects
<1> QED BY <1>1 DEF Meets

-----------------------------------------------------------------------------
(* A part of a sequence, counted by the elements before it and up to its    *)
(* end.                                                                     *)
LEMMA PartIs ==
  ASSUME NEW s, IsSequence(s), NEW a \in Nat, NEW b \in a .. Len(s)
  PROVE  /\ IsSequence(SubSeq(s, a + 1, b)) /\ Len(SubSeq(s, a + 1, b)) = b - a
         /\ \A i \in 1 .. b - a : SubSeq(s, a + 1, b)[i] = s[a + i]
<1>1. PICK S : s \in Seq(S)
  BY DEF IsSequence
<1>2. Len(s) \in Nat /\ b \in Int /\ a + 1 \in Int /\ b \in Nat /\ a <= b
  BY <1>1, LenProperties
<1>3. \A i \in a + 1 .. b : s[i] \in S
  BY <1>1, <1>2, ElementOfSeq
<1> DEFINE t == SubSeq(s, a + 1, b)
<1>4. /\ t \in Seq(S) /\ Len(t) = (IF a + 1 <= b THEN b - (a + 1) + 1 ELSE 0)
      /\ \A i \in 1 .. b - (a + 1) + 1 : t[i] = s[a + 1 + i - 1]
  BY <1>2, <1>3, SubSeqProperties
<1> HIDE DEF t
<1>5. IsSequence(t) /\ Len(t) = b - a
  BY <1>2, <1>4 DEF IsSequence
<1>6. \A i \in 1 .. b - a : t[i] = s[a + i]
  <2>1. SUFFICES ASSUME NEW i \in 1 .. b - a PROVE t[i] = s[a + i]
    OBVIOUS
  <2>2. i \in 1 .. b - (a + 1) + 1 /\ a + 1 + i - 1 = a + i
    BY <1>2
  <2>3. t[i] = s[a + 1 + i - 1]
    BY <1>4, <2>2
  <2> QED BY <2>2, <2>3
<1> QED BY <1>5, <1>6 DEF t

LEMMA PartsJoin ==
  ASSUME NEW s, IsSequence(s), NEW a \in Nat, NEW b \in a .. Len(s), NEW c \in b .. Len(s)
  PROVE  SubSeq(s, a + 1, b) \o SubSeq(s, b + 1, c) = SubSeq(s, a + 1, c)
<1>1. PICK S : s \in Seq(S)
  BY DEF IsSequence
<1>2. Len(s) \in Nat /\ b \in Nat
  BY <1>1
<1>3. a + 1 \in 1 .. Len(s) + 1 /\ b \in (a + 1) - 1 .. Len(s)
  BY <1>2
<1> QED BY <1>1, <1>3, ConcatAdjacentSubSeq

LEMMA EmptyPart ==
  ASSUME NEW s, NEW a \in Nat
  PROVE  SubSeq(s, a + 1, a) = <<>>
<1>1. a + 1 \in Int /\ a \in Int /\ a < a + 1
  OBVIOUS
<1> QED BY <1>1, SubSeqEmpty

(* The two ends of a part.                                                  *)
LEMMA PartOfPart ==
  ASSUME NEW s, IsSequence(s), NEW a \in Nat, NEW b \in a .. Len(s), NEW m \in 0 .. b - a
  PROVE  /\ SubSeq(SubSeq(s, a + 1, b), 1, m) = SubSeq(s, a + 1, a + m)
         /\ SubSeq(SubSeq(s, a + 1, b), m + 1, b - a) = SubSeq(s, a + m + 1, b)
<1>1. PICK S : s \in Seq(S)
  BY DEF IsSequence
<1>2. Len(s) \in Nat /\ b \in Nat /\ a + m \in a .. Len(s) /\ b - a \in Nat
  BY <1>1
<1>3. CASE a = b
  <2>1. m = 0 /\ SubSeq(s, a + 1, b) = <<>> /\ SubSeq(s, a + 0 + 1, b) = <<>>
    BY <1>2, <1>3, EmptyPart
  <2>2. SubSeq(<<>>, 1, 0) = <<>> /\ SubSeq(s, a + 1, a + 0) = <<>>
    BY EmptyPart, SubSeqEmpty
  <2>3. SubSeq(<<>>, 0 + 1, b - a) = <<>>
    BY <1>2, <1>3, SubSeqEmpty
  <2> QED BY <2>1, <2>2, <2>3
<1>4. CASE a # b
  <2>1. a + 1 \in 1 .. Len(s) /\ b \in 1 .. Len(s) /\ b - (a + 1) + 1 = b - a
    BY <1>2, <1>4
  <2>2. CASE m = 0
    <3>1. SubSeq(s, a + 1, a + 0) = <<>> /\ SubSeq(SubSeq(s, a + 1, b), 1, 0) = <<>>
      BY EmptyPart, SubSeqEmpty
    <3>2. SubSeq(SubSeq(s, a + 1, b), 1, b - a) = SubSeq(s, a + 1, b)
      <4>1. IsSequence(SubSeq(s, a + 1, b)) /\ Len(SubSeq(s, a + 1, b)) = b - a
        BY PartIs
      <4> QED BY <4>1, SubSeqFull DEF IsSequence
    <3> QED BY <2>2, <3>1, <3>2
  <2>3. CASE m # 0
    <3>1. 1 \in 1 .. b - (a + 1) + 1 /\ m \in 1 .. b - (a + 1) + 1
      BY <1>2, <2>1, <2>3
    <3>2. SubSeq(SubSeq(s, a + 1, b), 1, m) = SubSeq(s, a + 1 + 1 - 1, a + 1 + m - 1)
      BY <1>1, <2>1, <3>1, SubSeqOfSubSeq
    <3>3. a + 1 + 1 - 1 = a + 1 /\ a + 1 + m - 1 = a + m
      BY <1>2
    <3>4. SubSeq(SubSeq(s, a + 1, b), 1, m) = SubSeq(s, a + 1, a + m)
      BY <3>2, <3>3
    <3>5. CASE m = b - a
      <4>1. SubSeq(s, a + m + 1, b) = <<>>
        BY <1>2, <3>5, EmptyPart
      <4>2. m + 1 \in Int /\ b - a \in Int /\ b - a < m + 1
        BY <1>2, <3>5
      <4>3. SubSeq(SubSeq(s, a + 1, b), m + 1, b - a) = <<>>
        BY <4>2, SubSeqEmpty
      <4> QED BY <3>4, <4>1, <4>3
    <3>6. CASE m # b - a
      <4>1. m + 1 \in 1 .. b - (a + 1) + 1 /\ b - a \in 1 .. b - (a + 1) + 1
        BY <1>2, <2>1, <2>3, <3>6
      <4>2. SubSeq(SubSeq(s, a + 1, b), m + 1, b - a)
              = SubSeq(s, a + 1 + (m + 1) - 1, a + 1 + (b - a) - 1)
        BY <1>1, <2>1, <4>1, SubSeqOfSubSeq
      <4>3. a + 1 + (m + 1) - 1 = a + m + 1 /\ a + 1 + (b - a) - 1 = b
        BY <1>2
      <4> QED BY <3>4, <4>2, <4>3
    <3> QED BY <3>5, <3>6
  <2> QED BY <2>2, <2>3
<1> QED BY <1>3, <1>4

LEMMA Joined ==
  ASSUME NEW s, IsSequence(s), NEW t, IsSequence(t)
  PROVE  /\ IsSequence(s \o t) /\ Len(s \o t) = Len(s) + Len(t)
         /\ \A i \in 1 .. Len(s) + Len(t) :
              (s \o t)[i] = IF i <= Len(s) THEN s[i] ELSE t[i - Len(s)]
<1>1. PICK S : s \in Seq(S)
  BY DEF IsSequence
<1>2. PICK T : t \in Seq(T)
  BY DEF IsSequence
<1> DEFINE U == S \cup T
<1>3. s \in Seq(U) /\ t \in Seq(U)
  BY <1>1, <1>2
<1> HIDE DEF U
<1> QED BY <1>3, ConcatProperties DEF IsSequence

LEMMA DomainIs == ASSUME NEW s, IsSequence(s) PROVE DOMAIN s = 1 .. Len(s)
BY DEF IsSequence

-----------------------------------------------------------------------------
(* Whole messages.                                                          *)
LEMMA UnitsBefore ==
  ASSUME NEW n \in Nat, NEW p \in Nat, p < n
  PROVE  /\ Parts * p \in Nat /\ Parts * (p + 1) = Parts * p + Parts
         /\ Parts * p + Parts <= Parts * n /\ Parts * n \in Nat
         /\ (Parts * p) \div Parts = p
<1>1. Parts \in Nat /\ Parts > 0
  BY SizesAssumption
<1>2. PICK d \in Nat : n = p + 1 + d
  <2>1. n - (p + 1) \in Nat /\ n = p + 1 + (n - (p + 1))
    OBVIOUS
  <2> QED BY <2>1
<1>3. Parts * p \in Nat /\ Parts * d \in Nat /\ Parts * n \in Nat
  BY <1>1
<1>4. Parts * (p + 1) = Parts * p + Parts
  BY <1>1
<1>5. Parts * n = Parts * p + Parts + Parts * d
  BY <1>1, <1>2
<1>6. (Parts * p) \div Parts = p
  BY <1>1
<1> QED BY <1>1, <1>3, <1>4, <1>5, <1>6

LEMMA AtIs ==
  /\ At(0) = 0 /\ Parts \in Nat /\ Parts > 0
  /\ \A p \in Nat : At(p) \in Nat /\ At(p + 1) = At(p) + Parts /\ At(p) \div Parts = p
  /\ \A n, p \in Nat : p < n => At(p) + Parts <= At(n)
<1>1. Parts \in Nat /\ Parts > 0
  BY SizesAssumption
<1>2. \A n, p \in Nat : p < n => At(p) + Parts <= At(n)
  BY UnitsBefore DEF At
<1>3. \A p \in Nat : At(p) \in Nat /\ At(p + 1) = At(p) + Parts /\ At(p) \div Parts = p
  <2>1. SUFFICES ASSUME NEW p \in Nat
                 PROVE  At(p) \in Nat /\ At(p + 1) = At(p) + Parts /\ At(p) \div Parts = p
    OBVIOUS
  <2>2. p < p + 1 /\ p + 1 \in Nat
    OBVIOUS
  <2> QED BY <2>2, UnitsBefore DEF At
<1>4. At(0) = 0
  BY <1>1 DEF At
<1> QED BY <1>1, <1>2, <1>3, <1>4

LEMMA MessageOf ==
  ASSUME NEW n \in Nat, NEW k \in 1 .. Parts * n
  PROVE  (k - 1) \div Parts + 1 \in 1 .. n
<1>1. Parts \in Nat /\ Parts > 0 /\ Parts * n \in Nat
  BY SizesAssumption
<1> DEFINE q == (k - 1) \div Parts
<1>2. q \in Nat /\ Parts * q <= k - 1
  BY <1>1
<1> HIDE DEF q
<1>3. Parts * q < Parts * n
  BY <1>1, <1>2
<1>4. CASE q >= n
  <2>1. PICK d \in Nat : q = n + d
    <3>1. q - n \in Nat /\ q = n + (q - n)
      BY <1>2, <1>4
    <3> QED BY <3>1
  <2>2. Parts * q = Parts * n + Parts * d /\ Parts * d \in Nat
    BY <1>1, <2>1
  <2> QED BY <1>1, <1>3, <2>2
<1> QED BY <1>2, <1>4 DEF q

LEMMA UnitsAre ==
  ASSUME NEW msgs, IsSequence(msgs), NEW before
  PROVE  /\ IsSequence(UnitsOf(msgs, before))
         /\ Len(UnitsOf(msgs, before)) = Parts * Len(msgs)
         /\ Parts * Len(msgs) \in Nat
         /\ \A k \in 1 .. Parts * Len(msgs) :
              LET i == (k - 1) \div Parts + 1 IN
              /\ UnitsOf(msgs, before)[k].m = msgs[i]
              /\ UnitsOf(msgs, before)[k].over
                   = IF msgs[i] \in {"CertificateVerify", "Finished"}
                     THEN before \o SubSeq(msgs, 1, i - 1) ELSE <<>>
<1>1. Parts * Len(msgs) \in Nat
  BY SizesAssumption, LengthIs
<1> DEFINE n == Parts * Len(msgs)
           u(k) == LET i == (k - 1) \div Parts + 1 IN
                   [m |-> msgs[i], part |-> ((k - 1) % Parts) + 1,
                    over |-> IF msgs[i] \in {"CertificateVerify", "Finished"}
                             THEN before \o SubSeq(msgs, 1, i - 1) ELSE <<>>]
           S == {u(k) : k \in 1 .. n}
           f == [k \in 1 .. n |-> u(k)]
<1>2. UnitsOf(msgs, before) = f
  BY DEF UnitsOf
<1>3. f \in [1 .. n -> S] /\ n \in Nat
  BY <1>1
<1>4. f \in Seq(S) /\ Len(f) = n
  <2> HIDE DEF f, S, n
  <2> QED BY <1>3
<1>5. \A k \in 1 .. n :
        LET i == (k - 1) \div Parts + 1 IN
        /\ f[k].m = msgs[i]
        /\ f[k].over = IF msgs[i] \in {"CertificateVerify", "Finished"}
                       THEN before \o SubSeq(msgs, 1, i - 1) ELSE <<>>
  OBVIOUS
<1> HIDE DEF f, S
<1> QED BY <1>1, <1>2, <1>4, <1>5 DEF IsSequence

LEMMA UnitIs ==
  ASSUME NEW msgs, IsSequence(msgs), NEW before, NEW k \in 1 .. Parts * Len(msgs),
         NEW i, i = (k - 1) \div Parts + 1
  PROVE  /\ UnitsOf(msgs, before)[k].m = msgs[i]
         /\ UnitsOf(msgs, before)[k].over
              = IF msgs[i] \in {"CertificateVerify", "Finished"}
                THEN before \o SubSeq(msgs, 1, i - 1) ELSE <<>>
BY UnitsAre

LEMMA AnswerIs == IsSequence(Answer) /\ Len(Answer) = Blocks /\ Blocks \in Nat
<1>1. Answer \in [1 .. Blocks -> Nat] /\ Blocks \in Nat
  BY SizesAssumption DEF Answer
<1>2. Answer \in Seq(Nat) /\ Len(Answer) = Blocks
  BY <1>1
<1> QED BY <1>1, <1>2 DEF IsSequence

-----------------------------------------------------------------------------
(* The client waits for the ServerHello, reads the flight, has an open      *)
(* stream, or is past all that.                                             *)
Waiting == pc \in {"start", "server hello"}
Shaking == pc \in {"flight", "messages", "finish"}
Live    == Waiting \/ Shaking \/ pc = "open"

Past == Len(transcript) - 2
Read == At(Past) + Len(buffer)
ClientView ==
  IF Waiting THEN View(0, 0, NoKey, 0, 0)
  ELSE IF Shaking
  THEN View(1, Read, IF Read = Total(Flight) THEN AppKey(Flight) ELSE readKey, 0, 0)
  ELSE View(1, Total(Flight), readKey, Len(got) + Len(readBuffer), 0)

Written == IF srvKey.epoch = "none" THEN 0
           ELSE IF srvKey.epoch = "handshake" THEN Total(Flight) - Len(todo)
           ELSE Total(Flight)
ServerView ==
  View(IF srvKey.epoch = "none" THEN 0 ELSE 1, Written, srvKey, answered,
       IF notified THEN 1 ELSE 0)

(* Has the server accepted the client's Finished?                           *)
Accepted == srv # "wait finished" /\ Len(srvTranscript) > Len(Whole(Flight))
Posts == IF Accepted THEN {server.post[k] : k \in DOMAIN server.post} ELSE {}

Excused ==
  \/ cut \in {"broken", "garbled"} \/ srv = "refuses"
  \/ server.chain = "bad" \/ server.splits
  \/ KeyUpdateSent

(* What is on its way to the client goes on from where it is, and leads to  *)
(* where the server is, unless something is lost for a reason.              *)
Reaches(y) ==
  /\ Before(y, ServerView)
  /\ y.lost = 0 => y = ServerView \/ cut = "broken"
  /\ y.lost # 0 => Excused
DownInv ==
  Live => \E y : Leads(Flight, Posts, ClientView, down, y) /\ Reaches(y)

Inners == IF closed THEN {"data", "alert"} ELSE {"data"}
ClientAwait ==
  IF transcript = <<>> THEN Await("hello", NoKey)
  ELSE IF writeKey.epoch = "none" THEN Await("finished", Key("handshake", Hellos))
  ELSE Await("open", writeKey)
ServerAwait ==
  Await(IF srv = "wait hello" THEN "hello"
        ELSE IF srv = "open" THEN "open" ELSE "finished", srvOpens)
Listening == srv \in {"wait hello", "flight", "wait finished", "open"}
UpInv == Listening => Meets(Flight, Inners, ServerAwait, up, ClientAwait)

(* The client: its transcript is a beginning of the server's, and what it   *)
(* has read and not used is what comes next.                                *)
CertificateAt == IF server.asks THEN 3 ELSE 2
ShakingInv ==
  /\ Past \in 0 .. Len(Flight)
  /\ transcript = Hellos \o SubSeq(Flight, 1, Past)
  /\ IsSequence(buffer) /\ Read <= Total(Flight)
  /\ buffer = SubSeq(AllOf(Flight), At(Past) + 1, Read)
  /\ pc = "flight" => Len(buffer) < Parts
  /\ Past = Len(Flight) <=> pc = "finish"
  /\ Past >= CertificateAt => presented /\ certVerified
ClientInv ==
  /\ pc \in {"start", "server hello", "flight", "messages", "finish", "open",
             "ended", "failed", "left"}
  /\ pc = "start" => transcript = <<>>
  /\ pc = "server hello" => transcript = <<"ClientHello">>
  /\ transcript = <<>> => pc \in {"start", "failed"} /\ writeKey.epoch = "none"
  /\ Waiting => buffer = <<>>
  /\ Shaking => ShakingInv
  /\ closed => pc \in {"ended", "failed", "left"}
  /\ written \in Nat
  /\ writeKey.epoch # "none" /\ ~closed /\ pc # "failed" => writeKey.seq = written
  /\ Waiting \/ Shaking => got = <<>> /\ readBuffer = <<>> /\ written = 0
  /\ IsSequence(got) /\ IsSequence(readBuffer)
  /\ Len(got) + Len(readBuffer) <= Blocks
  /\ got = SubSeq(Answer, 1, Len(got))
  /\ readBuffer = SubSeq(Answer, Len(got) + 1, Len(got) + Len(readBuffer))

FlightToDo ==
  /\ IsSequence(todo) /\ Len(todo) \in 1 .. Total(Flight)
  /\ todo = SubSeq(AllOf(Flight), Total(Flight) - Len(todo) + 1, Total(Flight))
ServerInv ==
  /\ server \in Servers
  /\ srv \in {"wait hello", "flight", "wait finished", "open", "done", "refuses",
              "gone"}
  /\ cut \in {"no", "closed", "broken", "garbled"}
  /\ IsKey(srvKey) /\ srvKey.epoch \in {"none", "handshake", "application"}
  /\ srvKey.epoch = "none" =>
       srvKey = NoKey /\ srv \in {"wait hello", "refuses", "gone"} /\ srvTranscript = <<>>
  /\ srvKey.epoch = "handshake" =>
       srv \in {"flight", "refuses", "gone"} /\ srvTranscript = Hellos /\ FlightToDo
  /\ srvKey.epoch = "application" =>
       srv \in {"wait finished", "open", "done", "refuses", "gone"}
  /\ srvKey.epoch # "application" => answered = 0 /\ ~notified
  /\ srv = "wait hello" => srvOpens = NoKey
  /\ srv \in {"flight", "wait finished"} => srvOpens = Key("handshake", Hellos)
  /\ srv = "wait finished" => srvTranscript = Whole(Flight) /\ todo = <<>>
  /\ srv = "open" => Posted(Posts, todo) /\ Accepted /\ srvOpens.seq = asked
  /\ srv \in {"wait hello", "flight", "wait finished"} => asked = 0
  /\ asked \in Nat /\ answered \in 0 .. Blocks /\ notified \in BOOLEAN
  /\ notified =>
       answered = Blocks /\ asked = Requests /\ Accepted /\ srv \in {"done", "gone"}
  /\ cut = "closed" => srv \in {"done", "refuses"}
  /\ srv = "gone" <=> cut = "broken"

(* What each knows of the other.                                            *)
BothInv ==
  /\ Accepted => writeKey.epoch # "none"
  /\ writeKey.epoch # "none" => srvKey.epoch = "application"
  /\ srv = "done" => closed \/ notified
  /\ ~closed /\ pc # "failed" => asked <= written
  /\ pc = "open" => Posted(Posts, buffer)
  /\ pc = "failed" => Excused

AgreeInv ==
  /\ KeyInv /\ IsSequence(down)
  /\ ClientInv /\ ServerInv /\ BothInv /\ DownInv /\ UpInv

-----------------------------------------------------------------------------
LEMMA FlightIs ==
  /\ IsSequence(Flight) /\ CertificateAt \in {2, 3} /\ Len(Flight) = CertificateAt + 2
  /\ Flight[CertificateAt] = "Certificate"
  /\ Flight[CertificateAt + 1] = "CertificateVerify"
  /\ Flight[CertificateAt + 2] = "Finished"
  /\ \A i \in 1 .. CertificateAt - 1 :
       Flight[i] \in {"EncryptedExtensions", "CertificateRequest"}
<1> DEFINE M == {"EncryptedExtensions", "CertificateRequest", "Certificate",
                 "CertificateVerify", "Finished"}
           last == <<"Certificate", "CertificateVerify", "Finished">>
<1>1. CASE server.asks
  <2> DEFINE first == <<"EncryptedExtensions">> \o <<"CertificateRequest">>
  <2>1. /\ first \in Seq(M) /\ Len(first) = 2
        /\ first[1] = "EncryptedExtensions" /\ first[2] = "CertificateRequest"
    OBVIOUS
  <2>2. last \in Seq(M) /\ Len(last) = 3 /\ last[1] = "Certificate"
        /\ last[2] = "CertificateVerify" /\ last[3] = "Finished"
    OBVIOUS
  <2>3. Flight = first \o last
    BY <1>1 DEF Flight
  <2> HIDE DEF first, last, M
  <2>4. /\ Flight \in Seq(M) /\ Len(Flight) = 5
        /\ Flight[1] = "EncryptedExtensions" /\ Flight[2] = "CertificateRequest"
        /\ Flight[3] = "Certificate" /\ Flight[4] = "CertificateVerify"
        /\ Flight[5] = "Finished"
    <3>1. /\ Flight \in Seq(M) /\ Len(Flight) = Len(first) + Len(last)
          /\ \A i \in 1 .. Len(first) + Len(last) :
               Flight[i] = IF i <= Len(first) THEN first[i] ELSE last[i - Len(first)]
      BY <2>1, <2>2, <2>3, ConcatProperties
    <3> QED BY <2>1, <2>2, <3>1
  <2> QED BY <1>1, <2>4 DEF IsSequence, CertificateAt
<1>2. CASE ~server.asks
  <2> DEFINE first == <<"EncryptedExtensions">> \o <<>>
  <2>1. first \in Seq(M) /\ Len(first) = 1 /\ first[1] = "EncryptedExtensions"
    OBVIOUS
  <2>2. last \in Seq(M) /\ Len(last) = 3 /\ last[1] = "Certificate"
        /\ last[2] = "CertificateVerify" /\ last[3] = "Finished"
    OBVIOUS
  <2>3. Flight = first \o last
    BY <1>2 DEF Flight
  <2> HIDE DEF first, last, M
  <2>4. /\ Flight \in Seq(M) /\ Len(Flight) = 4
        /\ Flight[1] = "EncryptedExtensions"
        /\ Flight[2] = "Certificate" /\ Flight[3] = "CertificateVerify"
        /\ Flight[4] = "Finished"
    <3>1. /\ Flight \in Seq(M) /\ Len(Flight) = Len(first) + Len(last)
          /\ \A i \in 1 .. Len(first) + Len(last) :
               Flight[i] = IF i <= Len(first) THEN first[i] ELSE last[i - Len(first)]
      BY <2>1, <2>2, <2>3, ConcatProperties
    <3> QED BY <2>1, <2>2, <3>1
  <2> QED BY <1>2, <2>4 DEF IsSequence, CertificateAt
<1> QED BY <1>1, <1>2

LEMMA WholeIs ==
  IsSequence(Whole(Flight)) /\ Len(Whole(Flight)) = Len(Flight) + 2
<1>1. IsSequence(Hellos) /\ IsSequence(Flight)
  BY FlightIs, HellosIs
<1>2. IsSequence(Hellos \o Flight) /\ Len(Hellos \o Flight) = Len(Hellos) + Len(Flight)
  BY <1>1, Joined
<1>3. Len(Hellos) = 2 /\ Len(Flight) \in Nat
  BY <1>1, HellosIs, LengthIs
<1> QED BY <1>2, <1>3 DEF Whole

(* A step of the client leaves the server and its view alone.               *)
LEMMA ServerStill ==
  ASSUME UNCHANGED <<machine, cut>>
  PROVE  /\ Flight' = Flight /\ CertificateAt' = CertificateAt
         /\ (Accepted' <=> Accepted) /\ Posts' = Posts /\ ServerView' = ServerView
         /\ (Excused' <=> Excused) /\ ServerAwait' = ServerAwait
         /\ (Listening' <=> Listening)
<1>1. Flight' = Flight /\ CertificateAt' = CertificateAt
  BY DEF machine, Flight, CertificateAt
<1>2. Accepted' <=> Accepted
  BY <1>1 DEF machine, Accepted
<1>3. Posts' = Posts
  BY <1>2 DEF machine, Posts
<1>4. Written' = Written
  BY <1>1 DEF machine, Written
<1>5. ServerView' = ServerView
  BY <1>4 DEF machine, ServerView
<1>6. Excused' <=> Excused
  BY <1>1 DEF machine, Excused, KeyUpdateSent
<1>7. ServerAwait' = ServerAwait /\ (Listening' <=> Listening)
  BY DEF machine, ServerAwait, Listening
<1> QED BY <1>1, <1>2, <1>3, <1>5, <1>6, <1>7

LEMMA ServerInvStill ==
  ASSUME ServerInv, UNCHANGED <<machine, cut>>
  PROVE  ServerInv'
<1>1. FlightToDo => FlightToDo'
  BY ServerStill DEF FlightToDo, machine
<1> QED BY <1>1, ServerStill DEF ServerInv, machine

LEMMA ClientViewIs ==
  /\ ClientView.lost = 0 /\ ClientView.over = 0
  /\ Waiting => /\ ClientView = View(0, 0, NoKey, 0, 0) /\ ClientView.hello = 0
  /\ Shaking => /\ ClientView = View(1, Read, IF Read = Total(Flight)
                                             THEN AppKey(Flight) ELSE readKey, 0, 0)
                /\ ClientView.hello = 1 /\ ClientView.flight = Read
                /\ ClientView.blocks = 0
                /\ ClientView.key = IF Read = Total(Flight) THEN AppKey(Flight)
                                   ELSE readKey
  /\ pc = "open" => /\ ClientView = View(1, Total(Flight), readKey,
                                         Len(got) + Len(readBuffer), 0)
                    /\ ClientView.hello = 1 /\ ClientView.flight = Total(Flight)
                    /\ ClientView.key = readKey
                    /\ ClientView.blocks = Len(got) + Len(readBuffer)
<1>1. (Shaking => ~Waiting) /\ (pc = "open" => ~Waiting /\ ~Shaking)
  BY DEF Waiting, Shaking
<1>2. ClientView.lost = 0 /\ ClientView.over = 0
  BY ViewIs DEF ClientView
<1>3. ASSUME Waiting
      PROVE  /\ ClientView = View(0, 0, NoKey, 0, 0) /\ ClientView.hello = 0
  BY <1>3, ViewIs DEF ClientView
<1>4. ASSUME Shaking
      PROVE  /\ ClientView = View(1, Read, IF Read = Total(Flight)
                                             THEN AppKey(Flight) ELSE readKey, 0, 0)
             /\ ClientView.hello = 1 /\ ClientView.flight = Read
             /\ ClientView.blocks = 0
             /\ ClientView.key = IF Read = Total(Flight) THEN AppKey(Flight) ELSE readKey
  <2> DEFINE k == IF Read = Total(Flight) THEN AppKey(Flight) ELSE readKey
  <2>1. ClientView = View(1, Read, k, 0, 0)
    BY <1>1, <1>4 DEF ClientView
  <2> HIDE DEF k
  <2>2. /\ ClientView.hello = 1 /\ ClientView.flight = Read
        /\ ClientView.blocks = 0 /\ ClientView.key = k
    BY <2>1, ViewIs
  <2> QED BY <2>1, <2>2 DEF k
<1>5. ASSUME pc = "open"
      PROVE  /\ ClientView = View(1, Total(Flight), readKey, Len(got) + Len(readBuffer), 0)
             /\ ClientView.hello = 1 /\ ClientView.flight = Total(Flight)
             /\ ClientView.key = readKey
             /\ ClientView.blocks = Len(got) + Len(readBuffer)
  BY <1>1, <1>5, ViewIs DEF ClientView
<1> QED BY <1>2, <1>3, <1>4, <1>5

(* The next record is one that goes on from where the client is, or there   *)
(* is a reason to fail.                                                     *)
LEMMA NextIs ==
  ASSUME AgreeInv, Live, down # <<>>
  PROVE  \E z, y :
           /\ Leads(Flight, Posts, z, Tail(down), y) /\ Reaches(y)
           /\ \/ Head(down).type = "ccs" /\ z = ClientView
              \/ HelloTo(ClientView, Head(down), z)
              \/ SealedTo(Flight, Posts, ClientView, Head(down), z)
              \/ Bad(ClientView, Head(down)) /\ Excused
<1>1. PICK y : Leads(Flight, Posts, ClientView, down, y) /\ Reaches(y)
  BY DEF AgreeInv, DownInv
<1>2. IsSequence(down) /\ IsSequence(Tail(down))
  BY TailIs DEF AgreeInv
<1>3. PICK z : /\ Follows(Flight, Posts, ClientView, Head(down), z)
               /\ Leads(Flight, Posts, z, Tail(down), y)
  BY <1>1, <1>2, LeadsFirst
<1>4. z.lost # 0 => Excused
  BY <1>1, <1>2, <1>3, LeadsFrom DEF Onwards, Reaches
<1> QED BY <1>1, <1>3, <1>4, ClientViewIs DEF Follows

-----------------------------------------------------------------------------
(* The client fails for a reason, or its stream is at its end.              *)
LEMMA ClientIsDone ==
  ASSUME AgreeInv, UNCHANGED <<machine, cut, closed, writeKey, transcript, written,
                               got, readBuffer, up>>,
         pc' = "failed" \/ (pc = "open" /\ pc' = "ended"), pc' = "failed" => Excused
  PROVE  ClientInv' /\ BothInv' /\ DownInv' /\ UpInv'
<1>1. /\ Flight' = Flight /\ (Accepted' <=> Accepted) /\ (Excused' <=> Excused)
      /\ ServerAwait' = ServerAwait /\ (Listening' <=> Listening)
  BY ServerStill
<1>2. ~Waiting' /\ ~Shaking' /\ ~Live'
  BY DEF Waiting, Shaking, Live
<1>3. ClientInv'
  BY <1>2 DEF AgreeInv, ClientInv, Answer
<1>4. BothInv'
  BY <1>1 DEF AgreeInv, BothInv, machine
<1>5. DownInv'
  BY <1>2 DEF DownInv
<1>6. UpInv'
  <2>1. ClientAwait' = ClientAwait /\ Inners' = Inners
    BY DEF ClientAwait, Inners
  <2> QED BY <1>1, <2>1 DEF AgreeInv, UpInv
<1> QED BY <1>3, <1>4, <1>5, <1>6

(* A connection that ends is over, for a client that has not closed it,     *)
(* when the server has said so.                                             *)
LEMMA EndIsKnown ==
  ASSUME AgreeInv, Gone, ~closed, ~Excused
  PROVE  notified /\ Accepted /\ asked = Requests
BY DEF AgreeInv, Gone, Excused, ServerInv, BothInv

LEMMA NoKeyIs == NoKey.epoch = "none" /\ IsKey(NoKey)
BY KeyIs DEF NoKey

LEMMA NoKeyBefore ==
  ASSUME AgreeInv, Waiting \/ Shaking
  PROVE  writeKey.epoch = "none" /\ writeKey = NoKey /\ ~closed /\ ~Accepted /\ ~notified
<1>1. Unkeyed
  BY DEF AgreeInv, KeyInv, Keyed, Waiting, Shaking
<1>2. writeKey.epoch = "none"
  BY <1>1, NoKeyIs DEF Unkeyed
<1> QED BY <1>1, <1>2 DEF Unkeyed, AgreeInv, ClientInv, BothInv, ServerInv, Waiting, Shaking

LEMMA ConnectionEndsAgrees ==
  ASSUME AgreeInv, ConnectionEnds
  PROVE  ClientInv' /\ BothInv' /\ DownInv' /\ UpInv'
<1>1. /\ Live /\ ~closed /\ Gone /\ down = <<>> /\ pc' = "failed"
      /\ UNCHANGED <<machine, cut, closed, writeKey, transcript, written, got,
                     readBuffer, up>>
  BY DEF ConnectionEnds, Reading, Live, Waiting, Shaking, AgreeInv, ClientInv, Fail
<1>2. Excused
  <2>1. SUFFICES ASSUME ~Excused PROVE FALSE
    OBVIOUS
  <2>2. notified
    BY <1>1, <2>1, EndIsKnown
  <2>3. PICK y : Leads(Flight, Posts, ClientView, <<>>, y) /\ Reaches(y)
    BY <1>1 DEF AgreeInv, DownInv
  <2>4. Seen(ClientView)
    BY <2>3, LeadsFrom, EmptyIs
  <2>5. y = ClientView
    BY <2>3, <2>4, LeadsNowhere
  <2>6. ClientView = ServerView
    BY <2>1, <2>3, <2>5, ClientViewIs DEF Reaches, Excused
  <2>7. ServerView.over = 1
    BY <2>2, ViewIs DEF ServerView
  <2> QED BY <2>6, <2>7, ClientViewIs
<1> QED BY <1>1, <1>2, ClientIsDone

LEMMA SkipChangeCipherSpecAgrees ==
  ASSUME AgreeInv, SkipChangeCipherSpec
  PROVE  ClientInv' /\ BothInv' /\ DownInv' /\ UpInv'
<1>1. /\ Live /\ down # <<>> /\ down' = Tail(down) /\ Head(down).type = "ccs"
      /\ UNCHANGED <<client, up, machine, cut>>
  BY DEF SkipChangeCipherSpec, Reading, Live, Waiting, Shaking, NextRecord
<1>2. PICK z, y : /\ Leads(Flight, Posts, z, Tail(down), y) /\ Reaches(y)
                  /\ z = ClientView
  BY <1>1, NextIs DEF HelloTo, SealedTo, Bad
<1>3. /\ Flight' = Flight /\ (Accepted' <=> Accepted) /\ (Excused' <=> Excused)
      /\ Posts' = Posts /\ ServerView' = ServerView
      /\ ServerAwait' = ServerAwait /\ (Listening' <=> Listening)
  BY <1>1, ServerStill
<1>4. ClientView' = ClientView /\ (Live' <=> Live)
  BY <1>1, <1>3 DEF client, ClientView, Live, Waiting, Shaking, Read, Past
<1>5. DownInv'
  BY <1>1, <1>2, <1>3, <1>4 DEF DownInv, Reaches
<1>6. ClientInv'
  BY <1>1, <1>3, ServerStill DEF AgreeInv, client, ClientInv, ShakingInv, Past, Read,
     Waiting, Shaking, Answer
<1>7. BothInv'
  BY <1>1, <1>3 DEF AgreeInv, client, machine, BothInv
<1>8. UpInv'
  <2>1. ClientAwait' = ClientAwait /\ Inners' = Inners
    BY <1>1 DEF client, ClientAwait, Inners
  <2> QED BY <1>1, <1>3, <2>1 DEF AgreeInv, UpInv
<1> QED BY <1>5, <1>6, <1>7, <1>8

LEMMA DownStill ==
  ASSUME AgreeInv, UNCHANGED <<machine, cut, down>>, Live' => Live,
         Live => ClientView' = ClientView
  PROVE  DownInv'
BY ServerStill DEF AgreeInv, DownInv, Reaches

LEMMA DownRead ==
  ASSUME AgreeInv, UNCHANGED <<machine, cut>>, down' = Tail(down), NEW y,
         Leads(Flight, Posts, ClientView', Tail(down), y), Reaches(y)
  PROVE  DownInv'
BY ServerStill DEF AgreeInv, DownInv, Reaches

LEMMA UpStill ==
  ASSUME AgreeInv, UNCHANGED <<machine, cut, up, closed>>, ClientAwait' = ClientAwait
  PROVE  UpInv'
<1>1. Inners' = Inners
  BY DEF Inners
<1> QED BY <1>1, ServerStill DEF AgreeInv, UpInv

LEMMA FlightLasts ==
  ASSUME AgreeInv, pc = "flight"
  PROVE  /\ Read < Total(Flight) /\ Read \in Nat
         /\ ClientView = View(1, Read, readKey, 0, 0)
         /\ ClientView.hello = 1 /\ ClientView.flight = Read /\ ClientView.key = readKey
         /\ ClientView.blocks = 0 /\ ClientView.over = 0
<1>1. /\ Shaking /\ Past \in 0 .. Len(Flight) /\ Past # Len(Flight)
      /\ Len(buffer) < Parts /\ IsSequence(buffer) /\ Len(Flight) \in Nat
  BY FlightIs, LengthIs DEF AgreeInv, ClientInv, ShakingInv, Shaking
<1>2. Past \in Nat /\ Past < Len(Flight) /\ Len(buffer) \in Nat /\ Parts \in Nat
  BY <1>1, LengthIs, SizesAssumption
<1>3. At(Past) \in Nat /\ At(Past) + Parts <= At(Len(Flight)) /\ At(Len(Flight)) \in Nat
  BY <1>1, <1>2, AtIs
<1>4. Read < Total(Flight) /\ Read \in Nat
  BY <1>1, <1>2, <1>3 DEF Read, Total
<1>5. Read # Total(Flight)
  BY <1>4, FlightIs, TotalIs
<1> QED BY <1>1, <1>4, <1>5, ClientViewIs

LEMMA PlainAlertAgrees ==
  ASSUME AgreeInv, PlainAlert
  PROVE  ClientInv' /\ BothInv' /\ DownInv' /\ UpInv'
<1>1. /\ Live /\ down # <<>> /\ Head(down).type = "alert"
      /\ pc' = "failed" \/ (pc = "open" /\ pc' = "ended")
      /\ UNCHANGED <<machine, cut, closed, writeKey, transcript, written, got,
                     readBuffer, up>>
  BY DEF PlainAlert, AfterAlert, Reading, Live, Waiting, Shaking, NextRecord
<1>2. Excused
  BY <1>1, NextIs DEF HelloTo, SealedTo
<1> QED BY <1>1, <1>2, ClientIsDone

LEMMA UnreadableAgrees ==
  ASSUME AgreeInv, Unreadable
  PROVE  ClientInv' /\ BothInv' /\ DownInv' /\ UpInv'
<1>1. /\ Live /\ down # <<>> /\ pc \in {"flight", "open"} /\ pc' = "failed"
      /\ \/ Head(down).type = "handshake"
         \/ Head(down).type = "data" /\ Head(down).key # readKey
      /\ UNCHANGED <<machine, cut, closed, writeKey, transcript, written, got,
                     readBuffer, up>>
  BY DEF Unreadable, Reading, Live, Waiting, Shaking, NextRecord, Fail
<1>2. ClientView.hello = 1 /\ ClientView.key = readKey
  BY <1>1, ClientViewIs, FlightLasts DEF Shaking
<1>3. Excused
  BY <1>1, <1>2, NextIs DEF HelloTo, SealedTo
<1> QED BY <1>1, <1>3, ClientIsDone

LEMMA ReadAlertAgrees ==
  ASSUME AgreeInv, ReadAlert
  PROVE  ClientInv' /\ BothInv' /\ DownInv' /\ UpInv'
<1>1. /\ Live /\ down # <<>> /\ pc \in {"server hello", "flight", "open"}
      /\ Head(down).type = "data" /\ Head(down).inner = "alert"
      /\ pc' = AfterAlert
      /\ UNCHANGED <<machine, cut, closed, writeKey, transcript, written, got,
                     readBuffer, up>>
  BY DEF ReadAlert, Open, Reading, Live, Waiting, Shaking, NextRecord
<1>2. CASE pc = "open" /\ Head(down).body = CloseNotify
  <2>1. pc' = "ended"
    BY <1>1, <1>2 DEF AfterAlert, CloseNotify
  <2> QED BY <1>1, <1>2, <2>1, ClientIsDone
<1>3. CASE ~(pc = "open" /\ Head(down).body = CloseNotify)
  <2>1. pc' = "failed"
    BY <1>1, <1>3 DEF AfterAlert, CloseNotify
  <2>2. ASSUME NEW z, SealedTo(Flight, Posts, ClientView, Head(down), z)
        PROVE  FALSE
    <3>1. NotifyTo(Flight, ClientView, Head(down), z)
      BY <1>1, <2>2 DEF SealedTo, FlightTo, PostTo, DataTo
    <3>2. /\ ClientView.hello # 0 /\ ClientView.flight = Total(Flight)
          /\ Head(down).body = CloseNotify
      BY <3>1 DEF NotifyTo
    <3>3. pc = "flight"
      <4>1. pc = "server hello" => Waiting
        BY DEF Waiting
      <4>2. Waiting => ClientView.hello = 0
        BY ClientViewIs
      <4> QED BY <1>1, <1>3, <3>2, <4>1, <4>2
    <3>4. Read < Total(Flight) /\ Read \in Nat /\ ClientView.flight = Read
      BY <3>3, FlightLasts
    <3>5. Total(Flight) \in Nat
      BY FlightIs, TotalIs
    <3> QED BY <3>2, <3>4, <3>5
  <2>3. Excused
    BY <1>1, <2>2, NextIs DEF HelloTo
  <2> QED BY <1>1, <2>1, <2>3, ClientIsDone
<1> QED BY <1>2, <1>3

-----------------------------------------------------------------------------
(* The handshake.                                                           *)
LEMMA SendHelloAgrees ==
  ASSUME AgreeInv, SendHello
  PROVE  ClientInv' /\ BothInv' /\ DownInv' /\ UpInv'
<1>1. /\ pc = "start" /\ Waiting
      /\ UNCHANGED <<machine, cut, down, closed, writeKey, written, got, buffer,
                     readBuffer>>
  BY DEF SendHello, Waiting
<1>2. writeKey.epoch = "none" /\ ~closed /\ ~Accepted /\ ~notified
  BY <1>1, NoKeyBefore
<1>3. CASE Gone /\ pc' = "failed" /\ UNCHANGED <<up, transcript>>
  <2>1. Excused
    BY <1>2, <1>3, EndIsKnown
  <2> QED BY <1>1, <1>3, <2>1, ClientIsDone
<1>4. CASE /\ up' = Append(up, Plain("handshake", Units("ClientHello", <<>>)))
           /\ transcript' = <<"ClientHello">> /\ pc' = "server hello"
  <2>1. Waiting' /\ ~Shaking' /\ Live /\ ~Shaking
    BY <1>1, <1>4 DEF Waiting, Shaking, Live
  <2>2. transcript' # <<>> /\ transcript = <<>>
    BY <1>1, <1>4 DEF AgreeInv, ClientInv
  <2>3. ClientInv'
    BY <1>1, <1>2, <1>4, <2>1, <2>2 DEF AgreeInv, ClientInv, Answer
  <2>4. BothInv'
    BY <1>1, <1>4, ServerStill DEF AgreeInv, BothInv, machine
  <2>5. DownInv'
    <3>1. ClientView' = ClientView
      BY <1>1, <2>1 DEF ClientView
    <3> QED BY <1>1, <2>1, <3>1, DownStill
  <2>6. UpInv'
    <3> DEFINE r == Plain("handshake", Units("ClientHello", <<>>))
               x == Await("hello", NoKey)
               y == Await("finished", Key("handshake", Hellos))
    <3>1. ClientAwait = x /\ ClientAwait' = y /\ Inners' = Inners
      BY <1>1, <1>2, <2>2 DEF ClientAwait, Inners
    <3>2. Expects(Flight, Inners, x, r, y)
      BY AwaitIs DEF Expects, Plain, Record
    <3> HIDE DEF r, x, y
    <3>3. IsSequence(up) /\ up' = Append(up, r)
      BY <1>4 DEF AgreeInv, KeyInv, r
    <3>4. Listening => Meets(Flight, Inners, ServerAwait, Append(up, r), y)
      BY <3>1, <3>2, <3>3, MeetsOn DEF AgreeInv, UpInv
    <3> QED BY <1>1, <3>1, <3>3, <3>4, ServerStill DEF UpInv
  <2> QED BY <2>3, <2>4, <2>5, <2>6
<1> QED BY <1>3, <1>4 DEF SendHello, Fail

LEMMA AppendedIs ==
  ASSUME NEW M, NEW s \in Seq(M), NEW e \in M
  PROVE  /\ Append(s, e) \in Seq(M) /\ Len(Append(s, e)) = Len(s) + 1
         /\ \A i \in 1 .. Len(s) : Append(s, e)[i] = s[i]
         /\ Append(s, e)[Len(s) + 1] = e
BY AppendProperties

LEMMA PairIs ==
  ASSUME NEW M, NEW s \in Seq(M), Len(s) = 1, NEW t \in Seq(M), Len(t) = 2, s[1] = t[1]
  PROVE  Append(s, t[2]) = t
<1> DEFINE e == t[2]
<1>1. e \in M
  BY ElementOfSeq
<1> HIDE DEF e
<1>2. /\ Append(s, e) \in Seq(M) /\ Len(Append(s, e)) = Len(s) + 1
      /\ \A i \in 1 .. Len(s) : Append(s, e)[i] = s[i]
      /\ Append(s, e)[Len(s) + 1] = e
  BY <1>1, AppendedIs
<1> DEFINE r == Append(s, e)
<1> HIDE DEF r
<1>3. r \in Seq(M) /\ Len(r) = 2 /\ r[1] = s[1] /\ r[2] = e
  BY <1>2 DEF r
<1>4. \A i \in 1 .. 2 : r[i] = t[i]
  BY <1>3 DEF e
<1>5. r = t
  BY <1>3, <1>4, SeqEqual
<1> QED BY <1>5 DEF r, e

LEMMA HellosAre == Append(<<"ClientHello">>, "ServerHello") = Hellos /\ Hellos # <<>>
<1> DEFINE M == {"ClientHello", "ServerHello"}
           s == <<"ClientHello">>
           e == "ServerHello"
<1>1. s \in Seq(M) /\ Len(s) = 1 /\ s[1] = "ClientHello"
  OBVIOUS
<1>2. /\ Hellos \in Seq(M) /\ Len(Hellos) = 2
      /\ Hellos[1] = "ClientHello" /\ Hellos[2] = e
  BY DEF Hellos
<1>3. Append(s, e) = Hellos
  <2> HIDE DEF M, s, e
  <2>1. s[1] = Hellos[1]
    BY <1>1, <1>2
  <2>2. Append(s, Hellos[2]) = Hellos
    BY <1>1, <1>2, <2>1, PairIs
  <2> QED BY <1>2, <2>2
<1>4. Hellos # <<>>
  BY HellosIs, EmptyIs
<1> QED BY <1>3, <1>4

LEMMA ReadServerHelloAgrees ==
  ASSUME AgreeInv, ReadServerHello
  PROVE  ClientInv' /\ BothInv' /\ DownInv' /\ UpInv'
<1>1. /\ pc = "server hello" /\ Waiting /\ Live /\ down # <<>> /\ down' = Tail(down)
      /\ UNCHANGED <<machine, cut, closed, presented, certVerified, writeKey, written,
                     got, buffer, readBuffer, up>>
  BY DEF ReadServerHello, NextRecord, Waiting, Live
<1>2. ClientView.hello = 0
  BY <1>1, ClientViewIs
<1>3. CASE /\ pc' = "failed" /\ transcript' = transcript
           /\ \/ Head(down).type = "handshake" /\ Len(Head(down).body) < Parts
              \/ Head(down).type = "data"
  <2>1. Parts \in Nat
    BY SizesAssumption
  <2>2. ASSUME Head(down).type = "data" PROVE Excused
    BY <1>1, <1>2, <2>2, NextIs DEF HelloTo, SealedTo, FlightTo, PostTo, DataTo, NotifyTo
  <2>3. ASSUME Head(down).type = "handshake", Len(Head(down).body) < Parts, ~Excused
        PROVE  FALSE
    <3>1. PICK z : HelloTo(ClientView, Head(down), z)
      BY <1>1, <2>3, NextIs DEF SealedTo
    <3>2. Len(Head(down).body) >= Parts /\ Len(Head(down).body) < Parts
      BY <2>3, <3>1 DEF HelloTo
    <3> QED BY <1>3, <2>1, <2>3, <3>2
  <2> QED BY <1>1, <1>3, <2>2, <2>3, ClientIsDone
<1>4. CASE /\ pc' = "flight" /\ transcript' = Append(transcript, "ServerHello")
           /\ readKey' = Key("handshake", transcript')
           /\ Head(down).type = "handshake" /\ Len(Head(down).body) >= Parts
  <2>1. transcript' = Hellos /\ transcript' # <<>> /\ transcript # <<>>
    BY <1>1, <1>4, HellosAre DEF AgreeInv, ClientInv
  <2>2. buffer = <<>> /\ got = <<>> /\ readBuffer = <<>> /\ written = 0
    BY <1>1 DEF AgreeInv, ClientInv
  <2>3. /\ Past' = 0 /\ Read' = 0 /\ At(0) = 0 /\ Parts \in Nat /\ Parts > 0
        /\ Len(buffer') = 0 /\ buffer' = <<>>
    <3>1. Len(transcript') = 2 /\ Len(buffer') = 0 /\ buffer' = <<>>
      BY <1>1, <2>1, <2>2, HellosIs, EmptyIs
    <3>2. Parts \in Nat /\ Parts > 0 /\ At(0) = 0
      BY AtIs
    <3>3. Past' = 0
      BY <3>1 DEF Past
    <3>4. Read' = At(Past)' + Len(buffer')
      BY DEF Read
    <3> QED BY <3>1, <3>2, <3>3, <3>4
  <2>4. /\ Flight' = Flight /\ CertificateAt' = CertificateAt /\ CertificateAt \in {2, 3}
        /\ Len(Flight) \in Nat /\ Len(Flight) > 0 /\ IsSequence(Flight)
        /\ Total(Flight) \in Nat /\ Total(Flight) > 0
    <3>1. Len(Flight) \in Nat /\ 0 < Len(Flight) /\ IsSequence(Flight) /\ CertificateAt \in {2, 3}
      <4>1. CertificateAt \in {2, 3} /\ Len(Flight) = CertificateAt + 2 /\ IsSequence(Flight)
        BY FlightIs
      <4> QED BY <4>1
    <3>2. At(0) + Parts <= At(Len(Flight)) /\ At(Len(Flight)) \in Nat
      BY <3>1, AtIs
    <3>3. Flight' = Flight /\ CertificateAt' = CertificateAt
      BY <1>1, ServerStill
    <3>4. At(Len(Flight)) > 0
      BY <2>3, <3>2
    <3> QED BY <3>1, <3>2, <3>3, <3>4 DEF Total
  <2>5. ShakingInv'
    <3>1. SubSeq(Flight, 1, 0) = <<>> /\ SubSeq(AllOf(Flight), 1, 0) = <<>>
      BY SubSeqEmpty
    <3>2. Hellos \o <<>> = Hellos
      BY HellosIs, ConcatEmptySeq DEF IsSequence
    <3>3. /\ Past' \in 0 .. Len(Flight') /\ transcript' = Hellos \o SubSeq(Flight', 1, Past')
          /\ IsSequence(buffer') /\ Read' <= Total(Flight')
      <4>1. Past' \in 0 .. Len(Flight')
        BY <2>3, <2>4
      <4>2. transcript' = Hellos \o SubSeq(Flight', 1, Past')
        BY <2>1, <2>3, <2>4, <3>1, <3>2
      <4>3. IsSequence(buffer') /\ Read' <= Total(Flight')
        BY <2>3, <2>4, EmptyIs
      <4> QED BY <4>1, <4>2, <4>3
    <3>4. buffer' = SubSeq(AllOf(Flight'), At(Past)' + 1, Read')
      BY <2>3, <2>4, <3>1
    <3>5. /\ Len(buffer') < Parts /\ Past' # Len(Flight') /\ pc' # "finish"
          /\ ~(Past' >= CertificateAt')
      BY <1>4, <2>3, <2>4
    <3> QED BY <3>3, <3>4, <3>5 DEF ShakingInv
  <2>6. ~Waiting' /\ Shaking' /\ Live'
    BY <1>4 DEF Waiting, Shaking, Live
  <2>7. ClientInv'
    BY <1>1, <1>4, <2>1, <2>2, <2>5, <2>6 DEF AgreeInv, ClientInv, Answer
  <2>8. BothInv'
    BY <1>1, <1>4, ServerStill DEF AgreeInv, BothInv, machine
  <2>9. DownInv'
    <3>1. PICK z, y : /\ Leads(Flight, Posts, z, Tail(down), y) /\ Reaches(y)
                      /\ HelloTo(ClientView, Head(down), z)
      <4>1. ~Bad(ClientView, Head(down))
        <5>1. Parts \in Nat /\ Len(Head(down).body) >= Parts
          BY <1>4, <2>3
        <5> QED BY <1>2, <1>4, <2>3, <5>1 DEF Bad
      <4> QED BY <1>1, <1>4, <4>1, NextIs DEF SealedTo
    <3>2. ClientView = View(0, 0, NoKey, 0, 0)
      BY <1>1, ClientViewIs
    <3>3. z = View(1, 0, Key("handshake", Hellos), 0, 0)
      BY <3>1, <3>2, ViewIs DEF HelloTo
    <3>4. ClientView' = View(1, 0, Key("handshake", Hellos), 0, 0)
      <4>1. readKey' = Key("handshake", Hellos) /\ Read' # Total(Flight')
        <5>1. 0 # Total(Flight)
          BY <2>4
        <5> QED BY <1>4, <2>1, <2>3, <2>4, <5>1
      <4> QED BY <2>3, <2>6, <4>1 DEF ClientView
    <3> QED BY <1>1, <3>1, <3>3, <3>4, DownRead
  <2>10. UpInv'
    <3>1. ClientAwait' = ClientAwait
      BY <1>1, <2>1 DEF ClientAwait
    <3> QED BY <1>1, <3>1, UpStill
  <2> QED BY <2>7, <2>8, <2>9, <2>10
<1> QED BY <1>3, <1>4 DEF ReadServerHello, NextRecord, Fail

LEMMA ShakingOn ==
  ASSUME AgreeInv, Shaking, Shaking',
         UNCHANGED <<machine, cut, up, closed, writeKey, written, got, readBuffer>>,
         ShakingInv', transcript' # <<>>, transcript # <<>>
  PROVE  ClientInv' /\ BothInv' /\ UpInv'
<1>1. ~Waiting' /\ ~Waiting /\ pc \notin {"open", "ended", "failed", "left"}
      /\ pc' \notin {"start", "server hello", "open", "ended", "failed", "left"}
      /\ pc' \in {"flight", "messages", "finish"}
  BY DEF Waiting, Shaking
<1>2. ClientInv'
  BY <1>1 DEF AgreeInv, ClientInv, Answer
<1>3. BothInv'
  BY <1>1, ServerStill DEF AgreeInv, BothInv, machine
<1>4. ClientAwait' = ClientAwait
  BY DEF ClientAwait
<1> QED BY <1>2, <1>3, <1>4, UpStill

LEMMA ReadFlightAgrees ==
  ASSUME AgreeInv, ReadFlight
  PROVE  ClientInv' /\ BothInv' /\ DownInv' /\ UpInv'
<1>1. /\ pc = "flight" /\ Shaking /\ Live /\ down # <<>> /\ down' = Tail(down)
      /\ Head(down).type = "data" /\ Head(down).key = readKey
      /\ Head(down).inner \in {"handshake", "data"}
      /\ readKey' = Used(readKey) /\ buffer' = buffer \o Head(down).body
      /\ pc' = "messages" /\ Shaking' /\ Live'
      /\ UNCHANGED <<machine, cut, closed, presented, certVerified, writeKey, written,
                     got, transcript, readBuffer, up>>
  BY DEF ReadFlight, Open, Opened, NextRecord, Shaking, Live
<1>2. /\ Read < Total(Flight) /\ Read \in Nat /\ ClientView = View(1, Read, readKey, 0, 0)
      /\ Total(Flight) \in Nat /\ IsSequence(Flight)
  BY <1>1, FlightLasts, FlightIs, TotalIs
<1>3. /\ ClientView.hello = 1 /\ ClientView.flight = Read /\ ClientView.key = readKey
      /\ ClientView.blocks = 0 /\ ClientView.over = 0
  BY <1>1, FlightLasts
<1>4. PICK z, y : /\ Leads(Flight, Posts, z, Tail(down), y) /\ Reaches(y)
                  /\ FlightTo(Flight, ClientView, Head(down), z)
  <2>1. ~Bad(ClientView, Head(down))
    BY <1>1, <1>3 DEF Bad
  <2>2. ASSUME NEW z, SealedTo(Flight, Posts, ClientView, Head(down), z)
        PROVE  FlightTo(Flight, ClientView, Head(down), z)
    <3>1. ClientView.flight # Total(Flight)
      BY <1>2, <1>3
    <3> QED BY <2>2, <3>1 DEF SealedTo, PostTo, DataTo, NotifyTo
  <2> QED BY <1>1, <2>1, <2>2, NextIs DEF HelloTo
<1>5. PICK n \in Nat \ {0} :
         /\ Read + n <= Total(Flight)
         /\ Head(down).body = SubSeq(AllOf(Flight), Read + 1, Read + n)
         /\ z = View(1, Read + n,
                     IF Read + n = Total(Flight) THEN AppKey(Flight) ELSE Used(readKey),
                     0, 0)
  BY <1>3, <1>4 DEF FlightTo
<1>6. /\ Past \in Nat /\ Past \in 0 .. Len(Flight) /\ IsSequence(buffer)
      /\ Len(buffer) \in Nat /\ At(Past) \in Nat /\ Read = At(Past) + Len(buffer)
  <2>1. Past \in 0 .. Len(Flight) /\ Len(Flight) \in Nat /\ IsSequence(buffer)
    BY <1>1, FlightIs, LengthIs DEF AgreeInv, ClientInv, ShakingInv
  <2>2. Past \in Nat /\ Len(buffer) \in Nat
    BY <2>1, LengthIs
  <2>3. At(Past) \in Nat
    BY <2>2, AtIs
  <2> QED BY <2>1, <2>2, <2>3 DEF Read
<1>7. IsSequence(AllOf(Flight)) /\ Len(AllOf(Flight)) = Total(Flight)
  BY <1>2, UnitsAre DEF AllOf, Total, At
<1>8. /\ buffer' = SubSeq(AllOf(Flight), At(Past) + 1, Read + n)
      /\ IsSequence(buffer') /\ Len(buffer') = Len(buffer) + n
  <2>1. /\ Read \in At(Past) .. Total(Flight) /\ Read + n \in Read .. Total(Flight)
        /\ Read + n \in At(Past) .. Total(Flight)
        /\ Read + n - At(Past) = Len(buffer) + n
    <3>1. n \in Nat /\ Read + n <= Total(Flight)
      BY <1>5
    <3> QED BY <1>2, <1>6, <3>1
  <2>2. SubSeq(AllOf(Flight), At(Past) + 1, Read) \o SubSeq(AllOf(Flight), Read + 1, Read + n)
          = SubSeq(AllOf(Flight), At(Past) + 1, Read + n)
    <3> DEFINE all == AllOf(Flight)
    <3>1. IsSequence(all) /\ Read \in At(Past) .. Len(all) /\ Read + n \in Read .. Len(all)
      BY <1>7, <2>1
    <3> HIDE DEF all
    <3>2. SubSeq(all, At(Past) + 1, Read) \o SubSeq(all, Read + 1, Read + n)
            = SubSeq(all, At(Past) + 1, Read + n)
      BY <1>6, <3>1, PartsJoin
    <3> QED BY <3>2 DEF all
  <2>3. /\ IsSequence(SubSeq(AllOf(Flight), At(Past) + 1, Read + n))
        /\ Len(SubSeq(AllOf(Flight), At(Past) + 1, Read + n)) = Read + n - At(Past)
    <3> DEFINE all == AllOf(Flight)  from == At(Past)  to == Read + n
    <3>1. IsSequence(all) /\ from \in Nat /\ to \in from .. Len(all)
      BY <1>6, <1>7, <2>1
    <3> HIDE DEF all, from, to
    <3>2. IsSequence(SubSeq(all, from + 1, to)) /\ Len(SubSeq(all, from + 1, to)) = to - from
      BY <3>1, PartIs
    <3>3. to - from = Read + n - At(Past)
      <4>1. \A p, q, r \in Nat : (p + q) - r = p + q - r
        OBVIOUS
      <4> QED BY <1>2, <1>6, <4>1 DEF to, from
    <3> QED BY <3>2, <3>3 DEF all, from, to
  <2>4. buffer' = buffer \o Head(down).body
        /\ Head(down).body = SubSeq(AllOf(Flight), Read + 1, Read + n)
    BY <1>1, <1>5
  <2>5. buffer = SubSeq(AllOf(Flight), At(Past) + 1, Read)
    BY <1>1 DEF AgreeInv, ClientInv, ShakingInv
  <2>6. buffer' = SubSeq(AllOf(Flight), At(Past) + 1, Read + n)
    BY <2>2, <2>4, <2>5
  <2> QED BY <2>1, <2>3, <2>6
<1>9. /\ Past' = Past /\ Read' = Read + n /\ Read + n <= Total(Flight)
      /\ Flight' = Flight /\ CertificateAt' = CertificateAt
  BY <1>1, <1>2, <1>5, <1>6, <1>8, ServerStill DEF Past, Read
<1>10. ShakingInv'
  BY <1>1, <1>8, <1>9 DEF AgreeInv, ClientInv, ShakingInv
<1>11. transcript # <<>>
  BY <1>1 DEF AgreeInv, ClientInv
<1>12. ClientInv' /\ BothInv' /\ UpInv'
  BY <1>1, <1>10, <1>11, ShakingOn
<1>13. DownInv'
  <2>1. ClientView' = z
    <3>1. ClientView' = View(1, Read', IF Read' = Total(Flight') THEN AppKey(Flight')
                                      ELSE readKey', 0, 0)
      BY <1>1 DEF ClientView, Shaking, Waiting
    <3> QED BY <1>1, <1>5, <1>9, <3>1
  <2> QED BY <1>1, <1>4, <2>1, DownRead
<1> QED BY <1>12, <1>13

LEMMA NeedMoreAgrees ==
  ASSUME AgreeInv, NeedMore
  PROVE  ClientInv' /\ BothInv' /\ DownInv' /\ UpInv'
<1>1. /\ pc = "messages" /\ Shaking /\ Shaking' /\ Live /\ Live' /\ pc' = "flight"
      /\ ~(Len(buffer) >= Parts) /\ ~Waiting /\ ~Waiting'
      /\ UNCHANGED <<machine, cut, closed, presented, certVerified, writeKey, written,
                     got, transcript, buffer, readKey, readBuffer, up, down>>
  BY DEF NeedMore, Complete, Shaking, Live, Waiting
<1>2. Past' = Past /\ Read' = Read /\ Flight' = Flight /\ CertificateAt' = CertificateAt
  BY <1>1, ServerStill DEF Past, Read
<1>3. ShakingInv'
  <2>1. ShakingInv
    BY <1>1 DEF AgreeInv, ClientInv
  <2>2. Len(buffer) < Parts
    <3>1. Len(buffer) \in Nat /\ Parts \in Nat
      BY <2>1, LengthIs, SizesAssumption DEF ShakingInv
    <3> QED BY <1>1, <3>1
  <2> QED BY <1>1, <1>2, <2>1, <2>2 DEF ShakingInv
<1>4. ClientView' = ClientView
  BY <1>1, <1>2 DEF ClientView
<1>5. transcript # <<>>
  BY <1>1 DEF AgreeInv, ClientInv
<1>6. ClientInv' /\ BothInv' /\ UpInv'
  BY <1>1, <1>3, <1>5, ShakingOn
<1> QED BY <1>1, <1>4, <1>6, DownStill

LEMMA FlightAt ==
  ASSUME NEW i \in 1 .. Len(Flight)
  PROVE  /\ Flight[i] = "Certificate" <=> i = CertificateAt
         /\ Flight[i] = "CertificateVerify" <=> i = CertificateAt + 1
         /\ Flight[i] = "Finished" <=> i = Len(Flight)
<1>1. CertificateAt \in Nat /\ Len(Flight) = CertificateAt + 2
  <2>1. CertificateAt \in {2, 3} /\ Len(Flight) = CertificateAt + 2
    BY FlightIs
  <2> QED BY <2>1
<1>2. CASE i \in 1 .. CertificateAt - 1
  <2>1. Flight[i] \in {"EncryptedExtensions", "CertificateRequest"}
    BY <1>2, FlightIs
  <2>2. i # CertificateAt /\ i # CertificateAt + 1 /\ i # Len(Flight)
    BY <1>1, <1>2
  <2> QED BY <2>1, <2>2
<1>3. CASE i = CertificateAt
  <2>1. i # CertificateAt + 1 /\ i # Len(Flight)
    BY <1>1, <1>3
  <2> QED BY <1>3, <2>1, FlightIs
<1>4. CASE i = CertificateAt + 1
  <2>1. i # CertificateAt /\ i # Len(Flight)
    BY <1>1, <1>4
  <2> QED BY <1>4, <2>1, FlightIs
<1>5. CASE i = CertificateAt + 2
  <2>1. i # CertificateAt /\ i # CertificateAt + 1 /\ i = Len(Flight)
    BY <1>1, <1>5
  <2> QED BY <1>5, <2>1, FlightIs
<1> QED BY <1>1, <1>2, <1>3, <1>4, <1>5

LEMMA FrontIs ==
  ASSUME AgreeInv, pc = "messages", Complete
  PROVE  /\ Past \in Nat /\ Past < Len(Flight) /\ Front.m = Flight[Past + 1]
         /\ Front.m \in {"CertificateVerify", "Finished"} => Front.over = transcript
<1>1. /\ Past \in 0 .. Len(Flight) /\ Past # Len(Flight) /\ IsSequence(buffer)
      /\ Read <= Total(Flight)
      /\ transcript = Hellos \o SubSeq(Flight, 1, Past)
  BY DEF AgreeInv, ClientInv, ShakingInv, Shaking
<1>2. buffer = SubSeq(AllOf(Flight), At(Past) + 1, Read)
  BY DEF AgreeInv, ClientInv, ShakingInv, Shaking
<1>3. IsSequence(Flight) /\ Len(Flight) \in Nat /\ Len(buffer) \in Nat
  BY <1>1, FlightIs, LengthIs
<1>4. Past \in Nat /\ Past < Len(Flight)
  BY <1>1, <1>3
<1>5. /\ At(Past) \in Nat /\ At(Past) + Parts <= At(Len(Flight)) /\ At(Past) \div Parts = Past
      /\ At(Len(Flight)) \in Nat /\ Parts \in Nat /\ Parts > 0
  BY <1>3, <1>4, AtIs
<1>6. Len(buffer) >= Parts /\ Read = At(Past) + Len(buffer)
  BY DEF Complete, Read
<1> DEFINE all == AllOf(Flight)
           k == At(Past) + 1
<1>7. IsSequence(all) /\ Len(all) = At(Len(Flight))
  BY <1>3, UnitsAre DEF AllOf, At
<1>8. Read \in At(Past) .. Len(all) /\ 1 \in 1 .. Read - At(Past)
  BY <1>1, <1>3, <1>5, <1>6, <1>7 DEF Total
<1>9. Front = all[k]
  <2>1. SubSeq(all, At(Past) + 1, Read)[1] = all[At(Past) + 1]
    <3> HIDE DEF all
    <3> QED BY <1>5, <1>7, <1>8, PartIs
  <2> QED BY <1>2, <2>1 DEF Front
<1>10. k \in 1 .. At(Len(Flight)) /\ (k - 1) \div Parts + 1 = Past + 1
  <2>1. k - 1 = At(Past)
    BY <1>5
  <2>2. k \in 1 .. At(Len(Flight))
    BY <1>5
  <2> HIDE DEF k
  <2> QED BY <1>5, <2>1, <2>2
<1> DEFINE i == Past + 1
<1>11. k \in 1 .. Parts * Len(Flight) /\ i = (k - 1) \div Parts + 1 /\ i - 1 = Past
  BY <1>4, <1>10 DEF At
<1> HIDE DEF all, k, i
<1>12. /\ AllOf(Flight)[k].m = Flight[i]
       /\ AllOf(Flight)[k].over = IF Flight[i] \in {"CertificateVerify", "Finished"}
                                  THEN Hellos \o SubSeq(Flight, 1, i - 1) ELSE <<>>
  BY <1>3, <1>11, UnitIs DEF AllOf
<1>13. /\ Front.m = Flight[i]
       /\ Front.m \in {"CertificateVerify", "Finished"} =>
            Front.over = Hellos \o SubSeq(Flight, 1, i - 1)
  BY <1>9, <1>12 DEF all
<1>14. Front.m \in {"CertificateVerify", "Finished"} => Front.over = transcript
  BY <1>1, <1>11, <1>13
<1> QED BY <1>4, <1>13, <1>14 DEF i

LEMMA NextMessage ==
  ASSUME NEW fl, IsSequence(fl), NEW p \in Nat, p < Len(fl)
  PROVE  Append(Hellos \o SubSeq(fl, 1, p), fl[p + 1]) = Hellos \o SubSeq(fl, 1, p + 1)
<1>1. PICK S : fl \in Seq(S)
  BY DEF IsSequence
<1> DEFINE T == S \cup {"ClientHello", "ServerHello"}
<1>2. fl \in Seq(T) /\ Hellos \in Seq(T) /\ Len(fl) \in Nat
  BY <1>1 DEF Hellos
<1> HIDE DEF T
<1>3. p + 1 \in 1 .. Len(fl) /\ 1 \in 1 .. Len(fl) /\ p + 1 \in 1 .. Len(fl) /\ p + 1 - 1 = p
  BY <1>2
<1>4. SubSeq(fl, 1, p + 1) = SubSeq(fl, 1, p) \o <<fl[p + 1]>>
  BY <1>2, <1>3, SubSeqRecursiveSecond
<1>5. fl[p + 1] \in T /\ SubSeq(fl, 1, p) \in Seq(T)
  <2>1. fl[p + 1] \in T
    BY <1>2, <1>3, ElementOfSeq
  <2>2. p \in Int /\ 1 \in Int /\ \A i \in 1 .. p : fl[i] \in T
    BY <1>2, <1>3, ElementOfSeq
  <2> QED BY <2>1, <2>2, SubSeqProperties
<1> DEFINE a == SubSeq(fl, 1, p)
           e == fl[p + 1]
<1>6. a \in Seq(T) /\ e \in T /\ SubSeq(fl, 1, p + 1) = a \o <<e>>
  BY <1>4, <1>5
<1> HIDE DEF a, e
<1>7. <<e>> \in Seq(T) /\ Hellos \o a \in Seq(T)
  BY <1>2, <1>6, ConcatProperties
<1>8. Append(Hellos \o a, e) = (Hellos \o a) \o <<e>>
  BY <1>6, <1>7, AppendIsConcat
<1>9. (Hellos \o a) \o <<e>> = Hellos \o (a \o <<e>>)
  <2> DEFINE u == Hellos  v == <<e>>
  <2>1. u \in Seq(T) /\ v \in Seq(T)
    BY <1>2, <1>7, Zenon
  <2> HIDE DEF u, v
  <2>2. (u \o a) \o v = u \o (a \o v)
    BY <1>6, <2>1, ConcatAssociative
  <2> QED BY <2>2 DEF u, v
<1> QED BY <1>6, <1>8, <1>9 DEF a, e

LEMMA ProcessMessageAgrees ==
  ASSUME AgreeInv, ProcessMessage
  PROVE  ClientInv' /\ BothInv' /\ DownInv' /\ UpInv'
<1>1. /\ pc = "messages" /\ Complete /\ Shaking /\ Live /\ buffer' = Behind
      /\ UNCHANGED <<machine, cut, closed, writeKey, written, got, readKey, readBuffer,
                     up, down>>
  BY DEF ProcessMessage, Shaking, Live
<1>2. /\ Past \in Nat /\ Past < Len(Flight) /\ Front.m = Flight[Past + 1]
      /\ Front.m \in {"CertificateVerify", "Finished"} => Front.over = transcript
  BY <1>1, FrontIs
<1>3. /\ IsSequence(Flight) /\ Len(Flight) \in Nat /\ CertificateAt \in Nat
      /\ Len(Flight) = CertificateAt + 2
  <2>1. CertificateAt \in {2, 3} /\ Len(Flight) = CertificateAt + 2 /\ IsSequence(Flight)
    BY FlightIs
  <2> QED BY <2>1
<1> DEFINE i == Past + 1
<1>4. i \in 1 .. Len(Flight) /\ i \in Nat
  BY <1>2, <1>3
<1>5. /\ Front.m = "Certificate" <=> i = CertificateAt
      /\ Front.m = "CertificateVerify" <=> i = CertificateAt + 1
      /\ Front.m = "Finished" <=> i = Len(Flight)
  <2> HIDE DEF i
  <2>1. Front.m = Flight[i]
    BY <1>2 DEF i
  <2> QED BY <1>4, <2>1, FlightAt
<1>6. Past >= CertificateAt => presented /\ certVerified
  BY <1>1 DEF AgreeInv, ClientInv, ShakingInv
<1>7. transcript = Hellos \o SubSeq(Flight, 1, Past) /\ IsSequence(buffer)
      /\ Read <= Total(Flight) /\ transcript # <<>>
  BY <1>1 DEF AgreeInv, ClientInv, ShakingInv
<1>8. buffer = SubSeq(AllOf(Flight), At(Past) + 1, Read)
  BY <1>1 DEF AgreeInv, ClientInv, ShakingInv
<1>9. CASE /\ ~Accepts(Front) /\ pc' = "failed" /\ transcript' = transcript
  <2>1. Front.m = "Certificate" => server.chain # "good"
    BY <1>9 DEF Accepts
  <2>2. Front.m = "CertificateVerify" => FALSE
    <3>1. SUFFICES ASSUME Front.m = "CertificateVerify" PROVE FALSE
      OBVIOUS
    <3>2. Past >= CertificateAt
      BY <1>2, <1>3, <1>5, <3>1
    <3> QED BY <1>2, <1>6, <1>9, <3>1, <3>2 DEF Accepts, Signs
  <2>3. Front.m = "Finished" => FALSE
    <3>1. SUFFICES ASSUME Front.m = "Finished" PROVE FALSE
      OBVIOUS
    <3>2. Past >= CertificateAt
      BY <1>2, <1>3, <1>5, <3>1
    <3> QED BY <1>2, <1>6, <1>9, <3>1, <3>2 DEF Accepts, Signs
  <2>4. server.chain # "good"
    BY <1>9, <2>1, <2>2, <2>3 DEF Accepts
  <2>5. Excused
    BY <2>4, ServersAssumption DEF AgreeInv, ServerInv, Excused
  <2> QED BY <1>1, <1>9, <2>5, ClientIsDone
<1>10. CASE /\ transcript' = Append(transcript, Front.m)
            /\ presented' = (presented \/ Front.m = "Certificate")
            /\ certVerified' = (certVerified \/ Front.m = "Certificate")
            /\ pc' = IF Front.m = "Finished" THEN "finish" ELSE "messages"
  <2>1. Shaking' /\ Live' /\ pc' # "flight" /\ (pc' = "finish" <=> Front.m = "Finished")
        /\ ~Waiting' /\ ~Waiting
    BY <1>1, <1>10 DEF Shaking, Live, Waiting
  <2>2. transcript' = Hellos \o SubSeq(Flight, 1, i)
    BY <1>2, <1>3, <1>7, <1>10, NextMessage
  <2>3. /\ IsSequence(SubSeq(Flight, 1, Past)) /\ Len(SubSeq(Flight, 1, Past)) = Past
        /\ IsSequence(SubSeq(Flight, 1, i)) /\ Len(SubSeq(Flight, 1, i)) = i
    <3>1. 0 \in Nat /\ Past \in 0 .. Len(Flight) /\ i \in 0 .. Len(Flight)
      BY <1>2, <1>3, <1>4
    <3> HIDE DEF i
    <3>2. /\ IsSequence(SubSeq(Flight, 0 + 1, Past)) /\ Len(SubSeq(Flight, 0 + 1, Past)) = Past - 0
          /\ IsSequence(SubSeq(Flight, 0 + 1, i)) /\ Len(SubSeq(Flight, 0 + 1, i)) = i - 0
      BY <1>3, <3>1, PartIs
    <3> QED BY <1>2, <1>4, <3>2
  <2>4. Len(transcript') = i + 2 /\ transcript' # <<>>
    <3> DEFINE some == SubSeq(Flight, 1, i)
    <3>1. IsSequence(some) /\ Len(some) = i /\ transcript' = Hellos \o some
      BY <2>2, <2>3
    <3> HIDE DEF some, i
    <3>2. Len(Hellos \o some) = Len(Hellos) + Len(some)
      BY <3>1, HellosIs, Joined
    <3>3. Len(transcript') = i + 2
      BY <1>4, <3>1, <3>2, HellosIs
    <3> QED BY <1>4, <3>3, EmptyIs
  <2>5. Past' = i
    BY <1>4, <2>4 DEF Past
  <2>6. /\ At(Past) \in Nat /\ At(i) = At(Past) + Parts /\ Parts \in Nat /\ Parts > 0
        /\ Len(buffer) \in Nat /\ Len(buffer) >= Parts /\ Read = At(Past) + Len(buffer)
        /\ At(i) \in Nat
    <3>1. At(Past) \in Nat /\ At(i) = At(Past) + Parts /\ Parts \in Nat /\ Parts > 0
      BY <1>2, AtIs
    <3>2. Len(buffer) \in Nat /\ Len(buffer) >= Parts /\ Read = At(Past) + Len(buffer)
      BY <1>1, <1>7, LengthIs DEF Complete, Read
    <3> QED BY <3>1, <3>2
  <2>7. IsSequence(AllOf(Flight)) /\ Len(AllOf(Flight)) = Total(Flight)
    BY <1>3, UnitsAre DEF AllOf, Total, At
  <2>8. /\ Read \in At(Past) .. Total(Flight) /\ Parts \in 0 .. Read - At(Past)
        /\ Read - At(Past) = Len(buffer) /\ Read \in At(i) .. Total(Flight)
        /\ Read - At(i) = Len(buffer) - Parts
    <3>1. Total(Flight) \in Nat /\ Read <= Total(Flight)
      BY <1>3, <1>7, TotalIs
    <3>2. \A p, n, l, r \in Nat : n <= l /\ p + l <= r =>
            /\ p + l \in p .. r /\ n \in 0 .. (p + l) - p /\ (p + l) - p = l
            /\ p + l \in p + n .. r /\ (p + l) - (p + n) = l - n
      OBVIOUS
    <3> QED BY <2>6, <3>1, <3>2
  <2>9. /\ buffer' = SubSeq(AllOf(Flight), At(i) + 1, Read) /\ IsSequence(buffer')
        /\ Len(buffer') = Len(buffer) - Parts
    <3> DEFINE all == AllOf(Flight)
    <3>1. IsSequence(all) /\ Read \in At(Past) .. Len(all) /\ Read \in At(i) .. Len(all)
          /\ buffer = SubSeq(all, At(Past) + 1, Read)
      BY <1>8, <2>7, <2>8
    <3> DEFINE a == At(Past)
    <3>2. SubSeq(SubSeq(all, a + 1, Read), Parts + 1, Read - a) = SubSeq(all, a + Parts + 1, Read)
      <4>1. a \in Nat /\ Read \in a .. Len(all) /\ Parts \in 0 .. Read - a
        BY <2>6, <2>8, <3>1
      <4> HIDE DEF a, all
      <4> QED BY <3>1, <4>1, PartOfPart
    <3> HIDE DEF all, i
    <3>3. IsSequence(SubSeq(all, At(i) + 1, Read)) /\ Len(SubSeq(all, At(i) + 1, Read)) = Read - At(i)
      BY <2>6, <3>1, PartIs
    <3>4. buffer' = SubSeq(buffer, Parts + 1, Len(buffer))
      BY <1>1 DEF Behind
    <3>5. buffer' = SubSeq(all, At(Past) + Parts + 1, Read)
      BY <2>8, <3>1, <3>2, <3>4
    <3>6. buffer' = SubSeq(all, At(i) + 1, Read)
      BY <2>6, <3>5
    <3> QED BY <2>8, <3>3, <3>6 DEF all
  <2>10. Flight' = Flight /\ CertificateAt' = CertificateAt /\ At(Past)' = At(i)
    BY <1>1, <2>5, ServerStill DEF At
  <2>11. Read' = Read
    <3>1. Read' = At(i) + Len(buffer')
      BY <2>10 DEF Read
    <3> QED BY <2>6, <2>9, <3>1
  <2>12. ShakingInv'
    <3>1. /\ Past' \in 0 .. Len(Flight') /\ transcript' = Hellos \o SubSeq(Flight', 1, Past')
          /\ IsSequence(buffer') /\ Read' <= Total(Flight')
      <4>1. i \in 0 .. Len(Flight)
        BY <1>3, <1>4
      <4> HIDE DEF i
      <4> QED BY <1>7, <2>2, <2>5, <2>9, <2>10, <2>11, <4>1
    <3>2. buffer' = SubSeq(AllOf(Flight'), At(Past)' + 1, Read')
      BY <2>9, <2>10, <2>11
    <3>3. Past' = Len(Flight') <=> pc' = "finish"
      BY <1>5, <2>1, <2>5, <2>10
    <3>4. Past' >= CertificateAt' => presented' /\ certVerified'
      <4>1. SUFFICES ASSUME i >= CertificateAt PROVE presented' /\ certVerified'
        BY <2>5, <2>10
      <4>2. CASE i = CertificateAt
        BY <1>5, <1>10, <4>2
      <4>3. CASE Past >= CertificateAt
        BY <1>6, <1>10, <4>3
      <4> QED BY <1>2, <1>3, <4>1, <4>2, <4>3
    <3> QED BY <2>1, <3>1, <3>2, <3>3, <3>4 DEF ShakingInv
  <2>13. ClientInv' /\ BothInv' /\ UpInv'
    BY <1>1, <1>7, <2>1, <2>4, <2>12, ShakingOn
  <2>14. ClientView' = ClientView
    BY <1>1, <2>1, <2>10, <2>11 DEF ClientView
  <2> QED BY <1>1, <2>1, <2>13, <2>14, DownStill
<1> QED BY <1>9, <1>10 DEF ProcessMessage, Fail

-----------------------------------------------------------------------------
(* The end of the handshake.                                                *)
LEMMA FlightIsRead ==
  ASSUME AgreeInv, pc = "finish"
  PROVE  /\ transcript = Whole(Flight) /\ SubSeq(transcript, 1, 2) = Hellos
         /\ Read = Total(Flight) /\ Total(Flight) \in Nat /\ Total(Flight) > 0
<1>1. /\ Past = Len(Flight) /\ transcript = Hellos \o SubSeq(Flight, 1, Past)
      /\ IsSequence(buffer) /\ Read <= Total(Flight)
  BY DEF AgreeInv, ClientInv, ShakingInv, Shaking
<1>2. PICK S : Flight \in Seq(S)
  BY FlightIs DEF IsSequence
<1>3. transcript = Whole(Flight)
  <2>1. SubSeq(Flight, 1, Len(Flight)) = Flight
    BY <1>2, SubSeqFull
  <2> QED BY <1>1, <2>1 DEF Whole
<1>4. SubSeq(Hellos \o Flight, 1, 2) = Hellos
  <2> DEFINE T == S \cup {"ClientHello", "ServerHello"}
  <2>1. Flight \in Seq(T) /\ Hellos \in Seq(T) /\ Len(Hellos) = 2
    BY <1>2, HellosIs DEF Hellos
  <2> HIDE DEF T
  <2>2. SubSeq(Hellos \o Flight, 1, 2) = SubSeq(Hellos, 1, 2)
    <3>1. 1 \in 1 .. Len(Hellos) /\ 2 \in 1 .. Len(Hellos)
      BY <2>1
    <3> QED BY <2>1, <3>1, SubSeqOfConcat1
  <2>3. SubSeq(Hellos, 1, Len(Hellos)) = Hellos
    BY <2>1, SubSeqFull
  <2> QED BY <2>1, <2>2, <2>3
<1>5. /\ Len(buffer) \in Nat /\ Len(Flight) \in Nat /\ At(Len(Flight)) \in Nat
      /\ 0 < Len(Flight)
  <2>1. CertificateAt \in {2, 3} /\ Len(Flight) = CertificateAt + 2
    BY FlightIs
  <2>2. Len(Flight) \in Nat /\ 0 < Len(Flight)
    BY <2>1
  <2> QED BY <1>1, <2>2, LengthIs, AtIs
<1>6. Read = Total(Flight)
  BY <1>1, <1>5 DEF Read, Total
<1>7. At(0) + Parts <= At(Len(Flight)) /\ At(0) = 0 /\ Parts \in Nat /\ Parts > 0
  BY <1>5, AtIs
<1>8. Total(Flight) > 0
  BY <1>5, <1>7 DEF Total
<1> QED BY <1>3, <1>4, <1>5, <1>6, <1>8 DEF Whole, Total

(* A client that has read all of the flight: the server has sent it.        *)
LEMMA FlightIsSent ==
  ASSUME AgreeInv, Live, ClientView.flight = Total(Flight), Total(Flight) > 0
  PROVE  srvKey.epoch = "application"
<1>1. PICK y : Leads(Flight, Posts, ClientView, down, y) /\ Reaches(y)
  BY DEF AgreeInv, DownInv
<1>2. ClientView.flight <= y.flight /\ y.flight \in Nat /\ y.flight <= ServerView.flight
  BY <1>1, LeadsFrom DEF AgreeInv, Onwards, Before, Reaches, Seen
<1>3. ServerView.flight = Written
  BY ViewIs DEF ServerView
<1>4. Total(Flight) \in Nat
  BY FlightIs, TotalIs
<1>5. srvKey.epoch # "none"
  <2>1. srvKey.epoch = "none" => Written = 0
    BY DEF Written
  <2> QED BY <1>2, <1>3, <1>4, <2>1
<1>6. srvKey.epoch # "handshake"
  <2>1. SUFFICES ASSUME srvKey.epoch = "handshake" PROVE FALSE
    OBVIOUS
  <2>2. Len(todo) \in 1 .. Total(Flight)
    BY <2>1 DEF AgreeInv, ServerInv, FlightToDo
  <2>3. Written = Total(Flight) - Len(todo)
    BY <2>1 DEF Written
  <2>4. Written < Total(Flight) /\ Written \in Nat
    BY <1>4, <2>2, <2>3
  <2> QED BY <1>2, <1>3, <1>4, <2>4
<1> QED BY <1>5, <1>6 DEF AgreeInv, ServerInv

(* A write that fails on a connection that is gone: the server no longer    *)
(* listens, and the key has counted the record.                             *)
LEMMA WriteFails ==
  ASSUME AgreeInv, Gone, Excused, pc' = "failed", transcript # <<>>,
         writeKey'.epoch # "none", srvKey.epoch = "application",
         UNCHANGED <<machine, cut, closed, transcript, written, got, readBuffer>>
  PROVE  ClientInv' /\ BothInv' /\ DownInv' /\ UpInv'
<1>1. /\ Flight' = Flight /\ (Accepted' <=> Accepted) /\ (Excused' <=> Excused)
      /\ (Listening' <=> Listening)
  BY ServerStill
<1>2. ~Waiting' /\ ~Shaking' /\ ~Live'
  BY DEF Waiting, Shaking, Live
<1>3. ClientInv'
  BY <1>2 DEF AgreeInv, ClientInv, Answer
<1>4. BothInv'
  BY <1>1 DEF AgreeInv, BothInv, machine
<1>5. ~Listening
  BY DEF Listening, Gone, AgreeInv, ServerInv
<1>6. UpInv' /\ DownInv'
  BY <1>1, <1>2, <1>5 DEF UpInv, DownInv
<1> QED BY <1>3, <1>4, <1>6

LEMMA TranscriptIs == Whole(Flight) # <<>>
<1>1. IsSequence(Whole(Flight)) /\ Len(Whole(Flight)) = Len(Flight) + 2
      /\ Len(Flight) \in Nat
  BY WholeIs, FlightIs, LengthIs
<1> QED BY <1>1, EmptyIs

LEMMA SendFinishedAgrees ==
  ASSUME AgreeInv, SendFinished
  PROVE  ClientInv' /\ BothInv' /\ DownInv' /\ UpInv'
<1>1. /\ pc = "finish" /\ Shaking /\ Live /\ ~Waiting
      /\ UNCHANGED <<machine, cut, closed, written, got, readBuffer, down>>
  BY DEF SendFinished, Shaking, Live, Waiting
<1>2. writeKey.epoch = "none" /\ ~closed /\ ~Accepted /\ ~notified
  BY <1>1, NoKeyBefore
<1>3. CASE Gone /\ pc' = "failed" /\ UNCHANGED <<up, transcript, writeKey>>
  <2>1. Excused
    BY <1>2, <1>3, EndIsKnown
  <2> QED BY <1>1, <1>3, <2>1, ClientIsDone
<1> DEFINE last == Sealed(FinishedKey, "handshake", Units("ClientFinished", transcript))
<1>4. CASE /\ up' = up \o <<ChangeCipherSpec, last>>
           /\ transcript' = Append(transcript, "ClientFinished")
           /\ readKey' = ApplicationKey /\ writeKey' = ApplicationKey
           /\ pc' = "open" /\ buffer' = <<>>
  <2>1. /\ transcript = Whole(Flight) /\ SubSeq(transcript, 1, 2) = Hellos
        /\ Read = Total(Flight) /\ Total(Flight) \in Nat /\ Total(Flight) > 0
    BY <1>1, FlightIsRead
  <2>2. readKey' = AppKey(Flight) /\ writeKey' = AppKey(Flight)
    BY <1>4, <2>1 DEF ApplicationKey, AppKey
  <2>3. writeKey'.epoch = "application" /\ writeKey'.seq = 0
    BY <2>2, AppKeyIs
  <2>4. ~Waiting' /\ ~Shaking' /\ Live'
    BY <1>4 DEF Waiting, Shaking, Live
  <2>5. transcript' # <<>> /\ transcript # <<>>
    <3>1. IsSequence(transcript) /\ transcript # <<>>
      BY <2>1, WholeIs, TranscriptIs
    <3>2. Len(transcript') = Len(transcript) + 1 /\ Len(transcript) \in Nat
      BY <1>4, <3>1, AppendIs
    <3> QED BY <3>1, <3>2, EmptyIs
  <2>6. got = <<>> /\ readBuffer = <<>> /\ written = 0
    BY <1>1 DEF AgreeInv, ClientInv
  <2>7. ClientInv'
    BY <1>1, <1>2, <1>4, <2>3, <2>4, <2>5, <2>6 DEF AgreeInv, ClientInv, Answer
  <2>8. ClientView' = ClientView
    <3>1. ClientView = View(1, Total(Flight), AppKey(Flight), 0, 0)
      BY <1>1, <2>1, ClientViewIs
    <3>2. /\ Flight' = Flight /\ Len(got') = 0 /\ Len(readBuffer') = 0
      BY <1>1, <2>6, EmptyIs, ServerStill
    <3>3. ClientView' = View(1, Total(Flight'), readKey', Len(got') + Len(readBuffer'), 0)
      BY <2>4 DEF ClientView
    <3>4. Len(got') + Len(readBuffer') = 0
      BY <3>2
    <3> QED BY <2>2, <3>1, <3>2, <3>3, <3>4
  <2>9. DownInv'
    BY <1>1, <2>4, <2>8, DownStill
  <2>10. srvKey.epoch = "application"
    BY <1>1, <2>1, ClientViewIs, FlightIsSent
  <2>11. BothInv'
    <3>1. Posted(Posts', <<>>)
      BY EmptyIs, DomainIs DEF Posted
    <3> QED BY <1>1, <1>2, <1>4, <2>3, <2>10, <3>1, ServerStill DEF AgreeInv, BothInv, machine
  <2>12. UpInv'
    <3> DEFINE y == Await("finished", Key("handshake", Hellos))
               z == Await("open", AppKey(Flight))
               mid == Append(up, ChangeCipherSpec)
    <3>1. ClientAwait = y /\ ClientAwait' = z /\ Inners' = Inners
      BY <1>1, <1>2, <2>2, <2>3, <2>5 DEF ClientAwait, Inners
    <3>2. Expects(Flight, Inners, y, ChangeCipherSpec, y)
      BY AwaitIs DEF Expects, ChangeCipherSpec, Plain, Record
    <3>3. Expects(Flight, Inners, y, last, z)
      BY <2>1, AwaitIs, ZenonT(40) DEF Expects, FinishedKey
    <3>4. IsSequence(up)
      BY DEF AgreeInv, KeyInv
    <3> HIDE DEF last, y, z
    <3>5. IsSequence(mid) /\ up' = Append(mid, last)
      BY <1>4, <3>4, AppendIs, TwoAppended
    <3>6. ASSUME Listening PROVE Meets(Flight, Inners, ServerAwait, up', z)
      <4>1. Meets(Flight, Inners, ServerAwait, mid, y)
        BY <3>1, <3>2, <3>4, <3>6, MeetsOn DEF AgreeInv, UpInv
      <4> HIDE DEF mid
      <4> QED BY <3>3, <3>5, <4>1, MeetsOn
    <3> QED BY <1>1, <3>1, <3>6, ServerStill DEF UpInv
  <2> QED BY <2>7, <2>9, <2>11, <2>12
<1>5. CASE /\ Gone /\ pc' = "failed" /\ writeKey' = Used(FinishedKey)
           /\ UNCHANGED transcript
  <2>1. Excused
    BY <1>2, <1>5, EndIsKnown
  <2>2. /\ transcript = Whole(Flight) /\ transcript # <<>>
        /\ Read = Total(Flight) /\ Total(Flight) > 0
    BY <1>1, FlightIsRead, TranscriptIs
  <2>3. srvKey.epoch = "application"
    BY <1>1, <2>2, ClientViewIs, FlightIsSent
  <2>4. writeKey'.epoch # "none"
    BY <1>5, KeyIs, UsedIs DEF FinishedKey
  <2> QED BY <1>1, <1>5, <2>1, <2>2, <2>3, <2>4, WriteFails
<1> QED BY <1>3, <1>4, <1>5 DEF SendFinished, Fail, Counts

-----------------------------------------------------------------------------
(* The open stream.                                                         *)
LEMMA OpenIs ==
  ASSUME AgreeInv, pc = "open"
  PROVE  /\ Live /\ ~Waiting /\ ~Shaking /\ ~closed /\ transcript # <<>>
         /\ writeKey.epoch = "application" /\ IsKey(writeKey)
         /\ writeKey.seq = written /\ written \in Nat
         /\ ClientAwait = Await("open", writeKey)
<1>1. Live /\ ~Waiting /\ ~Shaking /\ ~closed /\ transcript # <<>> /\ written \in Nat
  BY DEF AgreeInv, ClientInv, Live, Waiting, Shaking
<1>2. Keyed
  BY DEF AgreeInv, KeyInv, Unkeyed
<1>3. writeKey.epoch = "application" /\ IsKey(writeKey)
  <2>1. /\ writeKey = [epoch |-> writeKey.epoch, over |-> writeKey.over,
                        seq |-> writeKey.seq]
        /\ writeKey.seq \in Nat
    BY <1>2 DEF Keyed
  <2>2. writeKey.epoch = "application"
    BY <1>2 DEF Keyed
  <2> QED BY <2>1, <2>2 DEF IsKey
<1>4. writeKey.seq = written
  BY <1>1, <1>3 DEF AgreeInv, ClientInv
<1> QED BY <1>1, <1>3, <1>4 DEF ClientAwait

LEMMA WriteRecordAgrees ==
  ASSUME AgreeInv, WriteRecord
  PROVE  ClientInv' /\ BothInv' /\ DownInv' /\ UpInv'
<1>1. /\ pc = "open" /\ written < Requests
      /\ UNCHANGED <<machine, cut, closed, transcript, readKey, buffer, got, readBuffer,
                     down>>
  BY DEF WriteRecord
<1>2. /\ Live /\ ~Waiting /\ ~Shaking /\ ~closed /\ transcript # <<>>
      /\ writeKey.epoch = "application" /\ IsKey(writeKey)
      /\ writeKey.seq = written /\ written \in Nat
      /\ ClientAwait = Await("open", writeKey)
  BY <1>1, OpenIs
<1>3. CASE /\ Gone /\ pc' = "failed" /\ UNCHANGED <<up, written>>
           /\ writeKey' = Used(writeKey)
  <2>1. Excused
    <3>1. SUFFICES ASSUME ~Excused PROVE FALSE
      OBVIOUS
    <3>2. asked = Requests
      BY <1>2, <1>3, <3>1, EndIsKnown
    <3>3. asked <= written
      BY <1>1, <1>2 DEF AgreeInv, BothInv
    <3> QED BY <1>1, <1>2, <3>2, <3>3, SizesAssumption
  <2>2. writeKey'.epoch # "none" /\ srvKey.epoch = "application"
    BY <1>2, <1>3, UsedIs DEF AgreeInv, BothInv
  <2> QED BY <1>1, <1>2, <1>3, <2>1, <2>2, WriteFails
<1>4. CASE /\ up' = Append(up, Sealed(writeKey, "data", <<>>))
           /\ writeKey' = Used(writeKey)
           /\ written' = written + 1 /\ pc' = pc
  <2>1. /\ writeKey'.epoch = "application" /\ writeKey'.seq = written'
        /\ written' \in Nat /\ written <= written'
    BY <1>2, <1>4, UsedIs
  <2>2. Live' /\ ~Waiting' /\ ~Shaking'
    BY <1>2, <1>4 DEF Live, Waiting, Shaking
  <2>3. ClientInv'
    BY <1>1, <1>2, <1>4, <2>1, <2>2 DEF AgreeInv, ClientInv, Answer
  <2>4. BothInv'
    <3>1. asked' <= written'
      <4>1. asked <= written /\ asked \in Nat
        BY <1>1, <1>2 DEF AgreeInv, BothInv, ServerInv
      <4> QED BY <1>1, <1>2, <2>1, <4>1 DEF machine
    <3>2. Posted(Posts', buffer') /\ srvKey'.epoch = "application"
      BY <1>1, <1>2, ServerStill DEF AgreeInv, BothInv, machine
    <3> QED BY <1>1, <1>2, <1>4, <2>1, <3>1, <3>2, ServerStill DEF AgreeInv, BothInv, machine
  <2>5. DownInv'
    <3>1. ClientView' = ClientView
      BY <1>1, <1>2, <2>2, ServerStill DEF ClientView
    <3> QED BY <1>1, <1>2, <3>1, DownStill
  <2>6. UpInv'
    <3> DEFINE r == Sealed(writeKey, "data", <<>>)
               z == Await("open", Used(writeKey))
    <3>1. ClientAwait' = z /\ Inners' = Inners
      BY <1>1, <1>2, <1>4, <2>1 DEF ClientAwait, Inners
    <3>2. Expects(Flight, Inners, ClientAwait, r, z)
      BY <1>2, AwaitIs DEF Expects, Sealed, Record, Inners
    <3>3. IsSequence(up) /\ up' = Append(up, r)
      BY <1>4 DEF AgreeInv, KeyInv
    <3> HIDE DEF r, z
    <3>4. Listening => Meets(Flight, Inners, ServerAwait, Append(up, r), z)
      BY <3>2, <3>3, MeetsOn DEF AgreeInv, UpInv
    <3> QED BY <1>1, <3>1, <3>3, <3>4, ServerStill DEF UpInv
  <2> QED BY <2>3, <2>4, <2>5, <2>6
<1> QED BY <1>3, <1>4 DEF WriteRecord, Fail, Counts

LEMMA AnswerParts ==
  ASSUME NEW g \in Nat, NEW p \in Nat, NEW q \in Nat, g <= p, p <= q, q <= Blocks
  PROVE  /\ IsSequence(SubSeq(Answer, 1, p)) /\ Len(SubSeq(Answer, 1, p)) = p
         /\ IsSequence(SubSeq(Answer, p + 1, q)) /\ Len(SubSeq(Answer, p + 1, q)) = q - p
         /\ SubSeq(Answer, 1, g) \o SubSeq(Answer, g + 1, p) = SubSeq(Answer, 1, p)
<1>1. IsSequence(Answer) /\ Len(Answer) = Blocks /\ Blocks \in Nat
  BY AnswerIs
<1>2. /\ p \in 0 .. Len(Answer) /\ q \in p .. Len(Answer) /\ g \in 0 .. Len(Answer)
      /\ p \in g .. Len(Answer) /\ 0 \in Nat /\ 0 + 1 = 1 /\ p - 0 = p
  BY <1>1
<1>3. IsSequence(SubSeq(Answer, p + 1, q)) /\ Len(SubSeq(Answer, p + 1, q)) = q - p
  BY <1>1, <1>2, PartIs
<1>4. IsSequence(SubSeq(Answer, 0 + 1, p)) /\ Len(SubSeq(Answer, 0 + 1, p)) = p - 0
  BY <1>1, <1>2, PartIs
<1>5. SubSeq(Answer, 0 + 1, g) \o SubSeq(Answer, g + 1, p) = SubSeq(Answer, 0 + 1, p)
  BY <1>1, <1>2, PartsJoin
<1>6. IsSequence(SubSeq(Answer, 1, p)) /\ Len(SubSeq(Answer, 1, p)) = p
  BY <1>2, <1>4
<1>7. SubSeq(Answer, 1, g) \o SubSeq(Answer, g + 1, p) = SubSeq(Answer, 1, p)
  BY <1>2, <1>5
<1> QED BY <1>3, <1>6, <1>7

(* A step that only reads.                                                  *)
LEMMA OpenOn ==
  ASSUME AgreeInv, pc = "open", pc' = "open",
         UNCHANGED <<machine, cut, up, closed, writeKey, written, transcript>>,
         NEW p \in Nat, NEW q \in Nat, p <= q, q <= Blocks,
         got' = SubSeq(Answer, 1, p), readBuffer' = SubSeq(Answer, p + 1, q),
         Posted(Posts, buffer')
  PROVE  /\ ClientInv' /\ BothInv' /\ UpInv'
         /\ ClientView' = View(1, Total(Flight), readKey', q, 0)
<1>1. Live /\ ~Waiting /\ ~Shaking /\ ~closed /\ transcript # <<>>
  BY OpenIs
<1>2. Live' /\ ~Waiting' /\ ~Shaking'
  BY DEF Live, Waiting, Shaking
<1>3. /\ IsSequence(got') /\ Len(got') = p
      /\ IsSequence(readBuffer') /\ Len(readBuffer') = q - p
  <2>1. /\ IsSequence(SubSeq(Answer, 1, p)) /\ Len(SubSeq(Answer, 1, p)) = p
        /\ IsSequence(SubSeq(Answer, p + 1, q)) /\ Len(SubSeq(Answer, p + 1, q)) = q - p
    <3>1. p <= p
      OBVIOUS
    <3> QED BY <3>1, AnswerParts
  <2> QED BY <2>1
<1>4. Len(got') + Len(readBuffer') = q
  <2>1. p + (q - p) = q
    OBVIOUS
  <2> QED BY <1>3, <2>1
<1>5. ClientInv'
  BY <1>1, <1>2, <1>3, <1>4 DEF AgreeInv, ClientInv, Answer
<1>6. BothInv'
  BY <1>1, ServerStill DEF AgreeInv, BothInv, machine
<1>7. ClientAwait' = ClientAwait
  BY DEF ClientAwait
<1>8. UpInv'
  BY <1>7, UpStill
<1>9. ClientView' = View(1, Total(Flight), readKey', Len(got') + Len(readBuffer'), 0)
  BY <1>2, ServerStill DEF ClientView
<1> QED BY <1>4, <1>5, <1>6, <1>8, <1>9

(* What the caller takes and what is kept of the blocks that were read.     *)
LEMMA Shared ==
  ASSUME NEW g \in Nat, NEW q \in Nat, g <= q, q <= Blocks, NEW cap \in Nat \ {0}
  PROVE  \E p \in Nat :
           /\ g <= p /\ p <= q
           /\ SubSeq(Answer, 1, g) \o First(SubSeq(Answer, g + 1, q), cap)
                = SubSeq(Answer, 1, p)
           /\ Beyond(SubSeq(Answer, g + 1, q), cap) = SubSeq(Answer, p + 1, q)
<1> DEFINE t == SubSeq(Answer, g + 1, q)
<1>1. IsSequence(Answer) /\ Len(Answer) = Blocks /\ Blocks \in Nat
  BY AnswerIs
<1> DEFINE m == Smaller(cap, q - g)
           p == g + m
<1>2. m \in 0 .. q - g /\ m \in Nat /\ p \in Nat /\ g <= p /\ p <= q
  BY DEF Smaller
<1>3. q \in g .. Len(Answer)
  BY <1>1
<1>4. Len(t) = q - g
  BY <1>1, <1>3, PartIs
<1> HIDE DEF t
<1>5. First(t, cap) = SubSeq(t, 1, m) /\ Beyond(t, cap) = SubSeq(t, m + 1, q - g)
  BY <1>4 DEF First, Beyond
<1>6. /\ SubSeq(t, 1, m) = SubSeq(Answer, g + 1, p)
      /\ SubSeq(t, m + 1, q - g) = SubSeq(Answer, p + 1, q)
  <2> HIDE DEF m
  <2> QED BY <1>1, <1>2, <1>3, PartOfPart DEF t
<1> HIDE DEF m, p
<1>7. SubSeq(Answer, 1, g) \o SubSeq(Answer, g + 1, p) = SubSeq(Answer, 1, p)
  BY <1>2, AnswerParts
<1>8. SubSeq(Answer, 1, g) \o First(t, cap) = SubSeq(Answer, 1, p)
  BY <1>5, <1>6, <1>7
<1> QED BY <1>2, <1>5, <1>6, <1>8 DEF t

(* What the client has of the answer.                                       *)
LEMMA GotIs ==
  ASSUME AgreeInv
  PROVE  \E g \in Nat, q \in Nat :
           /\ g <= q /\ q <= Blocks /\ g = Len(got) /\ q = Len(got) + Len(readBuffer)
           /\ got = SubSeq(Answer, 1, g) /\ readBuffer = SubSeq(Answer, g + 1, q)
<1>1. /\ IsSequence(got) /\ IsSequence(readBuffer) /\ Len(got) + Len(readBuffer) <= Blocks
  BY DEF AgreeInv, ClientInv
<1>2. /\ got = SubSeq(Answer, 1, Len(got))
      /\ readBuffer = SubSeq(Answer, Len(got) + 1, Len(got) + Len(readBuffer))
  BY DEF AgreeInv, ClientInv
<1> DEFINE g == Len(got)
           q == Len(got) + Len(readBuffer)
<1>3. g \in Nat /\ q \in Nat /\ g <= q
  <2>1. Len(got) \in Nat /\ Len(readBuffer) \in Nat
    BY <1>1, LengthIs
  <2> QED BY <2>1
<1>4. /\ q <= Blocks /\ g = Len(got) /\ q = Len(got) + Len(readBuffer)
      /\ got = SubSeq(Answer, 1, g) /\ readBuffer = SubSeq(Answer, g + 1, q)
  BY <1>1, <1>2
<1> HIDE DEF g, q
<1> QED BY <1>3, <1>4

LEMMA ReadBufferedAgrees ==
  ASSUME AgreeInv, ReadBuffered
  PROVE  ClientInv' /\ BothInv' /\ DownInv' /\ UpInv' /\ Len(got) <= Len(got')
<1>1. /\ pc = "open" /\ pc' = "open"
      /\ UNCHANGED <<machine, cut, closed, transcript, readKey, writeKey, buffer, written,
                     up, down>>
  BY DEF ReadBuffered
<1>2. PICK cap \in 1 .. Cap : /\ got' = got \o First(readBuffer, cap)
                              /\ readBuffer' = Beyond(readBuffer, cap)
  BY DEF ReadBuffered
<1>3. Posted(Posts, buffer) /\ cap \in Nat \ {0}
  BY <1>1, SizesAssumption DEF AgreeInv, BothInv
<1>4. PICK g \in Nat, q \in Nat :
        /\ g <= q /\ q <= Blocks /\ g = Len(got) /\ q = Len(got) + Len(readBuffer)
        /\ got = SubSeq(Answer, 1, g) /\ readBuffer = SubSeq(Answer, g + 1, q)
  BY GotIs
<1>5. PICK p \in Nat :
        /\ g <= p /\ p <= q
        /\ SubSeq(Answer, 1, g) \o First(SubSeq(Answer, g + 1, q), cap)
             = SubSeq(Answer, 1, p)
        /\ Beyond(SubSeq(Answer, g + 1, q), cap) = SubSeq(Answer, p + 1, q)
  <2>1. g <= q /\ q <= Blocks
    BY <1>4
  <2> QED BY <1>3, <2>1, Shared
<1>6. got' = SubSeq(Answer, 1, p) /\ readBuffer' = SubSeq(Answer, p + 1, q)
  BY <1>2, <1>4, <1>5
<1>7. /\ ClientInv' /\ BothInv' /\ UpInv'
      /\ ClientView' = View(1, Total(Flight), readKey', q, 0)
  BY <1>1, <1>3, <1>4, <1>5, <1>6, OpenOn
<1>8. ClientView' = ClientView
  <2>1. ClientView = View(1, Total(Flight), readKey, Len(got) + Len(readBuffer), 0)
    BY <1>1, ClientViewIs
  <2> QED BY <1>1, <1>4, <1>7, <2>1
<1>9. Live
  BY <1>1, OpenIs
<1>10. Len(got) <= Len(got')
  <2>1. g <= p /\ p <= q /\ q <= Blocks /\ g = Len(got)
    BY <1>4, <1>5
  <2>2. Len(SubSeq(Answer, 1, p)) = p
    BY <2>1, AnswerParts
  <2> QED BY <1>6, <2>1, <2>2
<1> QED BY <1>1, <1>7, <1>8, <1>9, <1>10, DownStill

LEMMA ReadDataAgrees ==
  ASSUME AgreeInv, ReadData
  PROVE  ClientInv' /\ BothInv' /\ DownInv' /\ UpInv' /\ Len(got) <= Len(got')
<1>1. /\ pc = "open" /\ pc' = "open" /\ readBuffer = <<>> /\ down # <<>>
      /\ down' = Tail(down) /\ Head(down).type = "data" /\ Head(down).key = readKey
      /\ Head(down).inner = "data" /\ readKey' = Used(readKey)
      /\ UNCHANGED <<machine, cut, closed, transcript, writeKey, buffer, written, up>>
  BY DEF ReadData, Reading, Open, Opened, NextRecord
<1>2. PICK cap \in 1 .. Cap : /\ got' = got \o First(Head(down).body, cap)
                              /\ readBuffer' = Beyond(Head(down).body, cap)
  BY DEF ReadData
<1>3. Posted(Posts, buffer) /\ cap \in Nat \ {0} /\ Live
  BY <1>1, SizesAssumption, OpenIs DEF AgreeInv, BothInv
<1>4. PICK g \in Nat : g <= Blocks /\ g = Len(got) /\ got = SubSeq(Answer, 1, g)
  <2>1. PICK g \in Nat, q \in Nat :
          g <= q /\ q <= Blocks /\ g = Len(got) /\ got = SubSeq(Answer, 1, g)
    BY GotIs
  <2>2. g <= Blocks
    BY <2>1, AnswerIs
  <2> QED BY <2>1, <2>2
<1>5. /\ ClientView.hello = 1 /\ ClientView.flight = Total(Flight)
      /\ ClientView.key = readKey /\ ClientView.blocks = g /\ ClientView.over = 0
  <2>1. ClientView.blocks = Len(got) + Len(readBuffer)
    BY <1>1, ClientViewIs
  <2>2. Len(readBuffer) = 0 /\ g + 0 = g
    BY <1>1, EmptyIs
  <2> QED BY <1>1, <1>4, <2>1, <2>2, ClientViewIs
<1>6. PICK z, y : /\ Leads(Flight, Posts, z, Tail(down), y) /\ Reaches(y)
                  /\ DataTo(Flight, ClientView, Head(down), z)
  <2>1. ~Bad(ClientView, Head(down))
    BY <1>1, <1>5 DEF Bad
  <2>2. ASSUME NEW z, SealedTo(Flight, Posts, ClientView, Head(down), z)
        PROVE  DataTo(Flight, ClientView, Head(down), z)
    BY <1>1, <2>2 DEF SealedTo, FlightTo, PostTo, NotifyTo
  <2> QED BY <1>1, <1>3, <2>1, <2>2, NextIs DEF HelloTo
<1>7. PICK n \in Nat :
        /\ g + n <= Blocks /\ Head(down).body = SubSeq(Answer, g + 1, g + n)
        /\ z = View(1, Total(Flight), Used(readKey), g + n, 0)
  BY <1>5, <1>6 DEF DataTo
<1> DEFINE q == g + n
<1>8. q \in Nat /\ g <= q /\ q <= Blocks /\ Head(down).body = SubSeq(Answer, g + 1, q)
      /\ z = View(1, Total(Flight), Used(readKey), q, 0)
  BY <1>7
<1> HIDE DEF q
<1>9. PICK p \in Nat :
        /\ g <= p /\ p <= q
        /\ SubSeq(Answer, 1, g) \o First(SubSeq(Answer, g + 1, q), cap)
             = SubSeq(Answer, 1, p)
        /\ Beyond(SubSeq(Answer, g + 1, q), cap) = SubSeq(Answer, p + 1, q)
  <2>1. q \in Nat /\ g <= q /\ q <= Blocks
    BY <1>8
  <2> QED BY <1>3, <2>1, Shared
<1>10. got' = SubSeq(Answer, 1, p) /\ readBuffer' = SubSeq(Answer, p + 1, q)
  BY <1>2, <1>4, <1>8, <1>9
<1>11. /\ ClientInv' /\ BothInv' /\ UpInv'
       /\ ClientView' = View(1, Total(Flight), readKey', q, 0)
  BY <1>1, <1>3, <1>8, <1>9, <1>10, OpenOn
<1>12. ClientView' = z
  BY <1>1, <1>8, <1>11
<1>13. Len(got) <= Len(got')
  <2>1. g <= p /\ p <= q /\ q <= Blocks /\ g = Len(got)
    BY <1>4, <1>8, <1>9
  <2>2. Len(SubSeq(Answer, 1, p)) = p
    BY <1>8, <2>1, AnswerParts
  <2> QED BY <1>10, <2>1, <2>2
<1> QED BY <1>1, <1>6, <1>11, <1>12, <1>13, DownRead

(* What is left of the messages after the handshake.                        *)
LEMMA LeftIs ==
  ASSUME NEW posts, NEW all, Posted(posts, all)
  PROVE  Posted(posts, Left(all)) /\ \A i \in 1 .. Taken(all) : all[i].m \in posts
<1>1. /\ IsSequence(all) /\ Len(all) \in Nat /\ DOMAIN all = 1 .. Len(all)
      /\ \A i \in 1 .. Len(all) : all[i].m \in posts
  BY LengthIs, DomainIs DEF Posted
<1>2. Taken(all) \in 0 .. Len(all)
  <2>1. Len(all) % Parts \in 0 .. Parts - 1 /\ Parts \in Nat /\ Parts > 0
    BY <1>1, SizesAssumption
  <2>2. Len(all) % Parts <= Len(all)
    BY <1>1, <2>1
  <2> QED BY <1>1, <2>1, <2>2 DEF Taken
<1> DEFINE a == Taken(all)
           b == Len(all)
<1>3. a \in Nat /\ b \in a .. Len(all) /\ b \in Nat /\ a <= b
  BY <1>1, <1>2
<1>4. Left(all) = SubSeq(all, a + 1, b)
  BY DEF Left
<1>5. b = Len(all)
  OBVIOUS
<1> HIDE DEF a, b
<1> DEFINE t == SubSeq(all, a + 1, b)
<1>6. /\ IsSequence(t) /\ Len(t) = b - a /\ \A i \in 1 .. b - a : t[i] = all[a + i]
  BY <1>1, <1>3, PartIs
<1> HIDE DEF t
<1>7. \A i \in DOMAIN t : t[i].m \in posts
  <2>1. SUFFICES ASSUME NEW i \in 1 .. b - a PROVE t[i].m \in posts
    BY <1>6, DomainIs
  <2>2. a + i \in 1 .. Len(all)
    BY <1>3, <1>5
  <2> QED BY <1>1, <1>6, <2>2
<1>8. Posted(posts, Left(all))
  BY <1>4, <1>6, <1>7 DEF Posted, t
<1>9. \A i \in 1 .. Taken(all) : all[i].m \in posts
  BY <1>1, <1>2
<1> QED BY <1>8, <1>9

LEMMA PostedJoin ==
  ASSUME NEW posts, NEW s, NEW t, Posted(posts, s), Posted(posts, t)
  PROVE  Posted(posts, s \o t)
<1>1. /\ IsSequence(s) /\ Len(s) \in Nat /\ \A i \in 1 .. Len(s) : s[i].m \in posts
      /\ IsSequence(t) /\ Len(t) \in Nat /\ \A i \in 1 .. Len(t) : t[i].m \in posts
  BY LengthIs, DomainIs DEF Posted
<1> DEFINE st == s \o t
<1>2. /\ IsSequence(st) /\ Len(st) = Len(s) + Len(t)
      /\ \A i \in 1 .. Len(s) + Len(t) :
           st[i] = IF i <= Len(s) THEN s[i] ELSE t[i - Len(s)]
  BY <1>1, Joined
<1> HIDE DEF st
<1>3. \A i \in DOMAIN st : st[i].m \in posts
  <2>1. SUFFICES ASSUME NEW i \in 1 .. Len(s) + Len(t) PROVE st[i].m \in posts
    BY <1>2, DomainIs
  <2>2. CASE i <= Len(s)
    BY <1>1, <1>2, <2>2
  <2>3. CASE ~(i <= Len(s))
    <3>1. i - Len(s) \in 1 .. Len(t)
      BY <1>1, <2>3
    <3> QED BY <1>1, <1>2, <2>3, <3>1
  <2> QED BY <2>2, <2>3
<1> QED BY <1>2, <1>3 DEF Posted, st

LEMMA ReadPostHandshakeAgrees ==
  ASSUME AgreeInv, ReadPostHandshake
  PROVE  ClientInv' /\ BothInv' /\ DownInv' /\ UpInv'
<1> DEFINE all == buffer \o Head(down).body
<1>1. /\ pc = "open" /\ readBuffer = <<>> /\ down # <<>>
      /\ down' = Tail(down) /\ Head(down).type = "data" /\ Head(down).key = readKey
      /\ Head(down).inner = "handshake" /\ readKey' = Used(readKey)
      /\ UNCHANGED <<machine, cut, closed, transcript, writeKey, readBuffer, written, got,
                     up>>
  BY DEF ReadPostHandshake, Reading, Open, Opened, NextRecord
<1>2. /\ buffer' = Left(all)
      /\ pc' = IF \E i \in 1 .. Taken(all) : all[i].m = "KeyUpdate" THEN "failed" ELSE pc
  BY DEF ReadPostHandshake
<1>3. Posted(Posts, buffer) /\ Live
  BY <1>1, OpenIs DEF AgreeInv, BothInv
<1>4. /\ ClientView.hello = 1 /\ ClientView.flight = Total(Flight)
      /\ ClientView.key = readKey /\ ClientView.blocks = Len(got) + Len(readBuffer)
      /\ ClientView.over = 0
  BY <1>1, ClientViewIs
<1>5. PICK z, y : /\ Leads(Flight, Posts, z, Tail(down), y) /\ Reaches(y)
                  /\ PostTo(Flight, Posts, ClientView, Head(down), z)
  <2>1. ~Bad(ClientView, Head(down))
    BY <1>1, <1>4 DEF Bad
  <2>3. ASSUME NEW z, FlightTo(Flight, ClientView, Head(down), z)
        PROVE  FALSE
    <3>1. PICK n \in Nat \ {0} : ClientView.flight + n <= Total(Flight)
      BY <2>3 DEF FlightTo
    <3>2. Total(Flight) \in Nat
      BY FlightIs, TotalIs
    <3> QED BY <1>4, <3>1, <3>2
  <2>4. ASSUME NEW z, SealedTo(Flight, Posts, ClientView, Head(down), z)
        PROVE  PostTo(Flight, Posts, ClientView, Head(down), z)
    BY <1>1, <2>3, <2>4 DEF SealedTo, DataTo, NotifyTo
  <2> QED BY <1>1, <1>3, <2>1, <2>4, NextIs DEF HelloTo
<1>6. /\ Posted(Posts, Head(down).body)
      /\ z = View(1, Total(Flight), Used(readKey), Len(got) + Len(readBuffer), 0)
  BY <1>4, <1>5 DEF PostTo
<1>7. Posted(Posts, all)
  BY <1>3, <1>6, PostedJoin
<1> HIDE DEF all
<1>8. Posted(Posts, buffer') /\ \A i \in 1 .. Taken(all) : all[i].m \in Posts
  BY <1>2, <1>7, LeftIs
<1>9. CASE pc' = "failed"
  <2>1. "KeyUpdate" \in Posts
    BY <1>1, <1>2, <1>8, <1>9
  <2>2. Accepted /\ \E k \in DOMAIN server.post : server.post[k] = "KeyUpdate"
    BY <2>1 DEF Posts
  <2>3. Excused
    BY <2>2 DEF Accepted, Excused, KeyUpdateSent, Whole
  <2> QED BY <1>1, <1>9, <2>3, ClientIsDone
<1>10. CASE pc' = "open"
  <2>1. PICK g \in Nat, q \in Nat :
          /\ g <= q /\ q <= Blocks /\ g = Len(got) /\ q = Len(got) + Len(readBuffer)
          /\ got = SubSeq(Answer, 1, g) /\ readBuffer = SubSeq(Answer, g + 1, q)
    BY GotIs
  <2>2. got' = SubSeq(Answer, 1, g) /\ readBuffer' = SubSeq(Answer, g + 1, q)
    BY <1>1, <2>1
  <2>3. /\ ClientInv' /\ BothInv' /\ UpInv'
        /\ ClientView' = View(1, Total(Flight), readKey', q, 0)
    BY <1>1, <1>8, <1>10, <2>1, <2>2, OpenOn
  <2>4. ClientView' = z
    BY <1>1, <1>6, <2>1, <2>3
  <2> QED BY <1>1, <1>5, <2>3, <2>4, DownRead
<1> QED BY <1>1, <1>2, <1>9, <1>10

LEMMA CloseAgrees ==
  ASSUME AgreeInv, Close
  PROVE  ClientInv' /\ BothInv' /\ DownInv' /\ UpInv'
<1>1. /\ ~closed /\ closed'
      /\ \/ pc \in {"ended", "failed"} /\ pc' = pc
         \/ pc = "open" /\ pc' = "left"
      /\ UNCHANGED <<machine, cut, transcript, readKey, buffer, readBuffer, written, got,
                     down>>
  BY DEF Close
<1>2. ~Live' /\ ~Waiting' /\ ~Shaking'
  BY <1>1 DEF Live, Waiting, Shaking
<1>3. CASE /\ writeKey.epoch # "none" /\ writeKey' = Used(writeKey)
           /\ up' = Append(up, Sealed(writeKey, "alert", CloseNotify))
  <2>1. Keyed /\ IsKey(writeKey)
    <3>1. Keyed
      BY <1>3, NoKeyIs DEF AgreeInv, KeyInv, Unkeyed
    <3>2. /\ writeKey = [epoch |-> writeKey.epoch, over |-> writeKey.over,
                          seq |-> writeKey.seq]
          /\ writeKey.seq \in Nat
      BY <3>1 DEF Keyed
    <3> QED BY <3>1, <3>2 DEF IsKey
  <2>2. writeKey'.epoch # "none" /\ transcript # <<>>
    BY <1>3, <2>1, UsedIs DEF AgreeInv, ClientInv
  <2>3. ClientInv'
    BY <1>1, <1>2, <2>2 DEF AgreeInv, ClientInv, Answer
  <2>4. BothInv'
    BY <1>1, <1>3, <2>2, ServerStill DEF AgreeInv, BothInv, machine
  <2>5. UpInv'
    <3> DEFINE r == Sealed(writeKey, "alert", CloseNotify)
               z == Await("open", Used(writeKey))
    <3>1. ClientAwait' = z /\ Inners \subseteq Inners' /\ "alert" \in Inners'
          /\ ClientAwait = Await("open", writeKey)
      BY <1>1, <1>3, <2>2 DEF ClientAwait, Inners
    <3>2. Expects(Flight, Inners', ClientAwait, r, z)
      BY <3>1, AwaitIs DEF Expects, Sealed, Record
    <3>3. IsSequence(up) /\ up' = Append(up, r)
      BY <1>3 DEF AgreeInv, KeyInv
    <3> HIDE DEF r, z
    <3>4. ASSUME Listening PROVE Meets(Flight, Inners', ServerAwait, up', z)
      <4>1. Meets(Flight, Inners', ServerAwait, up, ClientAwait)
        BY <3>1, <3>4, MeetsStill DEF AgreeInv, UpInv
      <4> QED BY <3>2, <3>3, <4>1, MeetsOn
    <3> QED BY <1>1, <3>1, <3>4, ServerStill DEF UpInv
  <2> QED BY <1>2, <2>3, <2>4, <2>5 DEF DownInv
<1>4. CASE writeKey.epoch = "none" /\ UNCHANGED <<up, writeKey>>
  <2>1. ClientInv'
    BY <1>1, <1>2, <1>4 DEF AgreeInv, ClientInv, Answer
  <2>2. BothInv'
    BY <1>1, <1>4, ServerStill DEF AgreeInv, BothInv, machine
  <2>3. UpInv'
    <3>1. ClientAwait' = ClientAwait /\ Inners \subseteq Inners'
      BY <1>1, <1>4 DEF ClientAwait, Inners
    <3>2. Listening => Meets(Flight, Inners', ServerAwait, up, ClientAwait)
      BY <3>1, MeetsStill DEF AgreeInv, UpInv
    <3> QED BY <1>1, <1>4, <3>1, <3>2, ServerStill DEF UpInv
  <2> QED BY <1>2, <2>1, <2>2, <2>3 DEF DownInv
<1> QED BY <1>3, <1>4 DEF Close, CloseNotify, Counts

LEMMA ClientAgrees == ASSUME AgreeInv, Client PROVE AgreeInv'
<1>1. UNCHANGED <<machine, cut>> /\ (down' = down \/ (down # <<>> /\ down' = Tail(down)))
  <2>1. CASE SendHello \/ ConnectionEnds \/ NeedMore \/ ProcessMessage
    BY <2>1 DEF SendHello, ConnectionEnds, NeedMore, ProcessMessage
  <2>2. CASE SkipChangeCipherSpec \/ PlainAlert \/ Unreadable \/ ReadServerHello
    BY <2>2 DEF SkipChangeCipherSpec, PlainAlert, Unreadable, ReadServerHello, NextRecord
  <2>3. CASE ReadAlert \/ ReadFlight \/ ReadData \/ ReadPostHandshake
    BY <2>3 DEF ReadAlert, ReadFlight, ReadData, ReadPostHandshake, Open, NextRecord
  <2>4. CASE SendFinished \/ WriteRecord \/ ReadBuffered \/ Close
    BY <2>4 DEF SendFinished, WriteRecord, ReadBuffered, Close
  <2> QED BY <2>1, <2>2, <2>3, <2>4 DEF Client
<1>2. KeyInv' /\ ServerInv' /\ IsSequence(down')
  BY <1>1, ClientSteps, ServerInvStill, TailIs DEF AgreeInv
<1>3. ClientInv' /\ BothInv' /\ DownInv' /\ UpInv'
  <2>1. CASE SendHello
    BY <2>1, SendHelloAgrees
  <2>2. CASE ConnectionEnds
    BY <2>2, ConnectionEndsAgrees
  <2>3. CASE SkipChangeCipherSpec
    BY <2>3, SkipChangeCipherSpecAgrees
  <2>4. CASE PlainAlert
    BY <2>4, PlainAlertAgrees
  <2>5. CASE Unreadable
    BY <2>5, UnreadableAgrees
  <2>6. CASE ReadServerHello
    BY <2>6, ReadServerHelloAgrees
  <2>7. CASE ReadAlert
    BY <2>7, ReadAlertAgrees
  <2>8. CASE ReadFlight
    BY <2>8, ReadFlightAgrees
  <2>9. CASE NeedMore
    BY <2>9, NeedMoreAgrees
  <2>10. CASE ProcessMessage
    BY <2>10, ProcessMessageAgrees
  <2>11. CASE SendFinished
    BY <2>11, SendFinishedAgrees
  <2>12. CASE WriteRecord
    BY <2>12, WriteRecordAgrees
  <2>13. CASE ReadBuffered
    BY <2>13, ReadBufferedAgrees
  <2>14. CASE ReadData
    BY <2>14, ReadDataAgrees
  <2>15. CASE ReadPostHandshake
    BY <2>15, ReadPostHandshakeAgrees
  <2>16. CASE Close
    BY <2>16, CloseAgrees
  <2> QED
    BY <2>1, <2>2, <2>3, <2>4, <2>5, <2>6, <2>7, <2>8, <2>9, <2>10, <2>11, <2>12,
       <2>13, <2>14, <2>15, <2>16 DEF Client
<1> QED BY <1>2, <1>3 DEF AgreeInv

-----------------------------------------------------------------------------
(* The server.                                                              *)
LEMMA FlightUnits ==
  /\ IsSequence(AllOf(Flight)) /\ Len(AllOf(Flight)) = Total(Flight)
  /\ Total(Flight) \in Nat /\ Total(Flight) > 0
<1>1. IsSequence(Flight) /\ Len(Flight) \in Nat /\ 0 < Len(Flight)
  <2>1. CertificateAt \in {2, 3} /\ Len(Flight) = CertificateAt + 2 /\ IsSequence(Flight)
    BY FlightIs
  <2> QED BY <2>1
<1>2. /\ IsSequence(AllOf(Flight)) /\ Len(AllOf(Flight)) = Total(Flight)
      /\ Total(Flight) \in Nat
  BY <1>1, UnitsAre, TotalIs DEF AllOf, Total, At
<1>3. At(0) + Parts <= At(Len(Flight)) /\ At(0) = 0 /\ Parts \in Nat /\ Parts > 0
  BY <1>1, AtIs
<1>4. Total(Flight) > 0
  BY <1>2, <1>3 DEF Total
<1> QED BY <1>2, <1>4

LEMMA ServerIs ==
  ASSUME ServerInv
  PROVE  /\ srv = "wait hello" => /\ srvKey = NoKey /\ srvTranscript = <<>> /\ ~Accepted
                                  /\ ServerView = View(0, 0, NoKey, 0, 0)
         /\ srv = "flight" => /\ srvKey.epoch = "handshake" /\ ~Accepted
                              /\ ServerView = View(1, Written, srvKey, 0, 0)
         /\ srv = "wait finished" => srvKey.epoch = "application" /\ ~Accepted
         /\ srv = "open" => /\ srvKey.epoch = "application" /\ Accepted /\ ~notified
                            /\ ServerView = View(1, Total(Flight), srvKey, answered, 0)
         /\ Seen(ServerView) /\ ServerView.lost = 0 /\ Written \in Nat
         /\ Accepted => /\ srv \notin {"wait hello", "flight", "wait finished"}
                        /\ Len(srvTranscript) > Len(Whole(Flight))
         /\ srv = "wait finished" => ~(Len(srvTranscript) > Len(Whole(Flight)))
<1>1. Len(Whole(Flight)) = Len(Flight) + 2 /\ Len(Flight) \in Nat
  BY WholeIs, FlightIs, LengthIs
<1>2. ~(Len(<<>>) > Len(Whole(Flight))) /\ ~(Len(Hellos) > Len(Whole(Flight)))
      /\ ~(Len(Whole(Flight)) > Len(Whole(Flight)))
  BY <1>1, HellosIs, EmptyIs
<1>3. Written \in Nat
  <2>1. Total(Flight) \in Nat
    BY FlightUnits
  <2>2. CASE srvKey.epoch = "handshake"
    <3>1. Len(todo) \in 1 .. Total(Flight)
      BY <2>2 DEF ServerInv, FlightToDo
    <3>2. Total(Flight) - Len(todo) \in Nat
      BY <2>1, <3>1
    <3> QED BY <2>2, <3>2 DEF Written
  <2> QED BY <2>1, <2>2 DEF Written
<1>4. srv = "wait hello" => /\ srvKey = NoKey /\ srvTranscript = <<>> /\ ~Accepted
                            /\ ServerView = View(0, 0, NoKey, 0, 0)
  <2>1. SUFFICES ASSUME srv = "wait hello"
                 PROVE  /\ srvKey = NoKey /\ srvTranscript = <<>> /\ ~Accepted
                        /\ ServerView = View(0, 0, NoKey, 0, 0)
    OBVIOUS
  <2>2. srvKey.epoch = "none" /\ srvKey = NoKey /\ srvTranscript = <<>>
        /\ answered = 0 /\ ~notified
    BY <2>1 DEF ServerInv
  <2>3. ~Accepted
    BY <1>2, <2>2 DEF Accepted
  <2>4. ServerView = View(0, 0, NoKey, 0, 0)
    BY <2>2 DEF ServerView, Written
  <2> QED BY <2>2, <2>3, <2>4
<1>5. srv = "flight" => /\ srvKey.epoch = "handshake" /\ ~Accepted
                        /\ ServerView = View(1, Written, srvKey, 0, 0)
  <2>1. SUFFICES ASSUME srv = "flight"
                 PROVE  /\ srvKey.epoch = "handshake" /\ ~Accepted
                        /\ ServerView = View(1, Written, srvKey, 0, 0)
    OBVIOUS
  <2>2. srvKey.epoch = "handshake" /\ srvTranscript = Hellos /\ answered = 0 /\ ~notified
    BY <2>1 DEF ServerInv
  <2>3. ~Accepted
    BY <1>2, <2>2 DEF Accepted
  <2>4. ServerView = View(1, Written, srvKey, 0, 0)
    BY <2>2 DEF ServerView
  <2> QED BY <2>2, <2>3, <2>4
<1>6. srv = "wait finished" => /\ srvKey.epoch = "application" /\ ~Accepted
                               /\ ~(Len(srvTranscript) > Len(Whole(Flight)))
  BY <1>2 DEF ServerInv, Accepted
<1>7. srv = "open" => /\ srvKey.epoch = "application" /\ Accepted /\ ~notified
                      /\ ServerView = View(1, Total(Flight), srvKey, answered, 0)
  <2>1. SUFFICES ASSUME srv = "open"
                 PROVE  /\ srvKey.epoch = "application" /\ Accepted /\ ~notified
                        /\ ServerView = View(1, Total(Flight), srvKey, answered, 0)
    OBVIOUS
  <2>2. srvKey.epoch = "application" /\ Accepted /\ ~notified
    BY <2>1 DEF ServerInv
  <2>3. ServerView = View(1, Total(Flight), srvKey, answered, 0)
    BY <2>2 DEF ServerView, Written
  <2> QED BY <2>2, <2>3
<1>8. Seen(ServerView) /\ ServerView.lost = 0
  <2> DEFINE h == IF srvKey.epoch = "none" THEN 0 ELSE 1
             o == IF notified THEN 1 ELSE 0
  <2>1. h \in Nat /\ o \in Nat /\ (h # 0 => srvKey.epoch # "none")
    OBVIOUS
  <2>2. IsKey(srvKey) /\ answered \in Nat
    <3>1. answered \in 0 .. Blocks /\ Blocks \in Nat
      BY SizesAssumption DEF ServerInv
    <3>2. IsKey(srvKey)
      BY DEF ServerInv
    <3> QED BY <3>1, <3>2
  <2>3. ServerView = View(h, Written, srvKey, answered, o)
    BY DEF ServerView
  <2> HIDE DEF h, o
  <2> QED BY <1>3, <2>1, <2>2, <2>3, ViewSeen, ViewIs
<1>9. Accepted => /\ srv \notin {"wait hello", "flight", "wait finished"}
                  /\ Len(srvTranscript) > Len(Whole(Flight))
  BY <1>4, <1>5, <1>6 DEF Accepted
<1> QED BY <1>3, <1>4, <1>5, <1>6, <1>7, <1>8, <1>9

(* A step of the server leaves the client alone.                            *)
LEMMA ClientStill ==
  ASSUME UNCHANGED <<client, server>>
  PROVE  /\ Flight' = Flight /\ ClientView' = ClientView /\ (Live' <=> Live)
         /\ ClientAwait' = ClientAwait /\ Inners' = Inners /\ (ClientInv => ClientInv')
<1>1. Flight' = Flight /\ CertificateAt' = CertificateAt
  BY DEF Flight, CertificateAt
<1>2. ClientView' = ClientView /\ (Live' <=> Live)
  BY <1>1 DEF client, ClientView, Live, Waiting, Shaking, Read, Past
<1>3. ClientAwait' = ClientAwait /\ Inners' = Inners
  BY DEF client, ClientAwait, Inners
<1>4. ClientInv => ClientInv'
  BY <1>1 DEF client, ClientInv, ShakingInv, Past, Read, Waiting, Shaking, Answer
<1> QED BY <1>1, <1>2, <1>3, <1>4

(* What the server has accepted, and what excuses the client, remain.       *)
Remains ==
  /\ UNCHANGED <<client, server>>
  /\ Accepted => Accepted'
  /\ cut \in {"broken", "garbled"} => cut' \in {"broken", "garbled"}
  /\ srv = "refuses" => srv' = "refuses" \/ cut' = "broken"

LEMMA ExcuseRemains ==
  ASSUME Remains
  PROVE  /\ Posts \subseteq Posts' /\ (Excused => Excused')
         /\ Flight' = Flight /\ ClientView' = ClientView /\ (Live' <=> Live)
         /\ ClientAwait' = ClientAwait /\ Inners' = Inners /\ (ClientInv => ClientInv')
<1>1. /\ Flight' = Flight /\ ClientView' = ClientView /\ (Live' <=> Live)
      /\ ClientAwait' = ClientAwait /\ Inners' = Inners /\ (ClientInv => ClientInv')
  BY ClientStill DEF Remains
<1>2. Posts \subseteq Posts'
  BY DEF Remains, Posts
<1>3. KeyUpdateSent => Accepted /\ Accepted' /\ KeyUpdateSent'
  BY <1>1 DEF Remains, KeyUpdateSent, Accepted, Whole
<1>4. Excused => Excused'
  BY <1>3 DEF Remains, Excused
<1> QED BY <1>1, <1>2, <1>4

LEMMA BothRemain ==
  ASSUME AgreeInv, Remains,
         Accepted' => writeKey.epoch # "none",
         writeKey.epoch # "none" => srvKey'.epoch = "application",
         srv' = "done" => closed \/ notified',
         ~closed /\ pc # "failed" => asked' <= written
  PROVE  ClientInv' /\ BothInv'
<1>1. Posts \subseteq Posts' /\ (Excused => Excused') /\ ClientInv'
  BY ExcuseRemains DEF AgreeInv
<1>2. pc = "open" => Posted(Posts', buffer)
  BY <1>1 DEF AgreeInv, BothInv, Posted
<1> QED BY <1>1, <1>2 DEF AgreeInv, BothInv, Remains, client

LEMMA BeforeItself == ASSUME NEW x, Seen(x) PROVE Before(x, x)
BY DEF Before, Seen

LEMMA BeforeAgain ==
  ASSUME NEW x, NEW y, NEW z, Seen(x), Seen(y), Seen(z), Before(x, y), Before(y, z)
  PROVE  Before(x, z)
BY DEF Before, Seen

(* The server sends a record.                                               *)
LEMMA DownSent ==
  ASSUME AgreeInv, Remains, cut # "broken", NEW r, down' = Append(down, r),
         Seen(ServerView'), ServerView'.lost = 0, Before(ServerView, ServerView'),
         \/ Follows(Flight, Posts', ServerView, r, ServerView')
         \/ Bad(ServerView, r) /\ Excused'
  PROVE  DownInv' /\ IsSequence(down')
<1> DEFINE Arrives(z) ==
             /\ Before(z, ServerView')
             /\ z.lost = 0 => z = ServerView' \/ cut' = "broken"
             /\ z.lost # 0 => Excused'
<1>1. IsSequence(down) /\ IsSequence(down')
  BY AppendIs DEF AgreeInv
<1>2. /\ Posts \subseteq Posts' /\ (Excused => Excused') /\ Flight' = Flight
      /\ ClientView' = ClientView /\ (Live' <=> Live)
  BY ExcuseRemains
<1>3. Seen(ServerView) /\ ServerView.lost = 0
  BY ServerIs DEF AgreeInv
<1>4. ASSUME Live
      PROVE  \E z : Leads(Flight, Posts', ClientView, Append(down, r), z) /\ Arrives(z)
  <2>1. PICK y : Leads(Flight, Posts, ClientView, down, y) /\ Reaches(y)
    BY <1>4 DEF AgreeInv, DownInv
  <2>2. Leads(Flight, Posts', ClientView, down, y) /\ Seen(y)
    BY <1>1, <1>2, <2>1, LeadsStill, LeadsFrom
  <2>3. Before(y, ServerView')
    BY <1>3, <2>1, <2>2, BeforeAgain DEF Reaches
  <2>4. CASE y.lost # 0
    <3>1. Before(y, y)
      BY <2>2 DEF Before, Seen
    <3>2. Follows(Flight, Posts', y, r, y)
      BY <2>2, <2>4, <3>1 DEF Follows
    <3>3. Leads(Flight, Posts', ClientView, Append(down, r), y)
      BY <1>1, <2>2, <3>2, FlightIs, LeadsOn
    <3>4. Arrives(y)
      BY <1>2, <2>1, <2>3, <2>4 DEF Reaches
    <3> QED BY <3>3, <3>4
  <2>5. CASE y.lost = 0 /\ Follows(Flight, Posts', ServerView, r, ServerView')
    <3>1. y = ServerView
      BY <2>1, <2>5 DEF Reaches
    <3>2. Leads(Flight, Posts', ClientView, Append(down, r), ServerView')
      BY <1>1, <2>2, <2>5, <3>1, FlightIs, LeadsOn
    <3>3. Before(ServerView', ServerView')
      BY DEF Before, Seen
    <3>4. Arrives(ServerView')
      BY <3>3
    <3> QED BY <3>2, <3>4
  <2>6. CASE y.lost = 0 /\ Bad(ServerView, r) /\ Excused'
    <3> DEFINE z == Lost(ServerView')
    <3>1. y = ServerView
      BY <2>1, <2>6 DEF Reaches
    <3>2. Seen(z) /\ z.lost # 0 /\ Before(ServerView, z) /\ Before(z, ServerView')
      <4>1. Before(ServerView', ServerView')
        BY DEF Before, Seen
      <4>2. /\ Seen(Lost(ServerView')) /\ Lost(ServerView').lost = 1
            /\ Before(ServerView, ServerView') <=> Before(ServerView, Lost(ServerView'))
            /\ Before(ServerView', ServerView') <=> Before(Lost(ServerView'), ServerView')
        BY LostIs
      <4> QED BY <4>1, <4>2
    <3> HIDE DEF z
    <3>3. Follows(Flight, Posts', ServerView, r, z)
      BY <2>6, <3>2 DEF Follows
    <3>4. Leads(Flight, Posts', ClientView, Append(down, r), z)
      BY <1>1, <2>2, <3>1, <3>3, FlightIs, LeadsOn
    <3>5. Arrives(z)
      BY <2>6, <3>2
    <3> QED BY <3>4, <3>5
  <2> QED BY <2>4, <2>5, <2>6
<1> QED BY <1>1, <1>2, <1>4 DEF DownInv, Reaches

(* The server sends nothing.                                                *)
LEMMA DownUnsent ==
  ASSUME AgreeInv, Remains, UNCHANGED down, ServerView' = ServerView,
         cut = "broken" => cut' = "broken"
  PROVE  DownInv' /\ IsSequence(down')
<1>1. /\ Posts \subseteq Posts' /\ (Excused => Excused') /\ Flight' = Flight
      /\ ClientView' = ClientView /\ (Live' <=> Live)
  BY ExcuseRemains
<1>2. ASSUME Live
      PROVE  \E z : Leads(Flight, Posts', ClientView, down, z) /\ Reaches(z)'
  <2>1. PICK y : Leads(Flight, Posts, ClientView, down, y) /\ Reaches(y)
    BY <1>2 DEF AgreeInv, DownInv
  <2>2. Leads(Flight, Posts', ClientView, down, y)
    BY <1>1, <2>1, LeadsStill
  <2>3. Reaches(y)'
    BY <1>1, <2>1 DEF Reaches
  <2> QED BY <2>2, <2>3
<1> QED BY <1>1, <1>2 DEF AgreeInv, DownInv

(* The server reads nothing.                                                *)
LEMMA UpUnread ==
  ASSUME AgreeInv, Remains, UNCHANGED <<up, srvOpens>>,
         \/ srv' = srv
         \/ srv = "flight" /\ srv' = "wait finished"
         \/ srv' \in {"done", "refuses", "gone"}
  PROVE  UpInv'
<1>1. Flight' = Flight /\ ClientAwait' = ClientAwait /\ Inners' = Inners
  BY ExcuseRemains
<1>2. ASSUME Listening' PROVE Listening /\ ServerAwait' = ServerAwait
  BY <1>2 DEF Listening, ServerAwait
<1> QED BY <1>1, <1>2 DEF AgreeInv, UpInv

LEMMA OneAppended ==
  ASSUME NEW s, IsSequence(s), NEW a
  PROVE  s \o <<a>> = Append(s, a)
<1>1. PICK S : s \in Seq(S)
  BY DEF IsSequence
<1> DEFINE T == S \cup {a}
<1>2. s \in Seq(T) /\ a \in T
  BY <1>1
<1> HIDE DEF T
<1> QED BY <1>2

LEMMA UpTaken ==
  ASSUME AgreeInv, Listening, up # <<>>
  PROVE  \E z : /\ Expects(Flight, Inners, ServerAwait, Head(up), z)
                /\ Meets(Flight, Inners, z, Tail(up), ClientAwait)
                /\ Later(z, ClientAwait)
<1>1. IsSequence(up) /\ IsSequence(Tail(up))
  BY TailIs DEF AgreeInv, KeyInv
<1>2. PICK z : /\ Expects(Flight, Inners, ServerAwait, Head(up), z)
               /\ Meets(Flight, Inners, z, Tail(up), ClientAwait)
  BY <1>1, MeetsFirst DEF AgreeInv, UpInv
<1>3. Later(z, ClientAwait)
  BY <1>1, <1>2, MeetsFrom
<1> QED BY <1>2, <1>3

LEMMA UpRead ==
  ASSUME AgreeInv, Remains, up' = Tail(up), NEW z,
         Meets(Flight, Inners, z, Tail(up), ClientAwait), Listening' => ServerAwait' = z
  PROVE  UpInv'
BY ExcuseRemains DEF UpInv

LEMMA SrvHelloAgrees ==
  ASSUME AgreeInv, SrvHello
  PROVE  ClientInv' /\ ServerInv' /\ BothInv' /\ DownInv' /\ UpInv' /\ IsSequence(down')
<1> DEFINE units == Units("ServerHello", <<>>)
           a == Plain("handshake", First(units, 1))
           b == Plain("handshake", Beyond(units, 1))
           r == Plain("handshake", units)
<1>1. /\ srv = "wait hello" /\ srv' = "flight"
      /\ srvTranscript' = Hellos /\ srvKey' = Key("handshake", Hellos)
      /\ srvOpens' = Key("handshake", Hellos)
      /\ UNCHANGED <<client, cut, server, asked, answered, notified>>
  BY DEF SrvHello
<1>17. todo' = AllOf(Flight)
  BY DEF SrvHello, AllOf
<1>18. up # <<>> /\ up' = Tail(up)
  BY DEF SrvHello
<1>16. /\ server.splits => down' = down \o <<a, b>>
       /\ ~server.splits => down' = down \o <<r>>
  BY DEF SrvHello, Send
<1> HIDE DEF a, b, r
<1>2. /\ srvKey = NoKey /\ ~Accepted /\ ServerView = View(0, 0, NoKey, 0, 0)
      /\ Seen(ServerView) /\ ServerView.lost = 0
  BY <1>1, ServerIs DEF AgreeInv
<1>3. /\ IsKey(srvKey') /\ srvKey'.epoch = "handshake"
  BY <1>1, KeyIs
<1>4. Remains /\ Flight' = Flight
  BY <1>1, <1>2, ExcuseRemains DEF Remains
<1>5. /\ IsSequence(AllOf(Flight)) /\ Len(AllOf(Flight)) = Total(Flight)
      /\ Total(Flight) \in Nat /\ Total(Flight) > 0
  BY FlightUnits
<1>6. asked = 0 /\ answered = 0 /\ ~notified /\ cut \notin {"broken", "closed"}
      /\ asked \in Nat /\ server \in Servers /\ cut \in {"no", "garbled"}
      /\ answered \in 0 .. Blocks /\ notified \in BOOLEAN
  BY <1>1, <1>2, NoKeyIs DEF AgreeInv, ServerInv
<1>7. ServerInv'
  <2>1. /\ IsSequence(todo') /\ Len(todo') = Total(Flight)
        /\ Len(todo') \in 1 .. Total(Flight)
    BY <1>5, <1>17
  <2>2. todo' = SubSeq(AllOf(Flight), Total(Flight) - Len(todo') + 1, Total(Flight))
    <3> DEFINE all == AllOf(Flight)
    <3>1. IsSequence(all) /\ Total(Flight) - Len(todo') + 1 = 1 /\ Total(Flight) = Len(all)
      BY <1>5, <2>1
    <3> HIDE DEF all
    <3>2. SubSeq(all, 1, Len(all)) = all
      BY <3>1, SubSeqFull DEF IsSequence
    <3> QED BY <1>17, <3>1, <3>2 DEF all
  <2>3. FlightToDo'
    BY <1>4, <2>1, <2>2 DEF FlightToDo
  <2> QED BY <1>1, <1>3, <1>6, <2>3 DEF ServerInv
<1>8. ServerView' = View(1, 0, Key("handshake", Hellos), 0, 0) /\ ~Accepted'
  <2>1. Written' = 0
    <3>1. Len(todo') = Total(Flight) /\ Total(Flight) - Total(Flight) = 0
      BY <1>5, <1>17
    <3> QED BY <1>3, <1>4, <3>1 DEF Written
  <2>2. ServerView' = View(1, 0, Key("handshake", Hellos), 0, 0)
    BY <1>1, <1>3, <1>6, <2>1 DEF ServerView
  <2>3. ~(Len(Hellos) > Len(Whole(Flight)))
    BY HellosIs, WholeIs, FlightIs, LengthIs
  <2> QED BY <1>1, <1>4, <2>2, <2>3 DEF Accepted
<1>9. ClientInv' /\ BothInv'
  <2>1. writeKey.epoch = "none"
    BY <1>2, NoKeyIs DEF AgreeInv, BothInv
  <2> QED BY <1>1, <1>4, <1>6, <1>8, <2>1, BothRemain DEF AgreeInv, BothInv
<1>10. UpInv'
  <2>1. Listening /\ ServerAwait.at = "hello"
    BY <1>1, AwaitIs DEF Listening, ServerAwait
  <2>2. PICK z : /\ Expects(Flight, Inners, ServerAwait, Head(up), z)
                 /\ Meets(Flight, Inners, z, Tail(up), ClientAwait)
    BY <1>18, <2>1, UpTaken
  <2>3. z = Await("finished", Key("handshake", Hellos))
    BY <2>1, <2>2 DEF Expects
  <2>4. ServerAwait' = z
    BY <1>1, <2>3 DEF ServerAwait
  <2> QED BY <1>4, <1>18, <2>2, <2>4, UpRead
<1>11. /\ IsSequence(units) /\ Len(units) = Parts /\ Parts \in Nat /\ Parts > 0
  <2> DEFINE S == {[m |-> "ServerHello", part |-> i, over |-> <<>>] : i \in 1 .. Parts}
             f == [i \in 1 .. Parts |-> [m |-> "ServerHello", part |-> i, over |-> <<>>]]
  <2>1. units = f /\ f \in [1 .. Parts -> S]
    BY DEF Units
  <2>2. Parts \in Nat /\ Parts > 0
    BY SizesAssumption
  <2> HIDE DEF S, f
  <2> QED BY <2>1, <2>2 DEF IsSequence
<1> HIDE DEF units
<1>12. /\ ServerView.hello = 0 /\ ServerView.flight = 0 /\ ServerView.blocks = 0
       /\ ServerView.over = 0
  BY <1>2, ViewIs
<1>13. /\ Seen(ServerView') /\ ServerView'.lost = 0 /\ Before(ServerView, ServerView')
       /\ ServerView'.hello = 1
  <2>1. /\ ServerView'.hello = 1 /\ ServerView'.flight = 0 /\ ServerView'.blocks = 0
        /\ ServerView'.over = 0 /\ ServerView'.lost = 0
    BY <1>8, ViewIs
  <2>2. Before(ServerView, ServerView')
    BY <1>12, <2>1 DEF Before
  <2>3. Seen(ServerView')
    BY <1>1, <1>3, <1>8, ViewSeen
  <2> QED BY <2>1, <2>2, <2>3
<1>14. CASE ~server.splits
  <2>1. down' = Append(down, r)
    BY <1>14, <1>16, OneAppended DEF AgreeInv
  <2>2. HelloTo(ServerView, r, ServerView')
    <3>1. r.type = "handshake" /\ Len(r.body) >= Parts
      BY <1>11 DEF r, Plain, Record
    <3> QED BY <1>8, <1>12, <3>1 DEF HelloTo
  <2>3. Follows(Flight, Posts', ServerView, r, ServerView')
    BY <1>2, <2>2 DEF Follows
  <2>4. DownInv' /\ IsSequence(down')
    BY <1>4, <1>6, <1>13, <2>1, <2>3, DownSent
  <2> QED BY <1>7, <1>9, <1>10, <2>4
<1>15. CASE server.splits
  <2> DEFINE mid == Append(down, a)
             z == Lost(ServerView')
             more == Posts'
  <2>1. IsSequence(down) /\ IsSequence(mid) /\ IsSequence(down') /\ down' = Append(mid, b)
    <3>1. IsSequence(down) /\ IsSequence(mid) /\ down' = Append(mid, b)
      BY <1>15, <1>16, TwoAppended, AppendIs DEF AgreeInv
    <3> HIDE DEF mid
    <3> QED BY <3>1, AppendIs
  <2>2. Excused /\ Excused'
    BY <1>1, <1>15 DEF Excused
  <2>3. /\ Seen(z) /\ z.lost # 0 /\ Before(ServerView, z) /\ Before(z, ServerView')
        /\ Before(z, z) /\ Before(ServerView', z)
    <3>1. Before(ServerView', ServerView')
      BY <1>13 DEF Before, Seen
    <3>2. /\ Seen(Lost(ServerView')) /\ Lost(ServerView').lost = 1
          /\ Before(ServerView, ServerView') <=> Before(ServerView, Lost(ServerView'))
          /\ Before(ServerView', ServerView') <=> Before(Lost(ServerView'), ServerView')
          /\ Before(ServerView', ServerView') <=> Before(ServerView', Lost(ServerView'))
      BY <1>13, LostIs
    <3>3. Before(Lost(ServerView'), Lost(ServerView'))
      BY <3>2 DEF Before, Seen
    <3> QED BY <1>13, <3>1, <3>2, <3>3
  <2> HIDE DEF mid, z
  <2>4. PICK v : Follows(Flight, more, ServerView, a, v) /\ Follows(Flight, more, v, b, z)
    <3>1. a.type = "handshake" /\ a.body = First(units, 1) /\ b.type = "handshake"
      BY DEF a, b, Plain, Record
    <3>2. CASE Len(a.body) >= Parts
      <4>1. HelloTo(ServerView, a, ServerView')
        BY <1>8, <1>12, <3>1, <3>2 DEF HelloTo
      <4>2. Bad(ServerView', b)
        BY <1>13, <3>1 DEF Bad
      <4>3. Follows(Flight, more, ServerView, a, ServerView')
        BY <1>2, <4>1 DEF Follows
      <4>4. Follows(Flight, more, ServerView', b, z)
        BY <2>3, <4>2 DEF Follows
      <4> QED BY <4>3, <4>4
    <3>3. CASE ~(Len(a.body) >= Parts)
      <4>1. Len(a.body) < Parts
        <5>1. IsSequence(a.body)
          <6>1. 0 \in Nat /\ Smaller(1, Len(units)) \in 0 .. Len(units)
            BY <1>11 DEF Smaller
          <6>2. IsSequence(SubSeq(units, 0 + 1, Smaller(1, Len(units))))
            BY <1>11, <6>1, PartIs
          <6> QED BY <3>1, <6>2 DEF First
        <5> QED BY <1>11, <3>3, <5>1, LengthIs
      <4>2. Bad(ServerView, a)
        BY <3>1, <4>1 DEF Bad
      <4>3. Follows(Flight, more, ServerView, a, z)
        BY <2>3, <4>2 DEF Follows
      <4>4. Follows(Flight, more, z, b, z)
        BY <2>3 DEF Follows
      <4> QED BY <4>3, <4>4
    <3> QED BY <3>2, <3>3
  <2>5. ASSUME Live
        PROVE  \E w : /\ Leads(Flight, more, ClientView, down', w)
                      /\ Before(w, ServerView') /\ w.lost # 0
    <3>1. PICK y : Leads(Flight, Posts, ClientView, down, y) /\ Reaches(y)
      BY <2>5 DEF AgreeInv, DownInv
    <3>2. Leads(Flight, more, ClientView, down, y) /\ Seen(y)
      BY <1>4, <2>1, <3>1, ExcuseRemains, LeadsStill, LeadsFrom
    <3>3. Before(y, ServerView')
      BY <1>2, <1>13, <3>1, <3>2, BeforeAgain DEF Reaches
    <3>4. CASE y.lost # 0
      <4>1. Before(y, y)
        BY <3>2 DEF Before, Seen
      <4>2. Follows(Flight, more, y, a, y) /\ Follows(Flight, more, y, b, y)
        BY <3>2, <3>4, <4>1 DEF Follows
      <4>3. Leads(Flight, more, ClientView, mid, y)
        BY <2>1, <3>2, <4>2, FlightIs, LeadsOn DEF mid
      <4>4. Leads(Flight, more, ClientView, down', y)
        BY <2>1, <4>2, <4>3, FlightIs, LeadsOn
      <4> QED BY <3>3, <3>4, <4>4
    <3>5. CASE y.lost = 0
      <4>1. y = ServerView
        BY <1>6, <3>1, <3>5 DEF Reaches
      <4>2. Leads(Flight, more, ClientView, mid, v)
        BY <2>1, <2>4, <3>2, <4>1, FlightIs, LeadsOn DEF mid
      <4>3. Leads(Flight, more, ClientView, down', z)
        BY <2>1, <2>4, <4>2, FlightIs, LeadsOn
      <4> QED BY <2>3, <4>3
    <3> QED BY <3>4, <3>5
  <2>6. DownInv'
    BY <1>4, <2>2, <2>5, ExcuseRemains DEF DownInv, Reaches
  <2> QED BY <1>7, <1>9, <1>10, <2>1, <2>6
<1> QED BY <1>14, <1>15

LEMMA SrvChangeCipherSpecAgrees ==
  ASSUME AgreeInv, SrvChangeCipherSpec
  PROVE  ClientInv' /\ ServerInv' /\ BothInv' /\ DownInv' /\ UpInv' /\ IsSequence(down')
<1>1. /\ srv = "flight"
      /\ UNCHANGED <<client, up, cut, server, srv, srvTranscript, srvKey, srvOpens, todo,
                     asked, answered, notified>>
  BY DEF SrvChangeCipherSpec
<1>2. down' = Append(down, ChangeCipherSpec)
  BY OneAppended DEF AgreeInv, SrvChangeCipherSpec, Send
<1>3. /\ Flight' = Flight /\ (Accepted' <=> Accepted) /\ ServerView' = ServerView
      /\ Posts' = Posts
  <2>1. Flight' = Flight
    BY <1>1 DEF Flight
  <2>2. Accepted' <=> Accepted
    BY <1>1, <2>1 DEF Accepted
  <2>3. Written' = Written
    BY <1>1, <2>1 DEF Written
  <2> QED BY <1>1, <2>1, <2>2, <2>3 DEF ServerView, Posts
<1>4. Remains
  BY <1>1, <1>3 DEF Remains
<1>5. ServerInv'
  <2>1. FlightToDo => FlightToDo'
    BY <1>1, <1>3 DEF FlightToDo
  <2> QED BY <1>1, <1>3, <2>1 DEF AgreeInv, ServerInv
<1>6. ClientInv' /\ BothInv'
  BY <1>1, <1>3, <1>4, BothRemain DEF AgreeInv, BothInv
<1>7. UpInv'
  BY <1>1, <1>4, UpUnread
<1>8. DownInv' /\ IsSequence(down')
  <2>1. Seen(ServerView) /\ ServerView.lost = 0 /\ cut # "broken"
    BY <1>1, ServerIs DEF AgreeInv, ServerInv
  <2>2. Before(ServerView, ServerView)
    BY <2>1 DEF Before, Seen
  <2>3. Follows(Flight, Posts', ServerView, ChangeCipherSpec, ServerView)
    BY DEF Follows, ChangeCipherSpec, Plain, Record
  <2> QED BY <1>2, <1>3, <1>4, <2>1, <2>2, <2>3, DownSent
<1> QED BY <1>5, <1>6, <1>7, <1>8

(* The messages of the flight.                                              *)
LEMMA FlightSent ==
  ASSUME AgreeInv, srv = "flight", NEW n \in 1 .. Len(todo)
  PROVE  /\ Written + n <= Total(Flight) /\ n \in Nat \ {0}
         /\ SubSeq(todo, 1, n) = SubSeq(AllOf(Flight), Written + 1, Written + n)
         /\ Len(todo) <= Total(Flight)
         /\ Written = Total(Flight) - Len(todo) /\ Len(todo) \in Nat
         /\ \E rest : /\ rest = SubSeq(todo, n + 1, Len(todo))
                      /\ IsSequence(rest) /\ Len(rest) = Len(todo) - n
                      /\ rest = SubSeq(AllOf(Flight), Total(Flight) - Len(rest) + 1,
                                       Total(Flight))
<1> DEFINE all == AllOf(Flight)
           l == Len(todo)
           w == Written
           rest == SubSeq(todo, n + 1, Len(todo))
<1>1. FlightToDo /\ w = Total(Flight) - l
  BY ServerIs DEF AgreeInv, ServerInv, Written
<1>2. IsSequence(all) /\ Len(all) = Total(Flight) /\ Total(Flight) \in Nat
  BY FlightUnits
<1>3. IsSequence(todo) /\ l \in 1 .. Total(Flight)
  BY <1>1 DEF FlightToDo
<1>4. todo = SubSeq(all, w + 1, Total(Flight))
  BY <1>1 DEF FlightToDo
<1>5. n \in 1 .. l /\ l = Len(todo)
  OBVIOUS
<1>14. rest = SubSeq(todo, n + 1, l)
  OBVIOUS
<1> HIDE DEF all, l, w, rest
<1>6. /\ w \in Nat /\ n \in Nat \ {0} /\ w + n <= Total(Flight) /\ l \in Nat
      /\ Total(Flight) \in w .. Len(all) /\ n \in 0 .. Total(Flight) - w
      /\ Total(Flight) - w = l
  BY <1>1, <1>2, <1>3, <1>5
<1>7. /\ SubSeq(SubSeq(all, w + 1, Total(Flight)), 1, n) = SubSeq(all, w + 1, w + n)
      /\ SubSeq(SubSeq(all, w + 1, Total(Flight)), n + 1, Total(Flight) - w)
           = SubSeq(all, w + n + 1, Total(Flight))
  BY <1>2, <1>6, PartOfPart
<1>8. SubSeq(todo, 1, n) = SubSeq(all, w + 1, w + n)
  BY <1>4, <1>7
<1>9. rest = SubSeq(all, w + n + 1, Total(Flight))
  BY <1>4, <1>6, <1>7, <1>14
<1> DEFINE v == w + n
<1>10. v \in Nat /\ Total(Flight) \in v .. Len(all) /\ Total(Flight) - v = l - n
  BY <1>1, <1>2, <1>6
<1>11. rest = SubSeq(all, v + 1, Total(Flight))
  BY <1>9
<1> HIDE DEF v
<1>12. IsSequence(rest) /\ Len(rest) = Total(Flight) - v
  BY <1>2, <1>10, <1>11, PartIs
<1>13. Total(Flight) - (Total(Flight) - v) = v /\ l <= Total(Flight)
  BY <1>2, <1>3, <1>10
<1>15. rest = SubSeq(all, Total(Flight) - Len(rest) + 1, Total(Flight))
  BY <1>11, <1>12, <1>13
<1>16. IsSequence(rest) /\ Len(rest) = l - n
  BY <1>10, <1>12
<1>17. \E r : /\ r = SubSeq(todo, n + 1, l) /\ IsSequence(r) /\ Len(r) = l - n
              /\ r = SubSeq(all, Total(Flight) - Len(r) + 1, Total(Flight))
  BY <1>14, <1>15, <1>16
<1> QED BY <1>1, <1>6, <1>8, <1>13, <1>17 DEF all, l, w

LEMMA PostedParts ==
  ASSUME NEW posts, NEW s, Posted(posts, s), NEW n \in 1 .. Len(s)
  PROVE  Posted(posts, SubSeq(s, 1, n)) /\ Posted(posts, SubSeq(s, n + 1, Len(s)))
<1>1. /\ IsSequence(s) /\ Len(s) \in Nat /\ \A i \in 1 .. Len(s) : s[i].m \in posts
  BY LengthIs, DomainIs DEF Posted
<1> DEFINE l == Len(s)
           t == SubSeq(s, 0 + 1, n)
           u == SubSeq(s, n + 1, l)
<1>2. n \in Nat /\ n \in 0 .. Len(s) /\ l \in n .. Len(s) /\ l = Len(s) /\ n - 0 = n
  BY <1>1
<1> HIDE DEF l
<1>3. IsSequence(t) /\ Len(t) = n - 0 /\ \A i \in 1 .. n - 0 : t[i] = s[0 + i]
  BY <1>1, <1>2, PartIs
<1>4. IsSequence(u) /\ Len(u) = l - n /\ \A i \in 1 .. l - n : u[i] = s[n + i]
  BY <1>1, <1>2, PartIs
<1>5. t = SubSeq(s, 1, n) /\ u = SubSeq(s, n + 1, Len(s))
  BY <1>2
<1> HIDE DEF t, u
<1>6. \A i \in DOMAIN t : t[i].m \in posts
  <2>1. SUFFICES ASSUME NEW i \in 1 .. n PROVE t[i].m \in posts
    BY <1>2, <1>3, DomainIs
  <2>2. i \in 1 .. Len(s) /\ 0 + i = i
    BY <1>1, <1>2
  <2> QED BY <1>1, <1>2, <1>3, <2>2
<1>7. \A i \in DOMAIN u : u[i].m \in posts
  <2>1. SUFFICES ASSUME NEW i \in 1 .. l - n PROVE u[i].m \in posts
    BY <1>4, DomainIs
  <2>2. n + i \in 1 .. Len(s)
    BY <1>1, <1>2
  <2> QED BY <1>1, <1>4, <2>2
<1> QED BY <1>3, <1>4, <1>5, <1>6, <1>7 DEF Posted

LEMMA SrvMessagesAgrees ==
  ASSUME AgreeInv, SrvMessages
  PROVE  ClientInv' /\ ServerInv' /\ BothInv' /\ DownInv' /\ UpInv' /\ IsSequence(down')
<1>1. /\ srv \in {"flight", "open"} /\ cut # "broken"
      /\ UNCHANGED <<client, up, cut, server, srvOpens, asked, answered, notified>>
  BY DEF SrvMessages, AgreeInv, ServerInv
<1>2. PICK n \in 1 .. Len(todo) :
        /\ down' = down \o <<Sealed(srvKey, "handshake", SubSeq(todo, 1, n))>>
        /\ todo' = SubSeq(todo, n + 1, Len(todo))
  BY DEF SrvMessages, Send
<1>3. IF srv = "flight" /\ todo' = <<>>
      THEN /\ srv' = "wait finished" /\ srvTranscript' = srvTranscript \o Flight
           /\ srvKey' = Key("application", srvTranscript')
      ELSE srvKey' = Used(srvKey) /\ UNCHANGED <<srv, srvTranscript>>
  BY DEF SrvMessages
<1> DEFINE body == SubSeq(todo, 1, n)
           r == Sealed(srvKey, "handshake", body)
<1>4. down' = Append(down, r)
  BY <1>2, OneAppended DEF AgreeInv
<1>5. r.type = "data" /\ r.key = srvKey /\ r.inner = "handshake" /\ r.body = body
  BY DEF Sealed, Record
<1> HIDE DEF r, body
<1>6. Flight' = Flight /\ IsKey(srvKey) /\ server \in Servers /\ asked \in Nat
      /\ notified \in BOOLEAN
  BY <1>1, ClientStill DEF AgreeInv, ServerInv
<1>7. answered \in 0 .. Blocks /\ cut \in {"no", "garbled"}
  BY <1>1 DEF AgreeInv, ServerInv
<1>8. CASE srv = "flight"
  <2>1. /\ srvKey.epoch = "handshake" /\ ~Accepted /\ srvTranscript = Hellos
        /\ ServerView = View(1, Written, srvKey, 0, 0) /\ answered = 0 /\ ~notified
        /\ asked = 0 /\ srvOpens = Key("handshake", Hellos)
    BY <1>8, ServerIs DEF AgreeInv, ServerInv
  <2>2. /\ Written + n <= Total(Flight) /\ n \in Nat \ {0}
        /\ Written = Total(Flight) - Len(todo) /\ Len(todo) \in Nat
        /\ Len(todo) <= Total(Flight) /\ Total(Flight) \in Nat /\ Written \in Nat
    BY <1>8, FlightSent, FlightUnits, ServerIs DEF AgreeInv
  <2>20. body = SubSeq(AllOf(Flight), Written + 1, Written + n)
    BY <1>8, FlightSent DEF body
  <2>3. PICK rest :
          /\ rest = SubSeq(todo, n + 1, Len(todo))
          /\ IsSequence(rest) /\ Len(rest) = Len(todo) - n
          /\ rest = SubSeq(AllOf(Flight), Total(Flight) - Len(rest) + 1, Total(Flight))
    BY <1>8, FlightSent
  <2>4. todo' = rest
    BY <1>2, <2>3
  <2>5. IsSequence(todo') /\ Len(todo') = Len(todo) - n /\ Len(todo') \in Nat
    <3>1. IsSequence(todo') /\ Len(todo') = Len(todo) - n
      BY <2>3, <2>4
    <3> QED BY <3>1, LengthIs
  <2>6. todo' = SubSeq(AllOf(Flight), Total(Flight) - Len(todo') + 1, Total(Flight))
    BY <2>3, <2>4
  <2>7. Total(Flight) - Len(todo') = Written + n
    BY <2>2, <2>5
  <2> DEFINE k == IF Written + n = Total(Flight) THEN AppKey(Flight) ELSE Used(srvKey)
             v == View(1, Written + n, k, 0, 0)
  <2>8. todo' = <<>> <=> Written + n = Total(Flight)
    <3>1. todo' = <<>> <=> Len(todo') = 0
      <4>1. PICK S : todo' \in Seq(S)
        BY <2>5 DEF IsSequence
      <4> QED BY <4>1, EmptySeq
    <3>2. Len(todo') = 0 <=> Written + n = Total(Flight)
      <4>1. Len(todo') \in Nat
        BY <2>5
      <4> QED BY <2>2, <2>7, <4>1
    <3> QED BY <3>1, <3>2
  <2>9. ServerInv' /\ ServerView' = v /\ ~Accepted'
    <3>1. CASE todo' = <<>>
      <4>1. /\ srv' = "wait finished" /\ srvTranscript' = Whole(Flight)
            /\ srvKey' = AppKey(Flight)
        BY <1>3, <1>8, <2>1, <3>1 DEF Whole, AppKey
      <4>2. IsKey(srvKey') /\ srvKey'.epoch = "application"
        BY <4>1, AppKeyIs
      <4>3. ServerInv'
        BY <1>1, <1>6, <1>7, <2>1, <3>1, <4>1, <4>2 DEF ServerInv
      <4>4. Written' = Total(Flight) /\ Written + n = Total(Flight)
        BY <1>6, <2>8, <3>1, <4>2 DEF Written
      <4>5. ServerView' = v
        BY <1>1, <2>1, <4>1, <4>2, <4>4 DEF ServerView
      <4>6. ~Accepted'
        BY <4>1 DEF Accepted
      <4> QED BY <4>3, <4>5, <4>6
    <3>2. CASE todo' # <<>>
      <4>1. srv' = "flight" /\ srvTranscript' = Hellos /\ srvKey' = Used(srvKey)
        BY <1>3, <1>8, <2>1, <3>2
      <4>2. IsKey(srvKey') /\ srvKey'.epoch = "handshake"
        BY <1>6, <2>1, <4>1, UsedIs
      <4>3. FlightToDo'
        <5>2. Len(todo') \in Nat /\ Written + n # Total(Flight)
          BY <2>5, <2>8, <3>2
        <5>1. Len(todo') \in 1 .. Total(Flight)
          BY <2>2, <2>7, <5>2
        <5> QED BY <1>6, <2>5, <2>6, <5>1 DEF FlightToDo
      <4>4. ServerInv'
        BY <1>1, <1>6, <1>7, <2>1, <4>1, <4>2, <4>3 DEF ServerInv
      <4>5. Written' = Written + n /\ Written + n # Total(Flight)
        BY <1>6, <2>7, <2>8, <3>2, <4>2 DEF Written
      <4>6. ServerView' = v
        BY <1>1, <2>1, <4>1, <4>2, <4>5 DEF ServerView
      <4>7. ~Accepted'
        <5>1. Accepted' <=> srv' # "wait finished" /\ Len(Hellos) > Len(Whole(Flight))
          BY <1>6, <4>1 DEF Accepted
        <5>2. ~(Len(Hellos) > Len(Whole(Flight)))
          BY HellosIs, WholeIs, FlightIs, LengthIs
        <5> QED BY <5>1, <5>2
      <4> QED BY <4>4, <4>6, <4>7
    <3> QED BY <3>1, <3>2
  <2>10. Remains /\ srv' # "done"
    BY <1>1, <1>3, <1>8, <2>1 DEF Remains
  <2>11. writeKey.epoch = "none"
    BY <2>1 DEF AgreeInv, BothInv
  <2>12. ClientInv' /\ BothInv'
    BY <1>1, <2>9, <2>10, <2>11, BothRemain DEF AgreeInv, BothInv
  <2>13. UpInv'
    BY <1>1, <1>3, <1>8, <2>10, UpUnread
  <2>14. FlightTo(Flight, ServerView, r, v)
    <3>1. /\ ServerView.hello = 1 /\ ServerView.flight = Written /\ ServerView.key = srvKey
          /\ ServerView.blocks = 0 /\ ServerView.over = 0
      BY <2>1, ViewIs
    <3>2. ServerView.hello # 0 /\ r.inner = "handshake"
      BY <1>5, <3>1
    <3>3. /\ ServerView.flight + n <= Total(Flight)
          /\ r.body = SubSeq(AllOf(Flight), ServerView.flight + 1, ServerView.flight + n)
      <4>1. ServerView.flight = Written
        BY <3>1
      <4>2. r.body = SubSeq(AllOf(Flight), Written + 1, Written + n)
        BY <1>5, <2>20
      <4>3. Written + n <= Total(Flight)
        BY <2>2
      <4> QED BY <4>1, <4>2, <4>3
    <3>4. v = View(ServerView.hello, ServerView.flight + n,
                   IF ServerView.flight + n = Total(Flight) THEN AppKey(Flight)
                   ELSE Used(ServerView.key), ServerView.blocks, ServerView.over)
      BY <3>1
    <3>5. n \in Nat \ {0}
      BY <2>2
    <3> HIDE DEF v, k
    <3> QED BY <3>2, <3>3, <3>4, <3>5 DEF FlightTo
  <2> HIDE DEF v, k
  <2>15. /\ ServerView.lost = 0 /\ ServerView.key = srvKey /\ Seen(ServerView)
    <3>1. ServerView = View(1, Written, srvKey, 0, 0)
      BY <2>1
    <3>2. ServerView.key = srvKey
      BY <3>1, ViewIs
    <3> QED BY <3>2, ServerIs DEF AgreeInv
  <2>16. Follows(Flight, Posts', ServerView, r, ServerView')
    BY <1>5, <2>9, <2>14, <2>15 DEF Follows, SealedTo
  <2>17. Seen(ServerView') /\ Before(ServerView, ServerView')
    BY <2>15, <2>16, FlightIs, FollowsOnwards DEF Onwards
  <2>18. ServerView'.lost = 0
    BY <2>9, ViewIs DEF v
  <2>19. DownInv' /\ IsSequence(down')
    BY <1>1, <1>4, <2>10, <2>16, <2>17, <2>18, DownSent
  <2> QED BY <2>9, <2>12, <2>13, <2>19
<1>9. CASE srv = "open"
  <2>1. /\ srvKey.epoch = "application" /\ Accepted /\ ~notified
        /\ ServerView = View(1, Total(Flight), srvKey, answered, 0)
        /\ Seen(ServerView) /\ ServerView.lost = 0
    BY <1>9, ServerIs DEF AgreeInv
  <2>2. srv' = "open" /\ srvTranscript' = srvTranscript /\ srvKey' = Used(srvKey)
    BY <1>3, <1>9
  <2>3. IsKey(srvKey') /\ srvKey'.epoch = "application"
    BY <1>6, <2>1, <2>2, UsedIs
  <2>4. Accepted' /\ Posts' = Posts
    <3>1. Accepted'
      BY <1>6, <1>9, <2>1, <2>2 DEF Accepted
    <3> QED BY <1>1, <2>1, <3>1 DEF Posts
  <2>5. Posted(Posts, todo) /\ srvOpens.seq = asked
    BY <1>9 DEF AgreeInv, ServerInv
  <2>6. Posted(Posts, body) /\ Posted(Posts, todo')
    BY <1>2, <2>5, PostedParts DEF body
  <2>7. ServerInv'
    BY <1>1, <1>6, <1>7, <2>1, <2>2, <2>3, <2>4, <2>5, <2>6 DEF ServerInv
  <2>8. Remains
    BY <1>1, <1>9, <2>2, <2>4 DEF Remains
  <2>9. ClientInv' /\ BothInv'
    BY <1>1, <1>9, <2>1, <2>2, <2>3, <2>8, BothRemain DEF AgreeInv, BothInv
  <2>10. UpInv'
    BY <1>1, <1>9, <2>2, <2>8, UpUnread
  <2>11. ServerView' = View(1, Total(Flight), Used(srvKey), answered, 0)
    <3>1. Written' = Total(Flight)
      BY <1>6, <2>3 DEF Written
    <3> QED BY <1>1, <2>1, <2>2, <2>3, <3>1 DEF ServerView
  <2>12. PostTo(Flight, Posts', ServerView, r, ServerView')
    <3>1. /\ ServerView.hello = 1 /\ ServerView.flight = Total(Flight)
          /\ ServerView.key = srvKey /\ ServerView.blocks = answered
          /\ ServerView.over = 0
      BY <2>1, ViewIs
    <3> QED BY <1>5, <2>4, <2>6, <2>11, <3>1 DEF PostTo
  <2>13. ServerView.key = srvKey /\ ServerView'.lost = 0
    BY <2>1, <2>11, ViewIs
  <2>14. Follows(Flight, Posts', ServerView, r, ServerView')
    BY <1>5, <2>1, <2>12, <2>13 DEF Follows, SealedTo
  <2>15. Seen(ServerView') /\ Before(ServerView, ServerView')
    BY <2>1, <2>14, FlightIs, FollowsOnwards DEF Onwards
  <2>16. DownInv' /\ IsSequence(down')
    BY <1>1, <1>4, <2>8, <2>13, <2>14, <2>15, DownSent
  <2> QED BY <2>7, <2>9, <2>10, <2>16
<1> QED BY <1>1, <1>8, <1>9
(* A server that stops, for one reason or another, is where it was.         *)
LEMMA StopsThere ==
  ASSUME AgreeInv,
         UNCHANGED <<client, server, srvTranscript, srvKey, srvOpens, todo, asked,
                     answered, notified>>,
         srv' = srv \/ srv' \in {"refuses", "gone"}
  PROVE  /\ Flight' = Flight /\ (Accepted' <=> Accepted) /\ Posts' = Posts
         /\ ServerView' = ServerView /\ (FlightToDo => FlightToDo')
         /\ Seen(ServerView) /\ ServerView.lost = 0 /\ Before(ServerView, ServerView)
<1>1. Flight' = Flight
  BY DEF Flight
<1>2. Accepted' <=> Accepted
  BY <1>1, ServerIs DEF AgreeInv, Accepted
<1>3. Written' = Written /\ (FlightToDo => FlightToDo')
  BY <1>1 DEF Written, FlightToDo
<1>4. Posts' = Posts
  BY <1>2 DEF Posts
<1>5. ServerView' = ServerView
  BY <1>3 DEF ServerView
<1>6. Seen(ServerView) /\ ServerView.lost = 0
  BY ServerIs DEF AgreeInv
<1>7. Before(ServerView, ServerView)
  BY <1>6 DEF Before, Seen
<1> QED BY <1>1, <1>2, <1>3, <1>4, <1>5, <1>6, <1>7

LEMMA SrvRefusesAgrees ==
  ASSUME AgreeInv, SrvRefuses
  PROVE  ClientInv' /\ ServerInv' /\ BothInv' /\ DownInv' /\ UpInv' /\ IsSequence(down')
<1> DEFINE r == IF srv = "wait hello" THEN Plain("alert", <<"handshake_failure">>)
                ELSE Sealed(srvKey, "alert", <<"internal_error">>)
<1>1. /\ srv \in {"wait hello", "flight", "wait finished", "open"} /\ srv' = "refuses"
      /\ UNCHANGED <<client, up, cut, server, srvTranscript, srvKey, srvOpens, todo,
                     asked, answered, notified>>
  BY DEF SrvRefuses
<1>2. down' = Append(down, r)
  BY OneAppended DEF AgreeInv, SrvRefuses, Send
<1>3. /\ <<"handshake_failure">> # CloseNotify /\ <<"internal_error">> # CloseNotify
  BY DEF CloseNotify
<1>4. Bad(ServerView, r)
  BY <1>3 DEF Bad, Plain, Sealed, Record
<1> HIDE DEF r
<1>5. /\ Flight' = Flight /\ (Accepted' <=> Accepted) /\ Posts' = Posts
      /\ ServerView' = ServerView /\ (FlightToDo => FlightToDo')
      /\ Seen(ServerView) /\ ServerView.lost = 0 /\ Before(ServerView, ServerView)
  BY <1>1, StopsThere
<1>6. Remains /\ Excused'
  BY <1>1, <1>5 DEF Remains, Excused
<1>7. ServerInv' /\ cut # "broken"
  BY <1>1, <1>5 DEF AgreeInv, ServerInv
<1>8. ClientInv' /\ BothInv'
  BY <1>1, <1>5, <1>6, BothRemain DEF AgreeInv, BothInv
<1>9. UpInv'
  BY <1>1, <1>6, UpUnread
<1>10. DownInv' /\ IsSequence(down')
  BY <1>2, <1>4, <1>5, <1>6, <1>7, DownSent
<1> QED BY <1>7, <1>8, <1>9, <1>10

LEMMA SrvClosesAgrees ==
  ASSUME AgreeInv, SrvCloses
  PROVE  ClientInv' /\ ServerInv' /\ BothInv' /\ DownInv' /\ UpInv' /\ IsSequence(down')
<1>1. /\ srv \in {"done", "refuses"} /\ cut = "no" /\ cut' = "closed" /\ srv' = srv
      /\ UNCHANGED <<client, down, up, server, srvTranscript, srvKey, srvOpens, todo,
                     asked, answered, notified>>
  BY DEF SrvCloses, machine, AgreeInv, ServerInv
<1>2. /\ Flight' = Flight /\ (Accepted' <=> Accepted) /\ Posts' = Posts
      /\ ServerView' = ServerView /\ (FlightToDo => FlightToDo')
  BY <1>1, StopsThere
<1>3. Remains
  BY <1>1, <1>2 DEF Remains
<1>4. ServerInv'
  BY <1>1, <1>2 DEF AgreeInv, ServerInv
<1>5. ClientInv' /\ BothInv'
  BY <1>1, <1>2, <1>3, BothRemain DEF AgreeInv, BothInv
<1>6. UpInv'
  BY <1>1, <1>3, UpUnread
<1>7. DownInv' /\ IsSequence(down')
  BY <1>1, <1>2, <1>3, DownUnsent
<1> QED BY <1>4, <1>5, <1>6, <1>7

LEMMA BreakAgrees ==
  ASSUME AgreeInv, Break
  PROVE  ClientInv' /\ ServerInv' /\ BothInv' /\ DownInv' /\ UpInv' /\ IsSequence(down')
<1>1. /\ cut # "broken" /\ cut' = "broken" /\ srv' = "gone" /\ up' = <<>>
      /\ UNCHANGED <<client, server, srvTranscript, srvKey, srvOpens, todo, asked,
                     answered, notified>>
  BY DEF Break
<1>2. PICK n \in 0 .. Len(down) : down' = SubSeq(down, 1, n)
  BY DEF Break
<1>3. /\ Flight' = Flight /\ (Accepted' <=> Accepted) /\ Posts' = Posts
      /\ ServerView' = ServerView /\ (FlightToDo => FlightToDo')
      /\ Seen(ServerView)
  BY <1>1, StopsThere
<1>4. Remains /\ Excused'
  BY <1>1, <1>3 DEF Remains, Excused
<1>5. ServerInv'
  BY <1>1, <1>3 DEF AgreeInv, ServerInv
<1>6. ClientInv' /\ BothInv'
  BY <1>1, <1>3, <1>4, BothRemain DEF AgreeInv, BothInv
<1>7. UpInv'
  BY <1>1 DEF UpInv, Listening
<1>8. ClientView' = ClientView /\ (Live' <=> Live)
  BY <1>4, ExcuseRemains
<1>9. IsSequence(down')
  <2> DEFINE a == 0
  <2>1. n \in a .. Len(down) /\ a \in Nat /\ IsSequence(down) /\ a + 1 = 1
    BY DEF AgreeInv
  <2> HIDE DEF a
  <2>2. IsSequence(SubSeq(down, a + 1, n))
    BY <2>1, PartIs
  <2> QED BY <1>2, <2>1, <2>2
<1>10. ASSUME Live
       PROVE  \E z : Leads(Flight, Posts, ClientView, down', z) /\ Before(z, ServerView)
  <2>1. PICK y : Leads(Flight, Posts, ClientView, down, y) /\ Before(y, ServerView)
    BY <1>10 DEF AgreeInv, DownInv, Reaches
  <2>2. PICK z : /\ Leads(Flight, Posts, ClientView, SubSeq(down, 1, n), z)
                 /\ Seen(z) /\ Onwards(z, y)
    BY <2>1, LeadsPartly DEF AgreeInv
  <2>3. Seen(y)
    BY <2>1, LeadsFrom DEF AgreeInv
  <2>4. Before(z, ServerView)
    BY <1>3, <2>1, <2>2, <2>3, BeforeAgain DEF Onwards
  <2> QED BY <1>2, <2>2, <2>4
<1>11. DownInv'
  BY <1>1, <1>3, <1>4, <1>8, <1>10 DEF DownInv, Reaches
<1> QED BY <1>5, <1>6, <1>7, <1>9, <1>11

LEMMA GarbleAgrees ==
  ASSUME AgreeInv, Garble
  PROVE  ClientInv' /\ ServerInv' /\ BothInv' /\ DownInv' /\ UpInv' /\ IsSequence(down')
<1>1. /\ cut = "no" /\ cut' = "garbled" /\ srv' = srv /\ up' = up
      /\ UNCHANGED <<client, server, srvTranscript, srvKey, srvOpens, todo, asked,
                     answered, notified>>
  BY DEF Garble, machine
<1>2. PICK i \in DOMAIN down, record \in Clear : down' = [down EXCEPT ![i] = record]
  BY DEF Garble
<1>3. /\ Flight' = Flight /\ (Accepted' <=> Accepted) /\ Posts' = Posts
      /\ ServerView' = ServerView /\ (FlightToDo => FlightToDo')
  BY <1>1, StopsThere
<1>4. Remains /\ Excused'
  BY <1>1, <1>3 DEF Remains, Excused
<1>5. ServerInv'
  BY <1>1, <1>3 DEF AgreeInv, ServerInv
<1>6. ClientInv' /\ BothInv'
  BY <1>1, <1>3, <1>4, BothRemain DEF AgreeInv, BothInv
<1>7. UpInv'
  BY <1>1, <1>4, UpUnread
<1>8. ClientView' = ClientView /\ (Live' <=> Live)
  BY <1>4, ExcuseRemains
<1> DEFINE other == [down EXCEPT ![i] = record]
<1>9. ASSUME NEW y, Leads(Flight, Posts, ClientView, down, y)
      PROVE  Leads(Flight, Posts, ClientView, other, Lost(y))
  BY <1>9, FlightIs, LeadsGarbled DEF AgreeInv
<1>10. IsSequence(down')
  <2>1. PICK S : down \in Seq(S)
    BY DEF AgreeInv, IsSequence
  <2> DEFINE T == S \cup {record}
  <2>2. down \in Seq(T) /\ record \in T
    BY <2>1
  <2> HIDE DEF T
  <2>3. i \in 1 .. Len(down)
    BY <2>1, LenProperties
  <2>4. other \in Seq(T)
    BY <2>2, <2>3, ExceptSeq
  <2> QED BY <1>2, <2>4 DEF IsSequence
<1> HIDE DEF other
<1>11. ASSUME Live
       PROVE  \E z : /\ Leads(Flight, Posts, ClientView, other, z)
                     /\ Before(z, ServerView) /\ z.lost # 0
  <2>1. PICK y : Leads(Flight, Posts, ClientView, down, y) /\ Before(y, ServerView)
    BY <1>11 DEF AgreeInv, DownInv, Reaches
  <2>2. Seen(y)
    BY <2>1, LeadsFrom DEF AgreeInv
  <2>3. Before(Lost(y), ServerView) /\ Lost(y).lost = 1
    BY <2>1, <2>2, LostIs
  <2>4. Leads(Flight, Posts, ClientView, other, Lost(y)) /\ Lost(y).lost # 0
    BY <1>9, <2>1, <2>3
  <2> QED BY <2>3, <2>4
<1>12. down' = other
  BY <1>2 DEF other
<1>13. DownInv'
  BY <1>3, <1>4, <1>8, <1>11, <1>12 DEF DownInv, Reaches
<1> QED BY <1>5, <1>6, <1>7, <1>10, <1>13
(* The server that has an open stream sends what is sealed with its key.    *)
LEMMA OpenSends ==
  ASSUME AgreeInv, srv = "open",
         UNCHANGED <<client, cut, server, srvTranscript>>,
         NEW r, down' = Append(down, r), r.type = "data", r.key = srvKey,
         DataTo(Flight, ServerView, r, ServerView')
           \/ NotifyTo(Flight, ServerView, r, ServerView'),
         ServerView'.lost = 0, srv' \in {"open", "done"}
  PROVE  /\ Flight' = Flight /\ Accepted /\ Accepted' /\ Posts' = Posts /\ Remains
         /\ DownInv' /\ IsSequence(down')
<1>1. Accepted /\ Seen(ServerView) /\ ServerView.lost = 0 /\ cut # "broken"
  BY ServerIs DEF AgreeInv, ServerInv
<1>2. ServerView.key = srvKey
  <2>1. ServerView = View(1, Total(Flight), srvKey, answered, 0)
    BY ServerIs DEF AgreeInv
  <2> QED BY <2>1, ViewIs
<1>3. Flight' = Flight
  BY DEF Flight
<1>4. Accepted'
  BY <1>1, <1>3 DEF Accepted
<1>5. Posts' = Posts /\ Remains
  BY <1>1, <1>4 DEF Posts, Remains
<1>6. Follows(Flight, Posts', ServerView, r, ServerView')
  BY <1>1, <1>2 DEF Follows, SealedTo
<1>7. Seen(ServerView') /\ Before(ServerView, ServerView')
  BY <1>1, <1>6, FlightIs, FollowsOnwards DEF Onwards
<1>8. DownInv' /\ IsSequence(down')
  BY <1>1, <1>5, <1>6, <1>7, DownSent
<1> QED BY <1>1, <1>3, <1>4, <1>5, <1>8

LEMMA SrvDataAgrees ==
  ASSUME AgreeInv, SrvData
  PROVE  ClientInv' /\ ServerInv' /\ BothInv' /\ DownInv' /\ UpInv' /\ IsSequence(down')
<1>1. /\ srv = "open" /\ srv' = "open" /\ srvKey' = Used(srvKey)
      /\ UNCHANGED <<client, up, cut, server, srv, srvTranscript, srvOpens, todo, asked,
                     notified>>
  BY DEF SrvData
<1>2. PICK n \in 0 .. Blocks - answered :
        /\ down' = down \o <<Sealed(srvKey, "data", SubSeq(Answer, answered + 1,
                                                           answered + n))>>
        /\ answered' = answered + n
  BY DEF SrvData, Send
<1> DEFINE body == SubSeq(Answer, answered + 1, answered + n)
           r == Sealed(srvKey, "data", body)
<1>3. down' = Append(down, r)
  BY <1>2, OneAppended DEF AgreeInv
<1>4. r.type = "data" /\ r.key = srvKey /\ r.inner = "data" /\ r.body = body
  BY DEF Sealed, Record
<1> HIDE DEF r, body
<1>5. /\ srvKey.epoch = "application" /\ Accepted /\ ~notified /\ notified \in BOOLEAN
      /\ ServerView = View(1, Total(Flight), srvKey, answered, 0) /\ IsKey(srvKey)
      /\ server \in Servers /\ asked \in Nat /\ cut \in {"no", "garbled"}
      /\ Posted(Posts, todo) /\ srvOpens.seq = asked
  BY <1>1, ServerIs DEF AgreeInv, ServerInv
<1>6. answered \in 0 .. Blocks /\ Blocks \in Nat
  BY SizesAssumption DEF AgreeInv, ServerInv
<1>7. n \in Nat /\ answered + n <= Blocks /\ answered + n \in 0 .. Blocks
  BY <1>6
<1>8. IsKey(srvKey') /\ srvKey'.epoch = "application"
  BY <1>1, <1>5, UsedIs
<1>9. ServerView' = View(1, Total(Flight), Used(srvKey), answered + n, 0)
  <2>1. Written' = Total(Flight)
    BY <1>1, <1>8, ClientStill DEF Written
  <2> QED BY <1>1, <1>2, <1>5, <1>8, <2>1 DEF ServerView
<1>10. /\ ServerView.hello = 1 /\ ServerView.flight = Total(Flight)
       /\ ServerView.key = srvKey /\ ServerView.blocks = answered
       /\ ServerView.over = 0
  BY <1>5, ViewIs
<1>11. DataTo(Flight, ServerView, r, ServerView')
  <2>1. ServerView.hello # 0 /\ ServerView.flight = Total(Flight) /\ r.inner = "data"
    BY <1>4, <1>10
  <2>2. /\ ServerView.blocks + n <= Blocks
        /\ r.body = SubSeq(Answer, ServerView.blocks + 1, ServerView.blocks + n)
    BY <1>4, <1>7, <1>10 DEF body
  <2>3. ServerView' = View(ServerView.hello, ServerView.flight, Used(ServerView.key),
                           ServerView.blocks + n, ServerView.over)
    BY <1>9, <1>10
  <2> QED BY <1>7, <2>1, <2>2, <2>3 DEF DataTo
<1>12. ServerView'.lost = 0
  BY <1>9, ViewIs
<1>13. /\ Flight' = Flight /\ Accepted /\ Accepted' /\ Posts' = Posts /\ Remains
       /\ DownInv' /\ IsSequence(down')
  BY <1>1, <1>3, <1>4, <1>11, <1>12, OpenSends
<1>14. ServerInv'
  BY <1>1, <1>2, <1>5, <1>7, <1>8, <1>13 DEF ServerInv
<1>15. ClientInv' /\ BothInv'
  BY <1>1, <1>5, <1>8, <1>13, BothRemain DEF AgreeInv, BothInv
<1>16. UpInv'
  BY <1>1, <1>13, UpUnread
<1> QED BY <1>13, <1>14, <1>15, <1>16

LEMMA SrvNotifyAgrees ==
  ASSUME AgreeInv, SrvNotify
  PROVE  ClientInv' /\ ServerInv' /\ BothInv' /\ DownInv' /\ UpInv' /\ IsSequence(down')
<1>1. /\ srv = "open" /\ srv' = "done" /\ notified' = TRUE /\ asked = Requests
      /\ answered = Blocks
      /\ UNCHANGED <<client, up, cut, server, srvTranscript, srvKey, srvOpens, todo,
                     asked, answered>>
  BY DEF SrvNotify
<1> DEFINE r == Sealed(srvKey, "alert", CloseNotify)
<1>2. down' = Append(down, r)
  BY OneAppended DEF AgreeInv, SrvNotify, Send, CloseNotify
<1>3. r.type = "data" /\ r.key = srvKey /\ r.inner = "alert" /\ r.body = CloseNotify
  BY DEF Sealed, Record
<1> HIDE DEF r
<1>4. /\ srvKey.epoch = "application" /\ Accepted /\ ~notified
      /\ ServerView = View(1, Total(Flight), srvKey, answered, 0) /\ IsKey(srvKey)
      /\ server \in Servers /\ asked \in Nat /\ cut \in {"no", "garbled"}
      /\ answered \in 0 .. Blocks
  BY <1>1, ServerIs DEF AgreeInv, ServerInv
<1>5. ServerView' = View(1, Total(Flight), srvKey, answered, 1)
  <2>1. Written' = Total(Flight)
    BY <1>1, <1>4, ClientStill DEF Written
  <2> QED BY <1>1, <1>4, <2>1 DEF ServerView
<1>6. /\ ServerView.hello = 1 /\ ServerView.flight = Total(Flight)
      /\ ServerView.key = srvKey /\ ServerView.blocks = answered
      /\ ServerView.over = 0
  BY <1>4, ViewIs
<1>7. NotifyTo(Flight, ServerView, r, ServerView')
  BY <1>1, <1>3, <1>5, <1>6 DEF NotifyTo
<1>8. ServerView'.lost = 0
  BY <1>5, ViewIs
<1>9. /\ Flight' = Flight /\ Accepted /\ Accepted' /\ Posts' = Posts /\ Remains
      /\ DownInv' /\ IsSequence(down')
  BY <1>1, <1>2, <1>3, <1>7, <1>8, OpenSends
<1>10. ServerInv'
  BY <1>1, <1>4, <1>9 DEF ServerInv
<1>11. ClientInv' /\ BothInv'
  BY <1>1, <1>4, <1>9, BothRemain DEF AgreeInv, BothInv
<1>12. UpInv'
  BY <1>1, <1>9, UpUnread
<1> QED BY <1>9, <1>10, <1>11, <1>12
(* The messages that a server sends after the handshake are those it has.   *)
LEMMA PostedUnits ==
  ASSUME NEW post, IsSequence(post)
  PROVE  Posted({post[k] : k \in DOMAIN post}, UnitsOf(post, <<>>))
<1> DEFINE posts == {post[k] : k \in DOMAIN post}
           units == UnitsOf(post, <<>>)
           n == Len(post)
<1>1. /\ IsSequence(units) /\ Len(units) = Parts * n /\ n \in Nat
      /\ \A k \in 1 .. Parts * n : units[k].m = post[(k - 1) \div Parts + 1]
  BY UnitsAre, LengthIs
<1>2. \A i \in 1 .. n : post[i] \in posts
  BY DomainIs
<1> HIDE DEF posts, units, n
<1>3. DOMAIN units = 1 .. Parts * n
  BY <1>1, DomainIs
<1>4. \A k \in DOMAIN units : units[k].m \in posts
  <2>1. SUFFICES ASSUME NEW k \in 1 .. Parts * n PROVE units[k].m \in posts
    BY <1>3
  <2>2. (k - 1) \div Parts + 1 \in 1 .. n
    BY <1>1, MessageOf
  <2> QED BY <1>1, <1>2, <2>2
<1> QED BY <1>1, <1>4 DEF Posted, posts, units

LEMMA ZeroIs == \A n \in Nat : 0 <= n
OBVIOUS

LEMMA AppendLonger ==
  ASSUME NEW s, IsSequence(s), NEW e
  PROVE  Len(Append(s, e)) > Len(s)
<1>1. Len(s) \in Nat /\ Len(Append(s, e)) = Len(s) + 1
  BY AppendIs
<1> QED BY <1>1

(* What the server finds in the record it takes.                            *)
LEMMA RecordIs ==
  ASSUME AgreeInv, srv \in {"flight", "wait finished", "open"}, up # <<>>
  PROVE  \E z :
           /\ Meets(Flight, Inners, z, Tail(up), ClientAwait)
           /\ \/ Head(up).type = "ccs" /\ z = ServerAwait /\ srv # "open"
              \/ /\ Head(up).type = "data" /\ IsFinished(Head(up))
                 /\ writeKey.epoch # "none" /\ z = Await("open", AppKey(Flight))
              \/ /\ Head(up).type = "data" /\ srv = "open" /\ Head(up).key = srvOpens
                 /\ Head(up).inner \in Inners /\ z = Await("open", Used(srvOpens))
                 /\ ~closed /\ pc # "failed" => asked + 1 <= written
<1>1. Listening
  BY DEF Listening
<1>2. PICK z : /\ Expects(Flight, Inners, ServerAwait, Head(up), z)
               /\ Meets(Flight, Inners, z, Tail(up), ClientAwait)
               /\ Later(z, ClientAwait)
  BY <1>1, UpTaken
<1>3. /\ ServerAwait.key = srvOpens
      /\ ServerAwait.at = IF srv = "open" THEN "open" ELSE "finished"
  BY AwaitIs DEF ServerAwait
<1>4. ASSUME z.at = "open"
      PROVE  writeKey.epoch # "none" /\ z.key.seq <= writeKey.seq
  <2>1. ClientAwait.at = "open" /\ z.key.seq <= ClientAwait.key.seq
    BY <1>2, <1>4 DEF Later
  <2>2. transcript # <<>> /\ writeKey.epoch # "none"
    BY <2>1, AwaitIs, ZenonT(40) DEF ClientAwait
  <2>3. ClientAwait = Await("open", writeKey)
    BY <2>2 DEF ClientAwait
  <2> QED BY <2>1, <2>2, <2>3, AwaitIs
<1>5. CASE srv = "open"
  <2>1. /\ Head(up).type = "data" /\ Head(up).key = srvOpens
        /\ Head(up).inner \in Inners /\ z = Await("open", Used(srvOpens))
    BY <1>2, <1>3, <1>5 DEF Expects
  <2>2. z.at = "open" /\ z.key = Used(srvOpens)
    BY <2>1, AwaitIs
  <2>3. IsKey(srvOpens)
    <3>1. IsKey(ServerAwait.key)
      BY <1>1, MeetsFrom DEF AgreeInv, UpInv, KeyInv
    <3> QED BY <1>3, <3>1
  <2>4. z.key.seq = asked + 1
    BY <1>5, <2>2, <2>3, UsedIs DEF AgreeInv, ServerInv
  <2>5. ASSUME ~closed, pc # "failed" PROVE asked + 1 <= written
    <3>1. writeKey.seq = written /\ asked + 1 <= writeKey.seq
      BY <1>4, <2>2, <2>4, <2>5 DEF AgreeInv, ClientInv
    <3> QED BY <3>1
  <2> QED BY <1>2, <1>5, <2>1, <2>5
<1>6. CASE srv # "open"
  <2>1. CASE Head(up).type = "ccs" /\ z = ServerAwait
    BY <1>2, <1>6, <2>1
  <2>2. CASE /\ Head(up) = Sealed(srvOpens, "handshake", Units("ClientFinished",
                                                               Whole(Flight)))
             /\ z = Await("open", AppKey(Flight))
    <3>1. z.at = "open"
      BY <2>2, AwaitIs
    <3>2. writeKey.epoch # "none" /\ srvKey.epoch = "application"
      BY <1>4, <3>1 DEF AgreeInv, BothInv
    <3>3. srv = "wait finished" /\ srvTranscript = Whole(Flight)
      BY <1>6, <3>2, ServerIs DEF AgreeInv, ServerInv
    <3> DEFINE u == Units("ClientFinished", Whole(Flight))
               r == Head(up)
    <3>5. r = Sealed(srvOpens, "handshake", u)
      BY <2>2
    <3> HIDE DEF u, r
    <3>6. r.type = "data" /\ r.key = srvOpens /\ r.body = u
      BY <3>5 DEF Sealed, Record
    <3>4. /\ Head(up).type = "data" /\ Head(up).key = srvOpens
          /\ Head(up).body = Units("ClientFinished", Whole(Flight))
      BY <3>6 DEF u, r
    <3> QED BY <1>2, <2>2, <3>2, <3>3, <3>4 DEF IsFinished
  <2> QED BY <1>2, <1>3, <1>6, <2>1, <2>2 DEF Expects
<1> QED BY <1>5, <1>6

LEMMA FinishedAgrees ==
  ASSUME AgreeInv, srv = "wait finished", up' = Tail(up),
         UNCHANGED <<client, cut, server, srvKey, answered, notified, asked, down>>,
         srvOpens' = Key("application", srvTranscript),
         srvTranscript' = Append(srvTranscript, "ClientFinished"),
         todo' = UnitsOf(server.post, <<>>), srv' = "open",
         writeKey.epoch # "none",
         Meets(Flight, Inners, Await("open", AppKey(Flight)), Tail(up), ClientAwait)
  PROVE  ClientInv' /\ ServerInv' /\ BothInv' /\ DownInv' /\ UpInv' /\ IsSequence(down')
<1>1. /\ srvTranscript = Whole(Flight) /\ srvKey.epoch = "application" /\ asked = 0
      /\ ~Accepted /\ notified \in BOOLEAN /\ ~notified /\ IsKey(srvKey)
      /\ server \in Servers /\ answered \in 0 .. Blocks /\ cut \in {"no", "garbled"}
  BY ServerIs DEF AgreeInv, ServerInv
<1>2. Flight' = Flight
  BY DEF Flight
<1>3. Accepted'
  <2>2. Len(srvTranscript') > Len(Whole(Flight))
    BY <1>1, WholeIs, AppendLonger
  <2> QED BY <1>2, <2>2 DEF Accepted, Whole
<1>4. srvOpens' = AppKey(Flight) /\ srvOpens'.seq = 0
  BY <1>1, KeyIs DEF AppKey
<1>5. Posted(Posts', todo')
  <2>1. IsSequence(server.post)
    <3>1. server.post \in Seq({"NewSessionTicket", "KeyUpdate"})
      BY <1>1, ServersAssumption
    <3> QED BY <3>1 DEF IsSequence
  <2>2. Posts' = {server.post[i] : i \in DOMAIN server.post}
    BY <1>3 DEF Posts
  <2> QED BY <2>1, <2>2, PostedUnits
<1>6. ServerInv'
  BY <1>1, <1>2, <1>3, <1>4, <1>5 DEF ServerInv
<1>7. Remains
  BY <1>1, <1>3 DEF Remains
<1>8. ClientInv' /\ BothInv'
  <2>1. written \in Nat
    BY DEF AgreeInv, ClientInv
  <2>3. asked' <= written
    BY <1>1, <2>1, ZeroIs
  <2> QED BY <1>1, <1>7, <2>3, BothRemain
<1>9. UpInv'
  <2>1. ServerAwait' = Await("open", AppKey(Flight))
    BY <1>4 DEF ServerAwait
  <2> QED BY <1>7, <2>1, UpRead
<1>10. ServerView' = ServerView
  BY <1>1, <1>2 DEF ServerView, Written
<1>11. DownInv' /\ IsSequence(down')
  BY <1>7, <1>10, DownUnsent
<1> QED BY <1>6, <1>8, <1>9, <1>11

LEMMA RequestAgrees ==
  ASSUME AgreeInv, srv = "open", up' = Tail(up),
         UNCHANGED <<client, cut, server, srv, srvTranscript, todo, srvKey, answered,
                     notified, down>>,
         srvOpens' = Used(srvOpens), asked' = asked + 1,
         ~closed /\ pc # "failed" => asked + 1 <= written,
         Meets(Flight, Inners, Await("open", Used(srvOpens)), Tail(up), ClientAwait)
  PROVE  ClientInv' /\ ServerInv' /\ BothInv' /\ DownInv' /\ UpInv' /\ IsSequence(down')
<1>1. /\ srvKey.epoch = "application" /\ asked \in Nat /\ srvOpens.seq = asked
      /\ Accepted /\ notified \in BOOLEAN /\ ~notified /\ IsKey(srvKey)
      /\ server \in Servers /\ answered \in 0 .. Blocks /\ cut \in {"no", "garbled"}
      /\ Posted(Posts, todo)
  BY ServerIs DEF AgreeInv, ServerInv
<1>2. Flight' = Flight
  BY DEF Flight
<1>3. Accepted' /\ Posts' = Posts
  BY <1>1, <1>2 DEF Accepted, Posts
<1>4. srvOpens'.seq = asked + 1 /\ asked + 1 \in Nat
  <2>1. IsKey(srvOpens)
    <3>1. IsKey(ServerAwait.key)
      BY MeetsFrom DEF AgreeInv, UpInv, KeyInv, Listening
    <3> QED BY <3>1, AwaitIs DEF ServerAwait
  <2> QED BY <1>1, <2>1, UsedIs
<1>5. ServerInv'
  BY <1>1, <1>2, <1>3, <1>4 DEF ServerInv
<1>6. Remains
  BY <1>1, <1>3 DEF Remains
<1>7. ClientInv' /\ BothInv'
  BY <1>1, <1>3, <1>6, BothRemain DEF AgreeInv, BothInv
<1>8. UpInv'
  <2>1. ServerAwait' = Await("open", Used(srvOpens))
    BY DEF ServerAwait
  <2> QED BY <1>6, <2>1, UpRead
<1>9. ServerView' = ServerView
  BY <1>1, <1>2 DEF ServerView, Written
<1>10. DownInv' /\ IsSequence(down')
  BY <1>6, <1>9, DownUnsent
<1> QED BY <1>5, <1>7, <1>8, <1>10

LEMMA NotifiedAgrees ==
  ASSUME AgreeInv, srv = "open", srv' = "done", closed,
         UNCHANGED <<client, cut, server, srvTranscript, srvOpens, todo, asked, srvKey,
                     answered, notified, down>>
  PROVE  ClientInv' /\ ServerInv' /\ BothInv' /\ DownInv' /\ UpInv' /\ IsSequence(down')
<1>1. /\ srvKey.epoch = "application" /\ asked \in Nat
      /\ Accepted /\ notified \in BOOLEAN /\ ~notified /\ IsKey(srvKey)
      /\ server \in Servers /\ answered \in 0 .. Blocks /\ cut \in {"no", "garbled"}
  BY ServerIs DEF AgreeInv, ServerInv
<1>2. Flight' = Flight
  BY DEF Flight
<1>3. Accepted'
  BY <1>1, <1>2 DEF Accepted
<1>4. ServerInv'
  BY <1>1, <1>2, <1>3 DEF ServerInv
<1>5. Remains
  BY <1>1, <1>3 DEF Remains
<1>6. ClientInv' /\ BothInv'
  BY <1>1, <1>3, <1>5, BothRemain DEF AgreeInv, BothInv
<1>7. UpInv'
  BY DEF UpInv, Listening
<1>8. ServerView' = ServerView
  BY <1>1, <1>2 DEF ServerView, Written
<1>9. DownInv' /\ IsSequence(down')
  BY <1>5, <1>8, DownUnsent
<1> QED BY <1>4, <1>6, <1>7, <1>9

LEMMA SrvRecordAgrees ==
  ASSUME AgreeInv, SrvRecord
  PROVE  ClientInv' /\ ServerInv' /\ BothInv' /\ DownInv' /\ UpInv' /\ IsSequence(down')
<1> DEFINE r == Head(up)
<1>1. /\ srv \in {"flight", "wait finished", "open"} /\ up # <<>> /\ up' = Tail(up)
      /\ UNCHANGED <<client, cut, server, srvKey, answered, notified>>
  BY DEF SrvRecord
<1>2. PICK z :
        /\ Meets(Flight, Inners, z, Tail(up), ClientAwait)
        /\ \/ r.type = "ccs" /\ z = ServerAwait /\ srv # "open"
           \/ /\ r.type = "data" /\ IsFinished(r)
              /\ writeKey.epoch # "none" /\ z = Await("open", AppKey(Flight))
           \/ /\ r.type = "data" /\ srv = "open" /\ r.key = srvOpens
              /\ r.inner \in Inners /\ z = Await("open", Used(srvOpens))
              /\ ~closed /\ pc # "failed" => asked + 1 <= written
  BY <1>1, RecordIs
<1>3. IsFinished(r) => srv = "wait finished"
  BY DEF IsFinished
<1>4. CASE r.type = "ccs" /\ UNCHANGED <<srv, srvTranscript, srvOpens, todo, asked, down>>
  <2>1. z = ServerAwait
    BY <1>2, <1>4
  <2>2. /\ Flight' = Flight /\ (Accepted' <=> Accepted) /\ Posts' = Posts
        /\ ServerView' = ServerView /\ (FlightToDo => FlightToDo')
    BY <1>1, <1>4, StopsThere
  <2>3. Remains
    BY <1>1, <1>4, <2>2 DEF Remains
  <2>4. ServerInv'
    BY <1>1, <1>4, <2>2 DEF AgreeInv, ServerInv
  <2>5. ClientInv' /\ BothInv'
    BY <1>1, <1>4, <2>2, <2>3, BothRemain DEF AgreeInv, BothInv
  <2>6. UpInv'
    <3>1. ServerAwait' = z
      BY <1>4, <2>1 DEF ServerAwait
    <3> QED BY <1>1, <1>2, <2>3, <3>1, UpRead
  <2>7. DownInv' /\ IsSequence(down')
    BY <1>1, <1>4, <2>2, <2>3, DownUnsent
  <2> QED BY <2>4, <2>5, <2>6, <2>7
<1>5. CASE /\ r.type = "data" /\ IsFinished(r) /\ ~server.asks
           /\ srvOpens' = Key("application", srvTranscript)
           /\ srvTranscript' = Append(srvTranscript, "ClientFinished")
           /\ todo' = UnitsOf(server.post, <<>>)
           /\ srv' = "open" /\ UNCHANGED <<asked, down>>
  <2>1. z = Await("open", AppKey(Flight)) /\ writeKey.epoch # "none"
    BY <1>2, <1>3, <1>5
  <2>2. Meets(Flight, Inners, Await("open", AppKey(Flight)), Tail(up), ClientAwait)
    BY <1>2, <2>1
  <2> QED BY <1>1, <1>3, <1>5, <2>1, <2>2, FinishedAgrees
<1>6. CASE /\ r.type = "data" /\ IsRequest(r)
           /\ srvOpens' = Used(srvOpens) /\ asked' = asked + 1
           /\ UNCHANGED <<srv, srvTranscript, todo, down>>
  <2>1. srv = "open"
    BY <1>6 DEF IsRequest
  <2>2. z = Await("open", Used(srvOpens)) /\ (~closed /\ pc # "failed" => asked + 1 <= written)
    BY <1>2, <1>3, <1>6, <2>1
  <2>3. Meets(Flight, Inners, Await("open", Used(srvOpens)), Tail(up), ClientAwait)
    BY <1>2, <2>2
  <2> QED BY <1>1, <1>6, <2>1, <2>2, <2>3, RequestAgrees
<1>7. CASE /\ r.type = "data" /\ IsNotify(r) /\ srv' = "done"
           /\ UNCHANGED <<srvTranscript, srvOpens, todo, asked, down>>
  <2>1. srv = "open" /\ r.inner = "alert"
    BY <1>7 DEF IsNotify
  <2>2. closed
    BY <1>2, <1>3, <1>7, <2>1 DEF Inners
  <2> QED BY <1>1, <1>7, <2>1, <2>2, NotifiedAgrees
<1>8. CASE /\ r.type = "data" /\ ~IsRequest(r) /\ ~IsNotify(r)
           /\ srv' = IF IsFinished(r) THEN "refuses" ELSE "appalled"
           /\ down' = Append(down, Sealed(srvKey, "alert", <<"unexpected_message">>))
           /\ UNCHANGED <<srvTranscript, srvOpens, todo, asked>>
  <2> DEFINE b == Sealed(srvKey, "alert", <<"unexpected_message">>)
  <2>1. IsFinished(r)
    BY <1>2, <1>8 DEF IsRequest, IsNotify, Inners
  <2>2. srv' = "refuses" /\ srv = "wait finished"
    BY <1>3, <1>8, <2>1
  <2>3. Bad(ServerView, b)
    <3>1. <<"unexpected_message">> # CloseNotify
      BY DEF CloseNotify
    <3> QED BY <3>1 DEF Bad, Sealed, Record
  <2> HIDE DEF b
  <2>4. /\ Flight' = Flight /\ (Accepted' <=> Accepted) /\ Posts' = Posts
        /\ ServerView' = ServerView /\ (FlightToDo => FlightToDo')
        /\ Seen(ServerView) /\ ServerView.lost = 0 /\ Before(ServerView, ServerView)
    BY <1>1, <1>8, <2>2, StopsThere
  <2>5. Remains /\ Excused'
    BY <1>1, <2>2, <2>4 DEF Remains, Excused
  <2>6. ServerInv' /\ cut # "broken"
    BY <1>1, <1>8, <2>2, <2>4 DEF AgreeInv, ServerInv
  <2>7. ClientInv' /\ BothInv'
    BY <1>1, <1>8, <2>2, <2>4, <2>5, BothRemain DEF AgreeInv, BothInv
  <2>8. UpInv'
    BY <2>2 DEF UpInv, Listening
  <2>9. down' = Append(down, b)
    BY <1>8 DEF b
  <2>10. DownInv' /\ IsSequence(down')
    BY <2>3, <2>4, <2>5, <2>6, <2>9, DownSent
  <2> QED BY <2>6, <2>7, <2>8, <2>10
<1> QED BY <1>4, <1>5, <1>6, <1>7, <1>8 DEF SrvRecord
-----------------------------------------------------------------------------
LEMMA ServerAgrees ==
  ASSUME AgreeInv, Server \/ SrvRefuses \/ Break \/ Garble
  PROVE  AgreeInv'
<1>1. KeyInv'
  BY OtherSteps DEF AgreeInv
<1>2. ClientInv' /\ ServerInv' /\ BothInv' /\ DownInv' /\ UpInv' /\ IsSequence(down')
  <2>1. CASE SrvHello
    BY <2>1, SrvHelloAgrees
  <2>2. CASE SrvChangeCipherSpec
    BY <2>2, SrvChangeCipherSpecAgrees
  <2>3. CASE SrvMessages
    BY <2>3, SrvMessagesAgrees
  <2>4. CASE SrvRecord
    BY <2>4, SrvRecordAgrees
  <2>5. CASE SrvData
    BY <2>5, SrvDataAgrees
  <2>6. CASE SrvNotify
    BY <2>6, SrvNotifyAgrees
  <2>7. CASE SrvCloses
    BY <2>7, SrvClosesAgrees
  <2>8. CASE SrvRefuses
    BY <2>8, SrvRefusesAgrees
  <2>9. CASE Break
    BY <2>9, BreakAgrees
  <2>10. CASE Garble
    BY <2>10, GarbleAgrees
  <2> QED
    BY <2>1, <2>2, <2>3, <2>4, <2>5, <2>6, <2>7, <2>8, <2>9, <2>10 DEF Server
<1> QED BY <1>1, <1>2 DEF AgreeInv

LEMMA NothingAgrees == ASSUME AgreeInv, UNCHANGED vars PROVE AgreeInv'
<1>1. UNCHANGED <<client, machine, cut, down, up, closed, server, sealed>>
  BY DEF vars, client, machine
<1>2. KeyInv'
  BY <1>1 DEF AgreeInv, KeyInv, NonceFresh, Unkeyed, Keyed, client
<1>3. ServerInv'
  BY <1>1, ServerInvStill DEF AgreeInv
<1>4. /\ ClientInv' /\ ClientView' = ClientView /\ (Live' <=> Live)
      /\ ClientAwait' = ClientAwait
  BY <1>1, ClientStill DEF AgreeInv
<1>5. BothInv'
  BY <1>1, ServerStill DEF AgreeInv, BothInv, client, machine
<1>6. DownInv' /\ UpInv'
  BY <1>1, <1>4, DownStill, UpStill
<1> QED BY <1>1, <1>2, <1>3, <1>4, <1>5, <1>6 DEF AgreeInv

LEMMA AgreeInit == Init => AgreeInv
<1> SUFFICES ASSUME Init PROVE AgreeInv
  OBVIOUS
<1>1. /\ pc = "start" /\ transcript = <<>> /\ writeKey = NoKey /\ buffer = <<>>
      /\ readBuffer = <<>> /\ written = 0 /\ got = <<>> /\ closed = FALSE
      /\ down = <<>> /\ up = <<>> /\ cut = "no" /\ server \in Servers
      /\ srv = "wait hello" /\ srvTranscript = <<>> /\ srvKey = NoKey
      /\ srvOpens = NoKey /\ asked = 0 /\ answered = 0 /\ notified = FALSE
  BY DEF Init
<1>2. KeyInv /\ IsSequence(down)
  BY <1>1, KeyInit, EmptyIs
<1>3. /\ Waiting /\ ~Shaking /\ Live
  BY <1>1 DEF Waiting, Shaking, Live
<1>4. ClientInv
  <2>1. IsSequence(got) /\ IsSequence(readBuffer) /\ Len(got) = 0 /\ Len(readBuffer) = 0
    BY <1>1, EmptyIs
  <2>2. Len(got) + Len(readBuffer) <= Blocks
    <3>1. 0 + 0 <= Blocks
      BY SizesAssumption
    <3> QED BY <2>1, <3>1
  <2>3. SubSeq(Answer, 1, 0) = <<>>
    <3>1. 1 \in Int /\ 0 \in Int /\ 0 < 1
      OBVIOUS
    <3> QED BY <3>1, SubSeqEmpty
  <2>4. /\ got = SubSeq(Answer, 1, Len(got))
        /\ readBuffer = SubSeq(Answer, Len(got) + 1, Len(got) + Len(readBuffer))
    <3>1. 0 + 1 = 1 /\ 0 + 0 = 0
      OBVIOUS
    <3> QED BY <1>1, <2>1, <2>3, <3>1
  <2> QED BY <1>1, <1>3, <2>1, <2>2, <2>4, NoKeyIs DEF ClientInv
<1>5. answered \in 0 .. Blocks
  <2>1. 0 \in 0 .. Blocks
    BY SizesAssumption
  <2> QED BY <1>1, <2>1
<1>6. ServerInv
  BY <1>1, <1>5, NoKeyIs DEF ServerInv
<1>7. ~Accepted
  BY <1>1, <1>6, ServerIs
<1>8. BothInv
  <2>1. asked <= written
    BY <1>1, ZeroIs
  <2> QED BY <1>1, <1>7, <2>1, NoKeyIs DEF BothInv
<1>9. DownInv
  <2>1. /\ ServerView = View(0, 0, NoKey, 0, 0) /\ Seen(ServerView)
    BY <1>1, <1>6, ServerIs
  <2>2. ClientView = ServerView
    BY <1>3, <2>1, ClientViewIs
  <2>3. Leads(Flight, Posts, ClientView, <<>>, ServerView)
    BY <2>1, <2>2, LeadsNowhere
  <2>4. Reaches(ServerView)
    <3>1. Before(ServerView, ServerView) /\ ServerView.lost = 0
      BY <1>6, <2>1, BeforeItself, ServerIs
    <3> QED BY <3>1 DEF Reaches
  <2> QED BY <1>1, <2>3, <2>4 DEF DownInv
<1>10. UpInv
  <2>1. ServerAwait = Await("hello", NoKey) /\ ClientAwait = Await("hello", NoKey)
    BY <1>1 DEF ServerAwait, ClientAwait
  <2>2. IsKey(ServerAwait.key)
    BY <2>1, AwaitIs, NoKeyIs
  <2> QED BY <1>1, <2>1, <2>2, MeetsNothing DEF UpInv
<1> QED BY <1>2, <1>4, <1>6, <1>8, <1>9, <1>10 DEF AgreeInv

LEMMA AgreeAlways == Spec => []AgreeInv
<1>1. AgreeInv /\ [Next]_vars => AgreeInv'
  BY ClientAgrees, ServerAgrees, NothingAgrees DEF Next
<1> QED BY <1>1, AgreeInit, PTL DEF Spec

(* Of the hazard that the code and the peer can disagree on where a piece   *)
(* ends: while the peer sends what RFC 8446 lets it send, whatever the size *)
(* of its messages, however it packs them into records, however the records *)
(* arrive, and wherever the peer stops, no call of the client fails: neither*)
(* the handshake of tls_connect nor a read, a write or the closing.         *)
THEOREM NoFalseAlarmAlways == Spec => []NoFalseAlarm
<1>1. AgreeInv => NoFalseAlarm
  BY DEF AgreeInv, ServerInv, BothInv, Excused, NoFalseAlarm
<1> QED BY <1>1, AgreeAlways, PTL

-----------------------------------------------------------------------------
(* The stream.                                                              *)
Sent   == SubSeq(Answer, 1, answered)
Status == CASE pc = "ended" -> "ended"
            [] pc = "failed" -> "failed"
            [] OTHER -> "open"

LEMMA StatusIs ==
  /\ pc = "ended" => Status = "ended"
  /\ pc = "failed" => Status = "failed"
  /\ pc \notin {"ended", "failed"} => Status = "open"
BY DEF Status

LEMMA FrontOf ==
  ASSUME NEW a \in Nat, NEW b \in Nat, a <= b, b <= Blocks
  PROVE  SubSeq(SubSeq(Answer, 1, b), 1, a) = SubSeq(Answer, 1, a)
<1> DEFINE z == 0
<1>1. /\ z \in Nat /\ b \in z .. Len(Answer) /\ a \in 0 .. b - z /\ z + 1 = 1
      /\ z + a = a
  BY AnswerIs
<1> HIDE DEF z
<1>2. SubSeq(SubSeq(Answer, z + 1, b), 1, a) = SubSeq(Answer, z + 1, z + a)
  BY <1>1, AnswerIs, PartOfPart
<1> QED BY <1>1, <1>2

LEMMA AnswerPrefix ==
  ASSUME NEW a \in Nat, NEW b \in Nat, a <= b, b <= Blocks
  PROVE  Stream!IsPrefix(SubSeq(Answer, 1, a), SubSeq(Answer, 1, b))
<1>1. a <= a /\ a <= Blocks
  BY AnswerIs
<1>2. Len(SubSeq(Answer, 1, a)) = a /\ Len(SubSeq(Answer, 1, b)) = b
  BY <1>1, AnswerParts
<1>3. /\ SubSeq(SubSeq(Answer, 1, a), 1, a) = SubSeq(Answer, 1, a)
      /\ SubSeq(SubSeq(Answer, 1, b), 1, a) = SubSeq(Answer, 1, a)
  BY <1>1, FrontOf
<1> QED BY <1>2, <1>3 DEF Stream!IsPrefix

(* What has been read of an open stream has been sent.                      *)
GotOfSent ==
  /\ Len(got) \in Nat /\ Len(got) <= answered /\ answered \in Nat
  /\ answered <= Blocks /\ got = SubSeq(Answer, 1, Len(got))
LEMMA GotSent == AgreeInv /\ pc = "open" => GotOfSent
<1> SUFFICES ASSUME AgreeInv, pc = "open" PROVE GotOfSent
  OBVIOUS
<1>1. PICK y : Leads(Flight, Posts, ClientView, down, y) /\ Reaches(y)
  BY OpenIs DEF AgreeInv, DownInv
<1>2. Seen(y) /\ ClientView.blocks <= y.blocks
  BY <1>1, LeadsFrom DEF AgreeInv, Onwards, Before
<1>3. y.blocks <= ServerView.blocks
  BY <1>1 DEF Reaches, Before
<1>4. ServerView.blocks = answered
  BY ViewIs DEF ServerView
<1>5. answered \in 0 .. Blocks /\ Blocks \in Nat
  BY AnswerIs DEF AgreeInv, ServerInv
<1>6. ClientView.blocks = Len(got) + Len(readBuffer)
  BY ClientViewIs
<1>7. Len(got) \in Nat /\ Len(readBuffer) \in Nat
  BY LengthIs DEF AgreeInv, ClientInv
<1>8. Len(got) <= answered
  <2>1. y.blocks \in Nat
    BY <1>2 DEF Seen
  <2>2. Len(got) + Len(readBuffer) <= y.blocks /\ y.blocks <= answered
    BY <1>2, <1>3, <1>4, <1>6
  <2> QED BY <1>5, <1>7, <2>1, <2>2
<1>9. got = SubSeq(Answer, 1, Len(got))
  BY DEF AgreeInv, ClientInv
<1>10. answered \in Nat /\ answered <= Blocks
  BY <1>5
<1> QED BY <1>7, <1>8, <1>9, <1>10 DEF GotOfSent

(* A close_notify that is read says that all has been read.                 *)
LEMMA EndIsTrue ==
  ASSUME AgreeInv, pc = "open", down # <<>>, readBuffer = <<>>,
         Head(down).type = "data", Head(down).key = readKey,
         Head(down).inner = "alert", Head(down).body = CloseNotify
  PROVE  notified /\ got = Sent
<1>1. PICK z, y : /\ Leads(Flight, Posts, z, Tail(down), y) /\ Reaches(y)
                  /\ NotifyTo(Flight, ClientView, Head(down), z)
  <2>1. ClientView.hello = 1 /\ ClientView.key = readKey
    BY ClientViewIs
  <2>2. ~Bad(ClientView, Head(down))
    BY <2>1 DEF Bad
  <2>3. ASSUME NEW z, SealedTo(Flight, Posts, ClientView, Head(down), z)
        PROVE  NotifyTo(Flight, ClientView, Head(down), z)
    BY <2>3 DEF SealedTo, FlightTo, PostTo, DataTo
  <2> QED BY <2>2, <2>3, OpenIs, NextIs DEF HelloTo
<1>2. ClientView.blocks = Blocks /\ z.over = 1
  BY <1>1, ViewIs DEF NotifyTo
<1>3. IsSequence(Tail(down))
  BY TailIs DEF AgreeInv
<1>4. z.over <= y.over /\ y.over <= ServerView.over /\ y.over \in Nat
  BY <1>1, <1>3, LeadsFrom DEF Reaches, Onwards, Before, Seen
<1>5. notified
  <2>1. ServerView.over = IF notified THEN 1 ELSE 0
    BY ViewIs DEF ServerView
  <2> QED BY <1>2, <1>4, <2>1
<1>6. answered = Blocks
  BY <1>5 DEF AgreeInv, ServerInv
<1>7. Len(got) = Blocks
  <2>1. ClientView.blocks = Len(got) + Len(readBuffer)
    BY ClientViewIs
  <2>2. Len(readBuffer) = 0 /\ Len(got) \in Nat
    BY EmptyIs, LengthIs DEF AgreeInv, ClientInv
  <2> QED BY <1>2, <2>1, <2>2
<1>8. got = SubSeq(Answer, 1, Len(got))
  BY DEF AgreeInv, ClientInv
<1> QED BY <1>5, <1>6, <1>7, <1>8 DEF Sent

(* A close_notify in the clear on its way to the client was forged there.   *)
Ends(r)  == r.type = "alert" /\ r.body = CloseNotify
ClearInv == \A i \in DOMAIN down : Ends(down[i]) => forged

LEMMA FirstIs ==
  ASSUME NEW s, IsSequence(s), s # <<>>
  PROVE  1 \in DOMAIN s /\ s[1] = Head(s)
<1>1. PICK S : s \in Seq(S)
  BY DEF IsSequence
<1> QED BY <1>1

LEMMA TailOf ==
  ASSUME NEW s, IsSequence(s), s # <<>>
  PROVE  \A i \in DOMAIN Tail(s) : \E j \in DOMAIN s : Tail(s)[i] = s[j]
<1>1. PICK S : s \in Seq(S)
  BY DEF IsSequence
<1>2. /\ Len(s) \in Nat /\ DOMAIN s = 1 .. Len(s) /\ DOMAIN Tail(s) = 1 .. Len(s) - 1
      /\ \A i \in 1 .. Len(s) - 1 : Tail(s)[i] = s[i + 1]
  BY <1>1
<1> QED BY <1>2

LEMMA BeginningOf ==
  ASSUME NEW s, IsSequence(s), NEW n \in 0 .. Len(s)
  PROVE  \A i \in DOMAIN SubSeq(s, 1, n) :
           \E j \in DOMAIN s : SubSeq(s, 1, n)[i] = s[j]
<1>1. PICK S : s \in Seq(S)
  BY DEF IsSequence
<1>2. /\ Len(s) \in Nat /\ DOMAIN s = 1 .. Len(s) /\ DOMAIN SubSeq(s, 1, n) = 1 .. n
      /\ \A i \in 1 .. n : SubSeq(s, 1, n)[i] = s[i]
  BY <1>1
<1> QED BY <1>2

LEMMA JoinOf ==
  ASSUME NEW s, IsSequence(s), NEW t, IsSequence(t)
  PROVE  \A i \in DOMAIN (s \o t) :
           \/ \E j \in DOMAIN s : (s \o t)[i] = s[j]
           \/ \E j \in DOMAIN t : (s \o t)[i] = t[j]
<1>1. PICK S, T : s \in Seq(S) /\ t \in Seq(T)
  BY DEF IsSequence
<1>2. /\ Len(s) \in Nat /\ DOMAIN s = 1 .. Len(s)
      /\ Len(t) \in Nat /\ DOMAIN t = 1 .. Len(t)
      /\ DOMAIN (s \o t) = 1 .. Len(s) + Len(t)
      /\ \A i \in 1 .. Len(s) + Len(t) :
           (s \o t)[i] = IF i <= Len(s) THEN s[i] ELSE t[i - Len(s)]
  BY <1>1
<1> QED BY <1>2

LEMMA ExceptOf ==
  ASSUME NEW s, NEW k \in DOMAIN s, NEW r
  PROVE  /\ DOMAIN [s EXCEPT ![k] = r] = DOMAIN s
         /\ \A i \in DOMAIN s :
              [s EXCEPT ![k] = r][i] = IF i = k THEN r ELSE s[i]
OBVIOUS

LEMMA ClearOf ==
  ASSUME ClearInv, forged' = forged,
         \A i \in DOMAIN down' :
           ~Ends(down'[i]) \/ \E j \in DOMAIN down : down'[i] = down[j]
  PROVE  ClearInv'
<1>1. ASSUME NEW i \in DOMAIN down', Ends(down'[i]) PROVE forged'
  <2>1. PICK j \in DOMAIN down : down'[i] = down[j]
    BY <1>1
  <2> QED BY <1>1, <2>1 DEF ClearInv
<1> QED BY <1>1 DEF ClearInv, Ends

(* What a server sends ends no stream in the clear.                         *)
LEMMA SendsClear ==
  ASSUME AgreeInv, ClearInv, NEW records, IsSequence(records), Send(records),
         forged' = forged, \A i \in DOMAIN records : ~Ends(records[i])
  PROVE  ClearInv'
<1>1. down' = down \o records /\ IsSequence(down)
  BY DEF Send, AgreeInv
<1>2. \A i \in DOMAIN (down \o records) :
        \/ \E j \in DOMAIN down : (down \o records)[i] = down[j]
        \/ \E j \in DOMAIN records : (down \o records)[i] = records[j]
  BY <1>1, JoinOf
<1> DEFINE all == down \o records
<1> HIDE DEF all
<1>3. \A i \in DOMAIN down' : ~Ends(down'[i]) \/ \E j \in DOMAIN down : down'[i] = down[j]
  <2> USE DEF all
  <2>1. ASSUME NEW i \in DOMAIN all
        PROVE  ~Ends(all[i]) \/ \E j \in DOMAIN down : all[i] = down[j]
    <3>1. CASE \E j \in DOMAIN records : all[i] = records[j]
      BY <3>1
    <3> QED BY <1>2, <2>1, <3>1
  <2> QED BY <1>1, <2>1
<1> QED BY <1>3, ClearOf

LEMMA OneClear ==
  ASSUME AgreeInv, ClearInv, NEW r, ~Ends(r), Send(<<r>>), forged' = forged
  PROVE  ClearInv'
<1> DEFINE t == <<r>>
<1>1. t \in Seq({r}) /\ \A i \in DOMAIN t : t[i] = r
  OBVIOUS
<1>2. IsSequence(t) /\ Send(t)
  BY <1>1 DEF IsSequence
<1> HIDE DEF t
<1> QED BY <1>1, <1>2, SendsClear

LEMMA ClearAlways == Spec => []ClearInv
<1>1. Init => ClearInv
  <2>1. DOMAIN <<>> = {}
    OBVIOUS
  <2> QED BY <2>1 DEF Init, ClearInv
<1>2. ASSUME AgreeInv, ClearInv, [Next]_vars PROVE ClearInv'
  <2>1. CASE UNCHANGED <<down, forged>>
    BY <1>2, <2>1, ClearOf
  <2>2. CASE down # <<>> /\ down' = Tail(down) /\ forged' = forged
    <3>1. \A i \in DOMAIN Tail(down) : \E j \in DOMAIN down : Tail(down)[i] = down[j]
      BY <2>2, <1>2, TailOf DEF AgreeInv
    <3>2. \A i \in DOMAIN down' : \E j \in DOMAIN down : down'[i] = down[j]
      BY <2>2, <3>1
    <3> QED BY <1>2, <2>2, <3>2, ClearOf
  <2>3. CASE Client
    BY <2>1, <2>2, <2>3 DEF Client, SendHello, ConnectionEnds, SkipChangeCipherSpec,
       PlainAlert, Unreadable, ReadServerHello, ReadAlert, ReadFlight, NeedMore,
       ProcessMessage, SendFinished, WriteRecord, ReadBuffered, ReadData,
       ReadPostHandshake, Close, NextRecord, Open
  <2>4. CASE SrvHello
    <3>1. PICK b, c : /\ \/ Send(<<Plain("handshake", b), Plain("handshake", c)>>)
                         \/ Send(<<Plain("handshake", b)>>)
                      /\ forged' = forged
      BY <2>4 DEF SrvHello
    <3>2. ~Ends(Plain("handshake", b)) /\ ~Ends(Plain("handshake", c))
      BY DEF Ends, Plain, Record
    <3> DEFINE r == Plain("handshake", b)
               s == Plain("handshake", c)
    <3>3. <<r, s>> \in Seq({r, s}) /\ \A i \in DOMAIN <<r, s>> : <<r, s>>[i] \in {r, s}
      <4> HIDE DEF r, s
      <4> QED OBVIOUS
    <3>4. CASE Send(<<r, s>>)
      <4>1. IsSequence(<<r, s>>) /\ \A i \in DOMAIN <<r, s>> : ~Ends(<<r, s>>[i])
        BY <3>2, <3>3 DEF IsSequence
      <4> QED BY <1>2, <3>1, <3>4, <4>1, SendsClear
    <3>5. CASE Send(<<r>>)
      BY <1>2, <3>1, <3>2, <3>5, OneClear
    <3> QED BY <3>1, <3>4, <3>5
  <2>5. CASE SrvChangeCipherSpec
    <3>1. Send(<<ChangeCipherSpec>>) /\ forged' = forged
      BY <2>5 DEF SrvChangeCipherSpec
    <3>2. ~Ends(ChangeCipherSpec)
      BY DEF Ends, ChangeCipherSpec, Plain, Record
    <3> QED BY <1>2, <3>1, <3>2, OneClear
  <2>6. CASE SrvMessages \/ SrvData \/ SrvNotify
    <3>1. PICK inner, body : Send(<<Sealed(srvKey, inner, body)>>) /\ forged' = forged
      BY <2>6 DEF SrvMessages, SrvData, SrvNotify
    <3>2. ~Ends(Sealed(srvKey, inner, body))
      BY DEF Ends, Sealed, Record
    <3> QED BY <1>2, <3>1, <3>2, OneClear
  <2>7. CASE SrvRecord
    <3>1. CASE down' = down
      BY <2>1, <2>7, <3>1 DEF SrvRecord
    <3>2. CASE down' = Append(down, Sealed(srvKey, "alert", <<"unexpected_message">>))
      <4> DEFINE r == Sealed(srvKey, "alert", <<"unexpected_message">>)
      <4>1. ~Ends(r)
        BY DEF Ends, Sealed, Record
      <4>2. IsSequence(down) /\ forged' = forged
        BY <1>2, <2>7 DEF SrvRecord, AgreeInv
      <4> HIDE DEF r
      <4>3. \A i \in DOMAIN down' :
              ~Ends(down'[i]) \/ \E k \in DOMAIN down : down'[i] = down[k]
        <5>1. down' = Append(down, r)
          BY <3>2 DEF r
        <5> QED BY <4>1, <4>2, <5>1, AppendAt, AppendIs
      <4> QED BY <1>2, <4>2, <4>3, ClearOf
    <3> QED BY <2>7, <3>1, <3>2 DEF SrvRecord
  <2>8. CASE SrvRefuses
    <3>1. PICK r : /\ Send(<<r>>) /\ forged' = forged
                   /\ \/ r = Plain("alert", <<"handshake_failure">>)
                      \/ r = Sealed(srvKey, "alert", <<"internal_error">>)
      BY <2>8 DEF SrvRefuses
    <3>2. <<"handshake_failure">> # <<"close_notify">>
      OBVIOUS
    <3>3. ~Ends(r)
      BY <3>1, <3>2 DEF Ends, CloseNotify, Plain, Sealed, Record
    <3> QED BY <1>2, <3>1, <3>3, OneClear
  <2>9. CASE Break
    <3>1. PICK n \in 0 .. Len(down) : down' = SubSeq(down, 1, n) /\ forged' = forged
      BY <2>9 DEF Break
    <3>2. \A i \in DOMAIN SubSeq(down, 1, n) :
            \E j \in DOMAIN down : SubSeq(down, 1, n)[i] = down[j]
      BY <1>2, BeginningOf DEF AgreeInv
    <3>3. \A i \in DOMAIN down' : \E j \in DOMAIN down : down'[i] = down[j]
      BY <3>1, <3>2
    <3> QED BY <1>2, <3>1, <3>3, ClearOf
  <2>10. CASE Garble
    <3>1. PICK i \in DOMAIN down, record \in Clear :
            /\ down' = [down EXCEPT ![i] = record]
            /\ IF record = ClearNotify THEN forged' = TRUE ELSE UNCHANGED forged
      BY <2>10 DEF Garble
    <3>2. CASE record = ClearNotify
      BY <3>1, <3>2 DEF ClearInv
    <3>3. CASE record # ClearNotify
      <4>1. record.body = <<>>
        BY <3>3 DEF Clear, Plain, Record
      <4>2. ~Ends(record)
        BY <4>1 DEF Ends, CloseNotify
      <4>3. \A j \in DOMAIN down' :
              ~Ends(down'[j]) \/ \E k \in DOMAIN down : down'[j] = down[k]
        BY <3>1, <4>2, ExceptOf
      <4> QED BY <1>2, <3>1, <3>3, <4>3, ClearOf
    <3> QED BY <3>2, <3>3
  <2>11. CASE SrvCloses
    BY <2>1, <2>11 DEF SrvCloses
  <2>12. CASE UNCHANGED vars
    BY <2>1, <2>12 DEF vars
  <2> QED
    BY <1>2, <2>3, <2>4, <2>5, <2>6, <2>7, <2>8, <2>9, <2>10, <2>11, <2>12
    DEF Next, Server
<1> QED BY <1>1, <1>2, AgreeAlways, PTL DEF Spec

LEMMA StreamInit == Init => Stream!Init
<1> SUFFICES ASSUME Init PROVE Stream!Init
  OBVIOUS
<1>1. /\ pc = "start" /\ got = <<>> /\ answered = 0 /\ notified = FALSE
      /\ forged = FALSE
  BY DEF Init
<1>2. SubSeq(Answer, 1, 0) = <<>>
  <2>1. 1 \in Int /\ 0 \in Int /\ 0 < 1
    OBVIOUS
  <2> QED BY <2>1, SubSeqEmpty
<1> QED BY <1>1, <1>2 DEF Stream!Init

StreamStep == [Stream!Next]_<<Sent, notified, forged, got, Status>>

(* What the caller does not see.                                            *)
LEMMA NothingSeen ==
  ASSUME UNCHANGED <<answered, notified, forged, got>>,
         \/ pc' = pc
         \/ pc \notin {"ended", "failed"} /\ pc' \notin {"ended", "failed"}
  PROVE  StreamStep
<1>1. Status' = Status
  BY DEF Status
<1>2. Sent' = Sent
  BY DEF Sent, Answer
<1> QED BY <1>1, <1>2 DEF StreamStep

LEMMA FailureSeen ==
  ASSUME UNCHANGED <<answered, notified, forged, got>>,
         pc \notin {"ended", "failed"}, pc' = "failed"
  PROVE  StreamStep
<1>1. Status' = "failed" /\ Status = "open"
  BY DEF Status
<1>2. Sent' = Sent
  BY DEF Sent, Answer
<1> QED BY <1>1, <1>2 DEF StreamStep, Stream!Next, Stream!Fail, Sent, Status

LEMMA StreamClient ==
  ASSUME AgreeInv, AgreeInv', ClearInv, Client PROVE StreamStep
<1>1. UNCHANGED <<answered, notified, forged>>
  <2>1. CASE SendHello \/ ConnectionEnds \/ NeedMore \/ ProcessMessage
    BY <2>1 DEF SendHello, ConnectionEnds, NeedMore, ProcessMessage, machine
  <2>2. CASE SkipChangeCipherSpec \/ PlainAlert \/ Unreadable \/ ReadServerHello
    BY <2>2 DEF SkipChangeCipherSpec, PlainAlert, Unreadable, ReadServerHello, machine
  <2>3. CASE ReadAlert \/ ReadFlight \/ ReadData \/ ReadPostHandshake
    BY <2>3 DEF ReadAlert, ReadFlight, ReadData, ReadPostHandshake, machine
  <2>4. CASE SendFinished \/ WriteRecord \/ ReadBuffered \/ Close
    BY <2>4 DEF SendFinished, WriteRecord, ReadBuffered, Close, machine
  <2> QED BY <2>1, <2>2, <2>3, <2>4 DEF Client
<1>2. CASE SendHello \/ ConnectionEnds \/ NeedMore \/ ProcessMessage \/ SendFinished
           \/ WriteRecord
  <2>1. /\ got' = got /\ pc \notin {"ended", "failed"}
        /\ pc' = "failed" \/ pc' \notin {"ended", "failed"}
    BY <1>2 DEF SendHello, ConnectionEnds, NeedMore, ProcessMessage, SendFinished,
       WriteRecord, Reading, Fail
  <2> QED BY <1>1, <2>1, NothingSeen, FailureSeen
<1>3. CASE SkipChangeCipherSpec \/ Unreadable \/ ReadServerHello \/ ReadFlight
           \/ ReadPostHandshake
  <2>1. /\ got' = got /\ pc \notin {"ended", "failed"}
        /\ pc' = "failed" \/ pc' \notin {"ended", "failed"}
    BY <1>3 DEF SkipChangeCipherSpec, Unreadable, ReadServerHello, ReadFlight,
       ReadPostHandshake, Reading, Fail, client
  <2> QED BY <1>1, <2>1, NothingSeen, FailureSeen
<1>4. CASE Close
  <2>1. /\ got' = got
        /\ \/ pc' = pc
           \/ pc \notin {"ended", "failed"} /\ pc' \notin {"ended", "failed"}
    BY <1>4 DEF Close
  <2> QED BY <1>1, <2>1, NothingSeen
<1>5. CASE PlainAlert
  <2>1. /\ got' = got /\ pc \in {"server hello", "flight", "open"}
        /\ down # <<>> /\ Head(down).type = "alert" /\ pc' = AfterAlert
    BY <1>5 DEF PlainAlert, Reading, NextRecord
  <2>2. CASE pc = "open" /\ Head(down).body = CloseNotify
    <3>1. forged
      <4>1. 1 \in DOMAIN down /\ down[1] = Head(down)
        BY <2>1, FirstIs DEF AgreeInv
      <4> QED BY <2>1, <2>2, <4>1 DEF ClearInv, Ends
    <3>2. pc' = "ended"
      BY <2>1, <2>2 DEF AfterAlert, CloseNotify
    <3>3. Status = "open" /\ Status' = "ended"
      BY <2>2, <3>2 DEF Status
    <3>4. Sent' = Sent
      BY <1>1 DEF Sent, Answer
    <3> QED
      BY <1>1, <2>1, <3>1, <3>3, <3>4 DEF StreamStep, Stream!Next, Stream!End, Sent,
         Status
  <2>3. CASE ~(pc = "open" /\ Head(down).body = CloseNotify)
    <3>1. pc' = "failed"
      BY <2>1, <2>3 DEF AfterAlert, CloseNotify
    <3> QED BY <1>1, <2>1, <3>1, FailureSeen
  <2> QED BY <2>2, <2>3
<1>6. CASE ReadAlert
  <2>1. /\ got' = got /\ pc \in {"server hello", "flight", "open"}
        /\ down # <<>> /\ Head(down).type = "data" /\ pc' = AfterAlert
        /\ Head(down).key = readKey /\ Head(down).inner = "alert"
        /\ pc = "open" => readBuffer = <<>>
    BY <1>6 DEF ReadAlert, Open, Reading, NextRecord
  <2>2. CASE pc = "open" /\ Head(down).body = CloseNotify
    <3>1. notified /\ got = Sent
      BY <2>1, <2>2, EndIsTrue
    <3>2. pc' = "ended"
      BY <2>1, <2>2 DEF AfterAlert, CloseNotify
    <3>3. Status = "open" /\ Status' = "ended"
      BY <2>2, <3>2 DEF Status
    <3>4. Sent' = Sent
      BY <1>1 DEF Sent, Answer
    <3> QED
      BY <1>1, <2>1, <3>1, <3>3, <3>4 DEF StreamStep, Stream!Next, Stream!End, Sent,
         Status
  <2>3. CASE ~(pc = "open" /\ Head(down).body = CloseNotify)
    <3>1. pc' = "failed"
      BY <2>1, <2>3 DEF AfterAlert, CloseNotify
    <3> QED BY <1>1, <2>1, <3>1, FailureSeen
  <2> QED BY <2>2, <2>3
<1>7. CASE ReadBuffered \/ ReadData
  <2>1. pc = "open" /\ pc' = "open"
    BY <1>7 DEF ReadBuffered, ReadData
  <2>2. Len(got) <= Len(got')
    BY <1>7, ReadBufferedAgrees, ReadDataAgrees
  <2>3. /\ Len(got) \in Nat /\ Len(got) <= answered /\ answered \in Nat
        /\ answered <= Blocks /\ got = SubSeq(Answer, 1, Len(got))
    BY <2>1, GotSent DEF GotOfSent
  <2>4. /\ Len(got') \in Nat /\ Len(got') <= answered'
        /\ got' = SubSeq(Answer, 1, Len(got'))
    <3>1. (AgreeInv /\ pc = "open" => GotOfSent)'
      BY GotSent, PTL
    <3> QED BY <2>1, <3>1 DEF GotOfSent, Answer
  <2> DEFINE g == Len(got)
             h == Len(got')
  <2>5. g \in Nat /\ h \in Nat /\ g <= h /\ h <= answered /\ answered \in Nat
        /\ answered <= Blocks
    BY <1>1, <2>2, <2>3, <2>4
  <2>6. got = SubSeq(Answer, 1, g) /\ got' = SubSeq(Answer, 1, h)
    BY <2>3, <2>4
  <2> HIDE DEF g, h
  <2>7. h <= Blocks
    BY <2>5, AnswerIs
  <2>8. Stream!IsPrefix(got, got') /\ Stream!IsPrefix(got', Sent)
    BY <2>5, <2>6, <2>7, AnswerPrefix DEF Sent
  <2>9. Status = "open" /\ Status' = "open"
    BY <2>1 DEF Status
  <2>10. Sent' = Sent
    BY <1>1 DEF Sent, Answer
  <2> QED
    BY <1>1, <2>8, <2>9, <2>10 DEF StreamStep, Stream!Next, Stream!Deliver, Sent, Status
<1> QED BY <1>2, <1>3, <1>4, <1>5, <1>6, <1>7 DEF Client

LEMMA StreamServer ==
  ASSUME AgreeInv, Server \/ SrvRefuses \/ Break \/ Garble PROVE StreamStep
<1>1. UNCHANGED client
  BY DEF Server, SrvHello, SrvChangeCipherSpec, SrvMessages, SrvRecord, SrvData,
         SrvNotify, SrvCloses, SrvRefuses, Break, Garble
<1>2. pc' = pc /\ got' = got /\ Status' = Status
  BY <1>1 DEF client, Status
<1>3. CASE SrvHello \/ SrvChangeCipherSpec \/ SrvMessages \/ SrvRecord \/ SrvCloses
           \/ SrvRefuses \/ Break
  <2>1. UNCHANGED <<answered, notified, forged>>
    BY <1>3 DEF SrvHello, SrvChangeCipherSpec, SrvMessages, SrvRecord, SrvCloses,
       SrvRefuses, Break, machine
  <2> QED BY <1>2, <2>1, NothingSeen
<1>4. CASE SrvData
  <2>1. notified' = notified /\ forged' = forged
    BY <1>4 DEF SrvData
  <2>1a. ~notified
    BY <1>4, ServerIs DEF SrvData, AgreeInv
  <2>2. PICK n \in 0 .. Blocks - answered : answered' = answered + n
    BY <1>4 DEF SrvData
  <2>3. answered \in 0 .. Blocks /\ Blocks \in Nat
    BY AnswerIs DEF AgreeInv, ServerInv
  <2>4. /\ answered \in Nat /\ answered' \in Nat /\ answered <= answered'
        /\ answered' <= Blocks
    BY <2>2, <2>3
  <2>5. Stream!IsPrefix(Sent, Sent')
    <3> DEFINE a == answered
               b == answered'
    <3>1. Stream!IsPrefix(SubSeq(Answer, 1, a), SubSeq(Answer, 1, b))
      BY <2>4, AnswerPrefix
    <3>2. Sent' = SubSeq(Answer, 1, b)
      BY DEF Sent, Answer
    <3> QED BY <3>1, <3>2 DEF Sent
  <2> QED
    BY <1>2, <2>1, <2>1a, <2>5 DEF StreamStep, Stream!Next, Stream!Send, Sent, Status
<1>5. CASE SrvNotify
  <2>1. notified' = TRUE /\ answered' = answered /\ forged' = forged
    BY <1>5 DEF SrvNotify
  <2>2. Sent' = Sent
    BY <2>1 DEF Sent, Answer
  <2> QED
    BY <1>2, <2>1, <2>2 DEF StreamStep, Stream!Next, Stream!Finish, Sent, Status
<1>6. CASE Garble
  <2>1. UNCHANGED <<answered, notified>> /\ (forged' = forged \/ forged' = TRUE)
    BY <1>6 DEF Garble, machine
  <2>2. Sent' = Sent
    BY <2>1 DEF Sent, Answer
  <2>3. CASE forged' = forged
    BY <1>2, <2>1, <2>3, NothingSeen
  <2>4. CASE forged' = TRUE
    BY <1>2, <2>1, <2>2, <2>4 DEF StreamStep, Stream!Next, Stream!Forge, Sent, Status
  <2> QED BY <2>1, <2>3, <2>4
<1> QED BY <1>3, <1>4, <1>5, <1>6 DEF Server

(* Records, nonces, messages in pieces, tickets and alerts together are no  *)
(* more than the stream of ByteStream: what read_some returns is a prefix   *)
(* of what the peer wrote, in order and without repetition, and it says     *)
(* that the stream has ended only when all of it was returned, or when a    *)
(* record arrived as a close_notify in the clear.                           *)
THEOREM TlsImplementsStream == Spec => StreamSpec
<1> DEFINE Both == AgreeInv /\ ClearInv
<1>1. Both /\ Both' /\ [Next]_vars => StreamStep
  <2>1. UNCHANGED vars => StreamStep
    <3>1. UNCHANGED vars => UNCHANGED <<answered, notified, forged, got, pc>>
      BY DEF vars, machine, client
    <3> QED BY <3>1, NothingSeen
  <2> QED BY <2>1, StreamClient, StreamServer DEF Next
<1>2. Both /\ Both' /\ [Next]_vars =>
        [Stream!Next]_<<Sent, notified, forged, got, Status>>
  BY <1>1 DEF StreamStep
<1> QED
  BY <1>2, AgreeAlways, ClearAlways, StreamInit, PTL
  DEF Spec, StreamSpec, Stream!Spec, Stream!vars, Sent, Status
=============================================================================
