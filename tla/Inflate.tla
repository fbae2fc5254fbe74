------------------------------ MODULE Inflate ------------------------------
(***************************************************************************)
(* The content decoders of src/src/net.cpp: DEFLATE, and its zlib and gzip *)
(* wrappers, on the bytes themselves, since what can go wrong here is a    *)
(* position.  A stream is a sequence of bytes.  A bit reader is the offset *)
(* of the bytes it was given and the number of bits it has taken of them.  *)
(* Step is one turn of a loop of the decoder: the header of a block, the   *)
(* next of its code lengths or its next symbol, so that a stream that is   *)
(* never finished is a behaviour, not a computation.                       *)
(***************************************************************************)
EXTENDS Naturals, Sequences

CONSTANT MaxInflate   \* 256 MiB: what a stream may be expanded to

ASSUME MaxInflateAssumption == MaxInflate \in Nat

Byte == 0 .. 255

-----------------------------------------------------------------------------
(* BitReader: bits are taken from the low end of each byte.                 *)
Reader(from) == [from |-> from, bit |-> 0]
Has(data, br, count) == br.bit + count <= 8 * (Len(data) - br.from)
BitAt(data, br, i) ==
  LET k == 8 * br.from + br.bit + i
  IN (data[k \div 8 + 1] \div 2 ^ (k % 8)) % 2
(* A number has its lowest bit first.                                       *)
Get(data, br, count) ==
  LET value[n \in 0 .. count] ==
        IF n = 0 THEN 0 ELSE 2 * value[n - 1] + BitAt(data, br, count - n)
  IN value[count]
Skip(br, count) == [br EXCEPT !.bit = @ + count]
BytePosition(br) == (br.bit + 7) \div 8

-----------------------------------------------------------------------------
(* Canonical Huffman codes: a code is, for each length, the symbols that    *)
(* have it, in ascending order.  lengths[s + 1] is the length of symbol s.  *)
Huffman(lengths) ==
  LET code[k \in 0 .. Len(lengths)] ==
        IF k = 0 THEN [n \in 1 .. 15 |-> <<>>]
        ELSE IF lengths[k] = 0 THEN code[k - 1]
        ELSE [code[k - 1] EXCEPT ![lengths[k]] = Append(@, k - 1)]
  IN code[Len(lengths)]

First(S) == CHOOSE s \in S : \A t \in S : s <= t
Bad == [ok |-> FALSE]

(* Reads a symbol bit by bit: word[n] is made of the first n bits, low[n]   *)
(* is the first code of length n, and the shortest word that is a code has  *)
(* been read.                                                               *)
Decode(data, br, code) ==
  LET word[n \in 0 .. 15] ==
        IF n = 0 THEN 0 ELSE 2 * word[n - 1] + BitAt(data, br, n - 1)
      low[n \in 0 .. 15] ==
        IF n <= 1 THEN 0 ELSE 2 * (low[n - 1] + Len(code[n - 1]))
      codes == {n \in 1 .. 15 : Has(data, br, n) /\ word[n] < low[n] + Len(code[n])}
      n == First(codes)
  IN IF codes = {} THEN Bad
     ELSE [ok |-> TRUE, symbol |-> code[n][word[n] - low[n] + 1], br |-> Skip(br, n)]

LenBase   == <<3, 4, 5, 6, 7, 8, 9, 10, 11, 13, 15, 17, 19, 23, 27, 31, 35, 43,
               51, 59, 67, 83, 99, 115, 131, 163, 195, 227, 258>>
LenExtra  == <<0, 0, 0, 0, 0, 0, 0, 0, 1, 1, 1, 1, 2, 2, 2, 2, 3, 3, 3, 3, 4, 4,
               4, 4, 5, 5, 5, 5, 0>>
DistBase  == <<1, 2, 3, 4, 5, 7, 9, 13, 17, 25, 33, 49, 65, 97, 129, 193, 257,
               385, 513, 769, 1025, 1537, 2049, 3073, 4097, 6145, 8193, 12289,
               16385, 24577>>
DistExtra == [s \in 1 .. 30 |-> IF s <= 2 THEN 0 ELSE (s - 1) \div 2 - 1]

(* The bytes a match appends to out: it may overlap what it appends.        *)
Match(out, distance, length) ==
  [i \in 1 .. length |-> out[Len(out) - distance + 1 + ((i - 1) % distance)]]

(* A match: a length and a distance, with extra bits, of what is repeated.  *)
Repeated(data, br, dist, k, out) ==
  IF k > 29 \/ ~Has(data, br, LenExtra[k]) THEN Bad
  ELSE LET length == LenBase[k] + Get(data, br, LenExtra[k])
           d == Decode(data, Skip(br, LenExtra[k]), dist) IN
  IF ~d.ok THEN Bad
  ELSE IF d.symbol >= 30 THEN Bad
  ELSE LET extra == DistExtra[d.symbol + 1] IN
  IF ~Has(data, d.br, extra) THEN Bad
  ELSE LET distance == DistBase[d.symbol + 1] + Get(data, d.br, extra) IN
  IF distance > Len(out) \/ Len(out) + length > MaxInflate THEN Bad
  ELSE [ok |-> TRUE, br |-> Skip(d.br, extra), out |-> out \o Match(out, distance, length)]

-----------------------------------------------------------------------------
(* The decoder: what it reads, how far it is, what it has put out, whether  *)
(* this block is the last, and the place in inflate_impl: between blocks,   *)
(* among the code lengths of a block, or among its symbols.                 *)
Decoder(data, br, out, final, place) ==
  [data |-> data, br |-> br, out |-> out, final |-> final, place |-> place]
Between == [at |-> "blocks"]
Broken  == [at |-> "broken"]
InLengths(clen, nlit, total, lengths) ==
  [at |-> "lengths", clen |-> clen, nlit |-> nlit, total |-> total, lengths |-> lengths]
InSymbols(lit, dist) == [at |-> "symbols", lit |-> lit, dist |-> dist]

Start(data) == Decoder(data, Reader(0), <<>>, FALSE, Between)
Stop(z)     == Decoder(z.data, z.br, z.out, z.final, Broken)
Resume(z, br, out, place) == Decoder(z.data, br, out, z.final, place)

(* The loop of inflate_block_body: a literal, a match or the end mark, 256. *)
NextSymbol(z) ==
  LET l == Decode(z.data, z.br, z.place.lit) IN
  IF ~l.ok THEN Stop(z)
  ELSE IF l.symbol < 256
  THEN IF Len(z.out) >= MaxInflate THEN Stop(z)
       ELSE Resume(z, l.br, Append(z.out, l.symbol), z.place)
  ELSE IF l.symbol = 256 THEN Resume(z, l.br, z.out, Between)
  ELSE LET m == Repeated(z.data, l.br, z.place.dist, l.symbol - 256, z.out) IN
  IF m.ok THEN Resume(z, m.br, m.out, z.place) ELSE Stop(z)

(* The code lengths of a dynamic block, themselves coded: 16 repeats the    *)
(* last one, 17 and 18 repeat zero.  When all are there the codes are made. *)
Times(n, x) == [i \in 1 .. n |-> x]
MoreLengths(z, br, more) ==
  Resume(z, br, z.out,
         InLengths(z.place.clen, z.place.nlit, z.place.total, z.place.lengths \o more))
RepeatBits(symbol)  == IF symbol = 16 THEN 2 ELSE IF symbol = 17 THEN 3 ELSE 7
RepeatLeast(symbol) == IF symbol = 18 THEN 11 ELSE 3
NextLengths(z) ==
  LET n == Len(z.place.lengths)
      c == Decode(z.data, z.br, z.place.clen) IN
  IF n > z.place.total THEN Stop(z)
  ELSE IF n = z.place.total
  THEN Resume(z, z.br, z.out,
              InSymbols(Huffman(SubSeq(z.place.lengths, 1, z.place.nlit)),
                        Huffman(SubSeq(z.place.lengths, z.place.nlit + 1, n))))
  ELSE IF ~c.ok THEN Stop(z)
  ELSE IF c.symbol < 16 THEN MoreLengths(z, c.br, <<c.symbol>>)
  ELSE IF (c.symbol = 16 /\ n = 0) \/ ~Has(z.data, c.br, RepeatBits(c.symbol)) THEN Stop(z)
  ELSE MoreLengths(z, Skip(c.br, RepeatBits(c.symbol)),
         Times(RepeatLeast(c.symbol) + Get(z.data, c.br, RepeatBits(c.symbol)),
               IF c.symbol = 16 THEN z.place.lengths[n] ELSE 0))

ClenOrder == <<16, 17, 18, 0, 8, 7, 9, 6, 10, 5, 11, 4, 12, 3, 13, 2, 14, 1, 15>>
ClenLengths(data, br, nclen) ==
  [s \in 1 .. 19 |->
     LET i == CHOOSE j \in 1 .. 19 : ClenOrder[j] = s - 1
     IN IF i > nclen THEN 0 ELSE Get(data, Skip(br, 3 * (i - 1)), 3)]
DynamicBlock(z, br) ==
  IF ~Has(z.data, br, 14) THEN Stop(z)
  ELSE LET nlit  == 257 + Get(z.data, br, 5)
           ndist == 1 + Get(z.data, Skip(br, 5), 5)
           nclen == 4 + Get(z.data, Skip(br, 10), 4)
           at    == Skip(br, 14) IN
  IF ~Has(z.data, at, 3 * nclen) THEN Stop(z)
  ELSE Resume(z, Skip(at, 3 * nclen), z.out,
              InLengths(Huffman(ClenLengths(z.data, at, nclen)), nlit, nlit + ndist, <<>>))

FixedLit   == Times(144, 8) \o Times(112, 9) \o Times(24, 7) \o Times(8, 8)
FixedCodes == InSymbols(Huffman(FixedLit), Huffman(Times(30, 5)))

(* A stored block: its length is read at the position of the bit reader in  *)
(* the whole input, although that position counts from where the reader     *)
(* was last seeded; the reader is then seeded behind the block.             *)
StoredBlock(z, br) ==
  LET at == BytePosition(br) IN
  IF at + 4 > Len(z.data) THEN Stop(z)
  ELSE LET len == z.data[at + 1] + 256 * z.data[at + 2] IN
  IF at + 4 + len > Len(z.data) \/ Len(z.out) + len > MaxInflate THEN Stop(z)
  ELSE Resume(z, Reader(at + 4 + len), z.out \o SubSeq(z.data, at + 5, at + 4 + len), Between)

(* The loop of inflate_impl: the header of a block.                         *)
Block(z) ==
  IF ~Has(z.data, z.br, 3) THEN Stop(z)
  ELSE LET final == Get(z.data, z.br, 1) = 1
           type  == Get(z.data, Skip(z.br, 1), 2)
           at    == Skip(z.br, 3)
           here  == Decoder(z.data, z.br, z.out, final, Between)
       IN IF type = 0 THEN StoredBlock(here, at)
          ELSE IF type = 1 THEN Resume(here, at, z.out, FixedCodes)
          ELSE IF type = 2 THEN DynamicBlock(here, at)
          ELSE Stop(here)

Step(z) == IF z.place.at = "symbols" THEN NextSymbol(z)
           ELSE IF z.place.at = "lengths" THEN NextLengths(z) ELSE Block(z)
IsBroken(z) == z.place.at = "broken"
IsDone(z)   == z.final /\ z.place.at = "blocks"

-----------------------------------------------------------------------------
(* The wrappers: where the deflate data is, and the check sum of zlib.  The *)
(* check sum and the length at the end of a gzip stream are not looked at.  *)
IsZlib(data) == /\ Len(data) >= 2 /\ data[1] % 16 = 8
                /\ (256 * data[1] + data[2]) % 31 = 0

Adler32(data) ==
  LET sum[n \in 0 .. Len(data)] ==
        IF n = 0 THEN <<1, 0>>
        ELSE LET a == (sum[n - 1][1] + data[n]) % 65521
             IN <<a, (sum[n - 1][2] + a) % 65521>>
  IN sum[Len(data)]

(* inflate_bytes: the payload, and whether its result is accepted.          *)
InflatePayload(data) == IF IsZlib(data) THEN SubSeq(data, 3, Len(data)) ELSE data
InflateAccepts(data, out) ==
  LET n == Len(data) IN
  IsZlib(data) /\ n >= 6 =>
    Adler32(out) = <<256 * data[n - 1] + data[n], 256 * data[n - 3] + data[n - 2]>>

(* gunzip_bytes: the header, and its optional fields.                       *)
GunzipPayload(data) ==
  LET n == Len(data)
      flag(b) == (data[4] \div b) % 2 = 1
      pastString(at) ==
        LET ends == {i \in at .. n - 1 : data[i + 1] = 0}
        IN IF ends = {} THEN n ELSE 1 + First(ends)
      extra   == IF flag(4) THEN 12 + data[11] + 256 * data[12] ELSE 10
      name    == IF flag(8) THEN pastString(extra) ELSE extra
      comment == IF flag(16) THEN pastString(name) ELSE name
      at      == IF flag(2) THEN comment + 2 ELSE comment
  IN IF n < 18 \/ data[1] # 31 \/ data[2] # 139 \/ data[3] # 8 \/ at >= n
     THEN <<>> ELSE SubSeq(data, at + 1, n)
=============================================================================
