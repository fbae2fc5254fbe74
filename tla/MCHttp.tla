------------------------------- MODULE MCHttp -------------------------------
(***************************************************************************)
(* An instance of Http.  The bodies are what zlib and gzip produce.        *)
(***************************************************************************)
EXTENDS Http

F(name, value) == [name |-> name, value |-> value]
Length(n)  == F("content-length", n)
Chunked    == F("transfer-encoding", {"chunked"})
Coded(how) == F("content-encoding", how)
To(where)  == F("location", where)
Answer(status, fields, sent, meant) ==
  [status |-> status, fields |-> fields, body |-> sent, entity |-> meant]

(* `ab', plain, and `aaaaaab' in the codings.                               *)
Ab       == <<97, 98>>
Text     == <<97, 97, 97, 97, 97, 97, 98>>
Stored   == <<1, 2, 0, 253, 255, 97, 98>>
Fixed    == <<75, 76, 4, 129, 36, 0>>
Zlib     == <<120, 218, 75, 76, 4, 129, 36, 0, 10, 164, 2, 169>>
Gzip     == <<31, 139, 8, 0, 0, 0, 0, 0, 2, 3, 75, 76, 4, 129, 36, 0,
              206, 113, 130, 194, 7, 0, 0, 0>>
(* `aaaa', a flush, `b': a coded block, an empty stored one, a coded one.   *)
Flushed  == <<74, 76, 76, 76, 4, 0, 0, 0, 255, 255, 75, 2, 0>>
(* The same with two flushes: `aa', `b', `c'.                               *)
Twice    == <<74, 76, 4, 0, 0, 0, 255, 255, 74, 2, 0, 0, 0, 255, 255, 75, 6, 0>>
(* `acbcabaaccccabbbccbab', for which zlib writes a code of its own.        *)
Dynamic  == <<13, 193, 1, 1, 0, 0, 0, 130, 160, 173, 234, 255, 15, 5, 100, 8,
              29, 106, 137, 3>>
DynText  == <<97, 99, 98, 99, 97, 98, 97, 97, 99, 99, 99, 99, 97, 98, 98, 98,
              99, 99, 98, 97, 98>>

(* More than MaxResponse.                                                   *)
Many == [i \in 1 .. 30 |-> 97]

(* `2', `1' and `0', each with its line end, around `ab' and `c'.           *)
InChunks == <<50, 13, 10, 97, 98, 13, 10, 49, 13, 10, 99, 13, 10, 48, 13, 10, 13, 10>>
(* The zlib stream in chunks of 4 and 8 bytes, one with an extension.       *)
ZlibInChunks ==
  <<52, 59, 120, 13, 10>> \o SubSeq(Zlib, 1, 4) \o <<13, 10, 56, 13, 10>>
    \o SubSeq(Zlib, 5, 12) \o <<13, 10, 48, 13, 10, 13, 10>>

Whole ==
  { Answer(200, <<Length(2), F("transfer-encoding", {"identity"})>>, Ab, Ab),
    Answer(200, <<Length(2), Chunked>>, InChunks, <<97, 98, 99>>),
    Answer(200, <<>>, Ab, Ab),
    Answer(200, <<Length(2), Coded("identity"), To("http")>>, Ab, Ab),
    Answer(204, <<Length(2)>>, <<>>, <<>>),
    Answer(200, <<Chunked>>, <<122, 13, 10>>, <<>>),
    Answer(0, <<>>, <<>>, <<>>) }
Moved ==
  { Answer(301, <<To("https"), Length(1)>>, <<97>>, <<97>>),
    Answer(302, <<To("http")>>, <<>>, <<>>),
    Answer(303, <<To("http")>>, <<>>, <<>>),
    Answer(307, <<To("http")>>, <<>>, <<>>),
    Answer(308, <<To("elsewhere")>>, <<>>, <<>>),
    Answer(302, <<>>, <<>>, <<>>) }
Encoded ==
  { Answer(200, <<Chunked, Coded("deflate")>>, ZlibInChunks, Text),
    Answer(200, <<Coded("gzip")>>, Gzip, Text),
    Answer(200, <<Length(7), Coded("deflate")>>, Stored, Ab),
    Answer(200, <<Length(6), Coded("deflate")>>, Fixed, Text),
    Answer(200, <<Length(13), Coded("deflate")>>, Flushed, <<97, 97, 97, 97, 98>>),
    Answer(200, <<Length(20), Coded("deflate")>>, Dynamic, DynText),
    Answer(200, <<Length(2), Coded("deflate")>>, <<7, 7>>, <<7, 7>>),
    Answer(200, <<Length(30)>>, Many, Many),
    Answer(200, <<Chunked>>, <<49, 67, 13, 10>> \o Many, Many),
    Answer(200, <<>>, Many, Many) }

(* The coded bodies are answered to the first request, the others to any.   *)
MCResponses(hops) == Whole \cup Moved \cup IF hops = 0 THEN Encoded ELSE {}

MCFlushes(hops) ==
  {Answer(200, <<Length(18), Coded("deflate")>>, Twice, <<97, 97, 98, 99>>)}

MCRequests ==
  {[method |-> m, body |-> m = "POST", follow |-> f] : m \in Methods, f \in BOOLEAN}
MCAddresses == {<<"refuses", "accepts">>, <<"refuses">>}
=============================================================================
