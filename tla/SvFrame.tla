------------------------------ MODULE SvFrame ------------------------------
(***************************************************************************)
(* The bytes of a sampled values frame, three times: as the encoder of the *)
(* backend writes them (native/src/SvEncoder.cc), as the frame viewer of   *)
(* the page makes them up when it has no real frame, and as the viewer's   *)
(* parser and tree believe them to lie (components/FrameViewer.js).  A     *)
(* frame is a sequence of [f, v]: the byte v and the field it belongs to.  *)
(***************************************************************************)
EXTENDS Integers, Sequences, SequencesExt

CONSTANTS
  AppId,      \* application id of the streams
  ConfRev,    \* their configuration revision
  Synch       \* their synchronisation flag

ASSUME NumbersAssumption == AppId \in Nat /\ ConfRev \in Nat /\ Synch \in Nat

Bytes(field, values) == [i \in DOMAIN values |-> [f |-> field, v |-> values[i]]]
Word(n)  == <<(n \div 256) % 256, n % 256>>
DWord(n) == Word(n \div 65536) \o Word(n)
Mac(b)   == <<b, b, b, b, b, b>>
Tagged(tag, values) == <<tag, Len(values)>> \o values
\* The BER long form, two bytes of length.
Opening(tag, content) == <<tag, 130>> \o Word(Len(content))

\* Positions, from 0, of the bytes of a field.
BytesOf(frame, field) == {i \in 0..(Len(frame) - 1) : frame[i + 1].f = field}

(***************************************************************************)
(* What the backend sends.                                                  *)
(***************************************************************************)
VlanTag(vlan, prio) ==
  IF vlan > 0 THEN Bytes("eth-vlan", <<129, 0>> \o Word(prio * 8192 + vlan)) ELSE <<>>

\* A sample and its quality.
Quoted(n) == DWord(n) \o <<0, 0, 0, 0>>

SeqData(samples) ==
  LET values == [k \in 1..(8 * Len(samples)) |->
                   Quoted(samples[(k + 7) \div 8])[((k - 1) % 8) + 1]]
  IN  (IF Len(values) < 128 THEN <<135>> ELSE <<135, 129>>) \o <<Len(values)>> \o values

\* An encoder without channels takes eight.
EncodedAsdu(s) ==
     Bytes("svid", Tagged(128, s.svId)) \o Bytes("smpcnt", Tagged(130, Word(s.smpCnt)))
  \o Bytes("confrev", Tagged(131, DWord(ConfRev))) \o Bytes("smpsynch", Tagged(133, <<Synch>>))
  \o Bytes("seqdata", SeqData(IF s.samples = <<>> THEN [i \in 1..8 |-> 0] ELSE s.samples))

\* sv_encoder_encode_packet() of a stream s.
Encoded(s) ==
  LET asdu   == EncodedAsdu(s)
      seq    == Bytes("asdu", Opening(48, asdu)) \o asdu
      savPdu == Bytes("noasdu", <<128, 1, 1>>) \o Bytes("seqasdu", Opening(162, seq)) \o seq
  IN   Bytes("eth-dst", Mac(1)) \o Bytes("eth-src", Mac(2)) \o VlanTag(s.vlan, s.prio)
    \o Bytes("eth-type", <<136, 186>>) \o Bytes("sv-appid", Word(AppId))
    \o Bytes("sv-length", Word(Len(savPdu) + 12))
    \o Bytes("sv-res1", <<0, 0>>) \o Bytes("sv-res2", <<0, 0>>)
    \o Bytes("savpdu", Opening(96, savPdu)) \o savPdu

(***************************************************************************)
(* What the viewer makes up, up to the name of the first ASDU.              *)
(***************************************************************************)
MadeUpTag(s) == Bytes("eth-vlan", <<129, 0>> \o Word(s.prio * 8192 + s.vlan))

Calculated(s) ==
     Bytes("eth-dst", Mac(1)) \o Bytes("eth-src", Mac(2)) \o MadeUpTag(s)
  \o Bytes("eth-type", <<136, 186>>) \o Bytes("sv-appid", Word(AppId))
  \o Bytes("sv-length", Word(108)) \o Bytes("sv-res1", <<0, 0>>) \o Bytes("sv-res2", <<0, 0>>)
  \o Bytes("savpdu", <<96, 102>>) \o Bytes("noasdu", <<128, 1, s.asdu>>)
  \o Bytes("seqasdu", <<162, 97>>) \o Bytes("asdu", <<48, 95>>)
  \o Bytes("svid", Tagged(128, s.svId))

(***************************************************************************)
(* The parser.  A byte past the end reads as undefined, which shifts to 0.  *)
(***************************************************************************)
At(b, k)  == IF k < Len(b) THEN b[k + 1].v ELSE 0
U16(b, k) == 256 * At(b, k) + At(b, k + 1)
S32(b, k) == LET high == IF At(b, k) >= 128 THEN U16(b, k) - 65536 ELSE U16(b, k)
             IN  high * 65536 + U16(b, k + 2)

IsLong(b, pos)   == At(b, pos) >= 128
LengthEnd(b, pos) == IF IsLong(b, pos) THEN pos + 1 + (At(b, pos) % 128) ELSE pos + 1
LengthAt(b, pos) ==
  LET size == At(b, pos) % 128
      upTo[n \in 0..size] == IF n = 0 THEN 0 ELSE 256 * upTo[n - 1] + At(b, pos + n)
  IN  IF IsLong(b, pos) THEN upTo[size] ELSE At(b, pos)

NoAsdu == [svId |-> <<>>, smpCnt |-> 0, confRev |-> 0, synch |-> 0, samples |-> <<>>]

SamplesAt(b, pos, end) ==
  LET fit == (end - pos) \div 8
  IN  [i \in 1..(IF fit < 8 THEN fit ELSE 8) |-> S32(b, pos + 8 * (i - 1))]

WithField(b, end, asdu, p) ==
  LET tag == At(b, p)
      len == At(b, p + 1)
  IN  CASE tag = 128 -> [asdu EXCEPT !.svId = [i \in 1..len |-> At(b, p + 1 + i)]]
        [] tag = 130 -> [asdu EXCEPT !.smpCnt = U16(b, p + 2)]
        [] tag = 131 -> [asdu EXCEPT !.confRev = S32(b, p + 2)]
        [] tag = 133 -> [asdu EXCEPT !.synch = At(b, p + 2)]
        [] tag = 135 -> [asdu EXCEPT !.samples = @ \o SamplesAt(b, p + 2, end)]
        [] OTHER     -> asdu

\* The lengths of the fields are taken to be one byte long.
NextField(b, end, walk) ==
  IF walk.pos >= end THEN walk
  ELSE [pos  |-> walk.pos + 2 + At(b, walk.pos + 1),
        asdu |-> WithField(b, end, walk.asdu, walk.pos)]

\* A field takes two bytes or more, so that len steps are enough.
ParsedAsdu(b, pos) ==
  LET start == LengthEnd(b, pos + 1)
      len   == LengthAt(b, pos + 1)
      walk[n \in 0..len] == IF n = 0 THEN [pos |-> start, asdu |-> NoAsdu]
                            ELSE NextField(b, start + len, walk[n - 1])
  IN  IF At(b, pos) # 48 THEN NoAsdu ELSE walk[len].asdu

\* Position of the first ASDU of the savPdu at pos.
FirstAsdu(b, pos) ==
  LET first == LengthEnd(b, pos + 1)
      seq   == IF At(b, first) = 128 THEN first + 3 ELSE first
  IN  LengthEnd(b, seq + 1)

HasVlan(b) == At(b, 12) = 129 /\ At(b, 13) = 0
SvHeader(b) == IF HasVlan(b) THEN 18 ELSE 14

Parsed(b) ==
  [vlan  |-> IF HasVlan(b) THEN U16(b, 14) % 4096 ELSE 0,
   prio  |-> IF HasVlan(b) THEN U16(b, 14) \div 8192 ELSE 0,
   appId |-> U16(b, SvHeader(b)),
   asdu  |-> IF At(b, SvHeader(b) + 8) = 96 THEN ParsedAsdu(b, FirstAsdu(b, SvHeader(b) + 8))
                                            ELSE NoAsdu]

(***************************************************************************)
(* The tree: where the viewer says a field lies, [at, len], for streams of  *)
(* a shape: length of the name, number of channels, number of ASDUs.        *)
(***************************************************************************)
Span(at, len) == [at |-> at, len |-> len]
SeqDataSize(sh) == 2 + 8 * sh.chs
AsduSize(sh) == 2 + sh.sv + 4 + 6 + 3 + SeqDataSize(sh) + 4
ApduSize(sh) == 3 + sh.asdu * (2 + sh.sv + 4 + 6 + 3 + SeqDataSize(sh) + 6 + 2) + 4
SvPduSize(sh) == ApduSize(sh) + 4

\* Mutant of AsduAt: the names are not counted.
AsduAt_Unnamed(sh, i) == 33 + i * (AsduSize(sh) - sh.sv)
AsduAt(sh, i) == 33 + i * AsduSize(sh)

Header ==
  [n \in {"ethernet", "eth-dst", "eth-src", "eth-vlan", "eth-type",
          "sv-appid", "sv-length", "sv-res1", "sv-res2", "noasdu"} |->
     CASE n = "ethernet" -> Span(0, 18)
       [] n = "eth-dst" -> Span(0, 6)
       [] n = "eth-src" -> Span(6, 6)
       [] n = "eth-vlan" -> Span(12, 4)
       [] n = "eth-type" -> Span(16, 2)
       [] n = "sv-appid" -> Span(18, 2)
       [] n = "sv-length" -> Span(20, 2)
       [] n = "sv-res1" -> Span(22, 2)
       [] n = "sv-res2" -> Span(24, 2)
       [] OTHER -> Span(28, 3)]

InAsdu(sh, i) ==
  [n \in {"svid", "smpcnt", "confrev", "smpsynch", "seqdata"} |->
     LET at == AsduAt(sh, i)
     IN  CASE n = "svid" -> Span(at + 2, 2 + sh.sv)
           [] n = "smpcnt" -> Span(at + 4 + sh.sv, 4)
           [] n = "confrev" -> Span(at + 8 + sh.sv, 6)
           [] n = "smpsynch" -> Span(at + 14 + sh.sv, 3)
           [] OTHER -> Span(at + 17 + sh.sv, SeqDataSize(sh))]

SvPdu(sh) == Span(18, SvPduSize(sh) + 8)
Apdu(sh)  == Span(26, ApduSize(sh))
Asdu(sh, i) == Span(AsduAt(sh, i), AsduSize(sh))

Positions(r) == r.at..(r.at + r.len - 1)
Within(r, outer) == outer.at <= r.at /\ r.at + r.len <= outer.at + outer.len
Apart(r, q) == r.at + r.len <= q.at \/ q.at + q.len <= r.at
=============================================================================
