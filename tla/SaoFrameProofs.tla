---------------------------- MODULE SaoFrameProofs ----------------------------
(***************************************************************************)
(* The frame codec for every limit, length, header and cut: what the       *)
(* reader returns is what was written, up to the first frame that was cut. *)
(*                                                                         *)
(* The argument is about places in the byte stream.  Frames lie one behind *)
(* the other (Layout), so a byte belongs to one frame, and as long as no   *)
(* frame was cut the reader stands where the next one starts or behind its *)
(* header (InStep).  The length survives its four bytes (LengthRoundTrip). *)
(***************************************************************************)
EXTENDS SaoFrame, SequenceTheorems, TLAPS

Frame == [hdr : Seq(Byte), len : Nat, at : Nat, put : Nat \ {0}]
Item(max) == [type : Byte, len : 0..max, from : Nat]

Sorts ==
    /\ wmax \in Limits /\ rmax \in Limits
    /\ sent \in Seq(Frame) /\ writer \in {"open", "closed", "err"}
    /\ pos \in Nat /\ reader \in {"header", "body", "eof"} \cup Errors
    /\ cur \in [type : Byte, len : 0..rmax]
    /\ got \in Seq(Item(rmax))

\* A header is nine bytes and says what len is.
Headers ==
    \A i \in DOMAIN sent :
        /\ Len(sent[i].hdr) = HEADER_LEN
        /\ sent[i].len = from_be_bytes(SubSeq(sent[i].hdr, 6, 9))

\* Where frame k starts in the byte stream, or will start.
Start(k) == IF k = 1 THEN 0 ELSE sent[k - 1].at + sent[k - 1].put

Covers(i, x) == sent[i].at <= x /\ x < sent[i].at + sent[i].put

\* The frames lie one behind the other and leave no byte out.
Layout ==
    /\ \A i \in DOMAIN sent : sent[i].at = Start(i)
    /\ \A i, j \in DOMAIN sent : i < j => sent[i].at + sent[i].put <= sent[j].at
    /\ \A x \in Nat : x < End => \E i \in DOMAIN sent : Covers(i, x)
    /\ pos <= End

\* While every frame so far is sound, the reader stands at a frame's start or
\* behind its header, and is at the frame that comes after those it returned.
InStep ==
    /\ SoundUpTo(Len(sent)) => Len(got) <= Len(sent)
    /\ SoundUpTo(Len(got)) /\ reader = "header" => pos = Start(Len(got) + 1)
    /\ SoundUpTo(Len(got)) /\ reader = "body" =>
          /\ Len(got) < Len(sent)
          /\ pos = Start(Len(got) + 1) + HEADER_LEN
          /\ Sound(sent[Len(got) + 1]) =>
                cur = [type |-> sent[Len(got) + 1].hdr[5], len |-> sent[Len(got) + 1].len]

\* A reader that gave up had a frame before it that is not sound.
NoneRefused == reader \notin {"header", "body"} => ~SoundUpTo(Len(got) + 1)

GivenUp ==
    /\ reader = "eof" => writer # "open"
    /\ reader \in Errors /\ SoundUpTo(Len(got)) => Len(got) < Len(sent)
    /\ NoneRefused

FrameInv == Sorts /\ Headers /\ Layout /\ InStep /\ Faithful /\ GivenUp
-----------------------------------------------------------------------------
(***************************************************************************)
(* The four bytes of a length.                                             *)
(***************************************************************************)
LEMMA Quotient ==
    ASSUME NEW x \in Nat
    PROVE  /\ x \div 256 \in Nat /\ x % 256 \in 0..255
           /\ x = 256 * (x \div 256) + (x % 256)
<1>a. \A y \in Int : y % 256 \in 0..255 /\ y \div 256 \in Int /\ y = 256 * (y \div 256) + (y % 256)
  OBVIOUS
<1>1. x \div 256 \in Int /\ x % 256 \in 0..255 /\ x = 256 * (x \div 256) + (x % 256)
  BY <1>a
<1>2. \A q \in Int, r \in 0..255 : x = 256 * q + r => q >= 0
  OBVIOUS
<1> DEFINE q == x \div 256
<1>3. q \in Int /\ q >= 0
  BY <1>1, <1>2
<1> HIDE DEF q
<1>4. q \in Nat
  BY <1>3
<1> QED BY <1>1, <1>4 DEF q

LEMMA SplitAt ==
    ASSUME NEW n \in Nat
    PROVE  /\ n \div 65536 = (n \div 256) \div 256
           /\ n \div 16777216 = (n \div 65536) \div 256
  BY SMT

LEMMA LengthRoundTrip ==
    ASSUME NEW n \in Nat, FourBytes(n)
    PROVE  /\ to_be_bytes(n) \in Seq(Byte) /\ Len(to_be_bytes(n)) = 4
           /\ from_be_bytes(to_be_bytes(n)) = n
<1> DEFINE a == n \div 256
           b == n \div 65536
           c == n \div 16777216
<1>1. a \in Nat /\ n % 256 \in 0..255 /\ n = 256 * a + (n % 256)
  BY Quotient
<1>2. b = a \div 256 /\ c = b \div 256
  BY SplitAt
<1>3. b \in Nat /\ a % 256 \in 0..255 /\ a = 256 * b + (a % 256)
  BY <1>1, <1>2, Quotient
<1>4. b % 256 \in 0..255 /\ b = 256 * c + (b % 256) /\ c \in 0..255
  BY <1>2, <1>3, Quotient, SMT DEF Byte, FourBytes
<1>5. to_be_bytes(n) = <<c, b % 256, a % 256, n % 256>>
  BY SMT DEF to_be_bytes
<1> HIDE DEF a, b, c
<1>6. 16777216 * c + 65536 * (b % 256) + 256 * (a % 256) + (n % 256) = n
  BY <1>1, <1>3, <1>4, SMT
<1>7. from_be_bytes(<<c, b % 256, a % 256, n % 256>>) = n
  BY <1>6, SMT DEF from_be_bytes
<1> QED BY <1>1, <1>3, <1>4, <1>5, <1>7 DEF Byte

LEMMA SmallerFits ==
    ASSUME NEW m \in Nat, NEW n \in Nat, n <= m, FourBytes(m)
    PROVE  FourBytes(n)
<1> DEFINE q == m \div 16777216
           r == n \div 16777216
<1>1. q \in Nat /\ m < 16777216 * q + 16777216 /\ r \in Nat /\ 16777216 * r <= n
  BY SMT
<1>2. q \in 0..255
  BY SMT DEF Byte, FourBytes
<1> HIDE DEF q, r
<1>3. r <= q
  BY <1>1, SMT
<1>4. r \in 0..255
  BY <1>1, <1>2, <1>3, SMT
<1> QED BY <1>4, SMT DEF Byte, FourBytes, r

LEMMA LengthNat ==
    ASSUME NEW w \in Byte, NEW x \in Byte, NEW y \in Byte, NEW z \in Byte
    PROVE  16777216 * w + 65536 * x + 256 * y + z \in Nat
  BY SMT DEF Byte

LEMMA FromBytes ==
    ASSUME NEW b \in Seq(Byte), Len(b) = 4
    PROVE  from_be_bytes(b) \in Nat
<1>1. \A k \in 1..4 : b[k] \in Byte
  BY ElementOfSeq
<1>2. b[1] \in Byte /\ b[2] \in Byte /\ b[3] \in Byte /\ b[4] \in Byte
  BY <1>1
<1>3. 16777216 * b[1] + 65536 * b[2] + 256 * b[3] + b[4] \in Nat
  BY <1>2, LengthNat, SMT
<1> QED BY <1>3, SMT DEF from_be_bytes

LEMMA LengthBytes ==
    ASSUME NEW h \in Seq(Byte), Len(h) = 9
    PROVE  /\ SubSeq(h, 6, 9) \in Seq(Byte) /\ Len(SubSeq(h, 6, 9)) = 4
           /\ from_be_bytes(SubSeq(h, 6, 9)) \in Nat /\ h[5] \in Byte
<1>1. \A i \in 1..9 : h[i] \in Byte
  BY ElementOfSeq
<1>2. SubSeq(h, 6, 9) \in Seq(Byte) /\ Len(SubSeq(h, 6, 9)) = 4
  BY <1>1, SubSeqProperties
<1>3. h[5] \in Byte
  BY <1>1
<1> QED BY <1>2, <1>3, FromBytes

LEMMA HeaderIs ==
    ASSUME NEW t \in Byte, NEW n \in Nat, FourBytes(n)
    PROVE  /\ write_header(t, n) \in Seq(Byte) /\ Len(write_header(t, n)) = 9
           /\ from_be_bytes(SubSeq(write_header(t, n), 6, 9)) = n
<1> DEFINE be == to_be_bytes(n)
           h  == write_header(t, n)
           s  == <<83, 65, 79>> \o <<1, t>>
<1>1. be \in Seq(Byte) /\ Len(be) = 4 /\ from_be_bytes(be) = n
  BY LengthRoundTrip
<1>2. s = <<83, 65, 79, 1, t>>
  <2> DEFINE m == <<83, 65, 79>>
             v == <<1, t>>
  <2>0. m \in Seq(Byte) /\ v \in Seq(Byte)
    BY DEF Byte
  <2>1. Len(m) = 3 /\ m[1] = 83 /\ m[2] = 65 /\ m[3] = 79 /\ Len(v) = 2 /\ v[1] = 1 /\ v[2] = t
    OBVIOUS
  <2> HIDE DEF m, v
  <2>2. /\ m \o v \in Seq(Byte) /\ Len(m \o v) = Len(m) + Len(v)
        /\ \A i \in 1..(Len(m) + Len(v)) : (m \o v)[i] = IF i <= Len(m) THEN m[i] ELSE v[i - Len(m)]
    BY <2>0, ConcatProperties
  <2> DEFINE z == m \o v
  <2>3. z \in Seq(Byte) /\ Len(z) = 5
    BY <2>1, <2>2
  <2>4. z[1] = 83 /\ z[2] = 65 /\ z[3] = 79 /\ z[4] = 1 /\ z[5] = t
    BY <2>1, <2>2
  <2>5. s = z
    BY DEF m, v
  <2> HIDE DEF z
  <2>6. z = <<83, 65, 79, 1, t>>
    BY <2>3, <2>4
  <2> QED BY <2>5, <2>6
<1>3. s \in Seq(Byte) /\ Len(s) = 5
  BY <1>2 DEF Byte
<1>4. h = s \o be
  BY DEF write_header, MAGIC, VERSION
<1> HIDE DEF s, be, h
<1>5. h \in Seq(Byte) /\ Len(h) = 9 /\ \A k \in 1..4 : h[5 + k] = be[k]
  <2>1. /\ s \o be \in Seq(Byte) /\ Len(s \o be) = Len(s) + Len(be)
        /\ \A i \in 1..(Len(s) + Len(be)) : (s \o be)[i] = IF i <= Len(s) THEN s[i] ELSE be[i - Len(s)]
    BY <1>1, <1>3, ConcatProperties
  <2>2. \A k \in 1..4 : 5 + k \in 1..9 /\ ~(5 + k <= 5) /\ (5 + k) - 5 = k
    OBVIOUS
  <2> QED BY <1>1, <1>3, <1>4, <2>1, <2>2
<1>6. SubSeq(h, 6, 9) \in Seq(Byte) /\ Len(SubSeq(h, 6, 9)) = 4
      /\ \A k \in 1..4 : SubSeq(h, 6, 9)[k] = h[6 + k - 1]
  <2>1. \A i \in 1..9 : h[i] \in Byte
    BY <1>5, ElementOfSeq
  <2> QED BY <2>1, SubSeqProperties
<1>7. SubSeq(h, 6, 9) = be
  BY <1>1, <1>5, <1>6, SeqEqual
<1> QED BY <1>1, <1>5, <1>7 DEF h
-----------------------------------------------------------------------------
(***************************************************************************)
(* Places in the byte stream.                                              *)
(***************************************************************************)
LEMMA EndIs == ASSUME sent \in Seq(Frame) PROVE End \in Nat /\ End = Start(Len(sent) + 1)
<1>1. CASE sent = <<>>
  BY <1>1 DEF End, Start
<1>2. CASE sent # <<>>
  <2>1. Len(sent) \in 1..Len(sent) /\ Len(sent) + 1 # 1 /\ (Len(sent) + 1) - 1 = Len(sent)
    BY <1>2
  <2>2. sent[Len(sent)] \in Frame
    BY <2>1, ElementOfSeq
  <2> QED BY <1>2, <2>1, <2>2 DEF End, Start, Frame
<1> QED BY <1>1, <1>2

LEMMA FrameIs ==
    ASSUME Sorts, NEW k \in DOMAIN sent
    PROVE  /\ k \in 1..Len(sent) /\ k \in Nat /\ sent[k] \in Frame
           /\ sent[k].hdr \in Seq(Byte) /\ sent[k].len \in Nat
           /\ sent[k].at \in Nat /\ sent[k].put \in Nat /\ sent[k].put # 0
<1>1. sent \in Seq(Frame) /\ k \in 1..Len(sent) /\ k \in Nat
  BY DEF Sorts
<1>2. sent[k] \in Frame
  BY <1>1, ElementOfSeq
<1> QED BY <1>1, <1>2 DEF Frame

\* The frame a byte is read from is the one that covers it.
LEMMA ByteFrom ==
    ASSUME Sorts, Layout, NEW x \in Nat, NEW k \in DOMAIN sent, Covers(k, x)
    PROVE  ByteAt(x) = IF x < sent[k].at + HEADER_LEN THEN sent[k].hdr[x - sent[k].at + 1] ELSE JsonByte
<1> DEFINE c == CHOOSE i \in DOMAIN sent : sent[i].at <= x /\ x < sent[i].at + sent[i].put
<1>1. c \in DOMAIN sent /\ Covers(c, x)
  BY DEF Covers
<1>2. ByteAt(x) = IF x < sent[c].at + HEADER_LEN THEN sent[c].hdr[x - sent[c].at + 1] ELSE JsonByte
  BY DEF ByteAt
<1> HIDE DEF c
<1>3. \A i \in DOMAIN sent : i \in Nat /\ sent[i].at \in Nat /\ sent[i].put \in Nat
  BY FrameIs
<1>4. c = k
  BY <1>1, <1>3 DEF Layout, Covers
<1> QED BY <1>2, <1>4

LEMMA ByteTyped ==
    ASSUME Sorts, Headers, Layout, NEW x \in Nat, x < End
    PROVE  ByteAt(x) \in Byte
<1>1. PICK k \in DOMAIN sent : Covers(k, x)
  BY DEF Layout
<1>2. sent[k].hdr \in Seq(Byte) /\ Len(sent[k].hdr) = HEADER_LEN /\ sent[k].at \in Nat
  BY FrameIs DEF Headers
<1>3. CASE x < sent[k].at + HEADER_LEN
  <2>1. x - sent[k].at + 1 \in 1..Len(sent[k].hdr)
    <3>1. sent[k].at <= x /\ x < sent[k].at + 9 /\ Len(sent[k].hdr) = 9
      BY <1>1, <1>2, <1>3 DEF Covers, HEADER_LEN
    <3>2. \A a \in Nat : a <= x /\ x < a + 9 => x - a + 1 \in 1..9
      OBVIOUS
    <3> QED BY <1>2, <3>1, <3>2
  <2> QED BY <1>1, <1>2, <1>3, <2>1, ByteFrom, ElementOfSeq
<1>4. CASE ~(x < sent[k].at + HEADER_LEN)
  BY <1>1, <1>4, ByteFrom DEF JsonByte, Byte
<1> QED BY <1>3, <1>4

\* A reader at the start of a frame with a whole header reads that header.
LEMMA HeaderRead ==
    ASSUME Sorts, Headers, Layout, NEW k \in DOMAIN sent, sent[k].put >= HEADER_LEN
    PROVE  [i \in 1..HEADER_LEN |-> ByteAt(sent[k].at + i - 1)] = sent[k].hdr
<1>1. sent[k].hdr \in Seq(Byte) /\ Len(sent[k].hdr) = 9 /\ sent[k].at \in Nat /\ sent[k].put \in Nat
  BY FrameIs DEF Headers, HEADER_LEN
<1>2. ASSUME NEW i \in 1..9 PROVE ByteAt(sent[k].at + i - 1) = sent[k].hdr[i]
  <2> DEFINE x == sent[k].at + i - 1
  <2>1. x \in Nat /\ Covers(k, x) /\ x < sent[k].at + HEADER_LEN /\ x - sent[k].at + 1 = i
    BY <1>1 DEF Covers, HEADER_LEN
  <2> HIDE DEF x
  <2>2. ByteAt(x) = sent[k].hdr[i]
    BY <2>1, ByteFrom
  <2> QED BY <2>2 DEF x
<1>3. sent[k].hdr = [i \in 1..9 |-> sent[k].hdr[i]]
  <2>1. \A s \in Seq(Byte) : Len(s) = 9 => s = [i \in 1..9 |-> s[i]]
    OBVIOUS
  <2> QED BY <1>1, <2>1
<1> QED BY <1>2, <1>3 DEF HEADER_LEN

LEMMA StartSame ==
    ASSUME Sorts, NEW e \in Frame, sent' = Append(sent, e), NEW k \in 1..(Len(sent) + 1)
    PROVE  Start(k)' = Start(k)
<1>1. CASE k = 1
  BY <1>1 DEF Start
<1>2. CASE k # 1
  <2>1. k - 1 \in 1..Len(sent)
    BY <1>2 DEF Sorts
  <2>2. sent'[k - 1] = sent[k - 1]
    BY <2>1, AppendProperties DEF Sorts
  <2> QED BY <1>2, <2>2 DEF Start
<1> QED BY <1>1, <1>2
-----------------------------------------------------------------------------
(***************************************************************************)
(* The writer's steps.                                                     *)
(***************************************************************************)
\* A frame that follows leaves those before it as they are.
LEMMA SoundBefore ==
    ASSUME Sorts, NEW e \in Frame, sent' = Append(sent, e), UNCHANGED rmax, NEW k \in Nat
    PROVE  /\ k <= Len(sent) => (SoundUpTo(k)' <=> SoundUpTo(k))
           /\ SoundUpTo(k)' /\ k > Len(sent) => SoundUpTo(Len(sent))
<1>1. /\ Len(sent) \in Nat /\ Len(sent') = Len(sent) + 1
      /\ \A i \in 1..Len(sent) : sent'[i] = sent[i]
  BY AppendProperties DEF Sorts
<1>2. \A i \in 1..Len(sent) : Sound(sent[i])' <=> Sound(sent[i])
  BY <1>1 DEF Sound, Whole
<1>3. ASSUME k <= Len(sent) PROVE SoundUpTo(k)' <=> SoundUpTo(k)
  <2>1. \A i \in 1..k : i \in 1..Len(sent)
    BY <1>1, <1>3
  <2>2. k <= Len(sent')
    BY <1>1, <1>3
  <2> QED BY <1>2, <1>3, <2>1, <2>2 DEF SoundUpTo
<1>4. ASSUME SoundUpTo(k)', k > Len(sent) PROVE SoundUpTo(Len(sent))
  <2>1. \A i \in 1..Len(sent) : i \in 1..k
    BY <1>1, <1>4
  <2>2. \A i \in 1..Len(sent) : Sound(sent[i])'
    BY <1>4, <2>1 DEF SoundUpTo
  <2> QED BY <1>1, <1>2, <2>2 DEF SoundUpTo
<1> QED BY <1>3, <1>4

LEMMA PutStep ==
    ASSUME FrameInv, NEW h \in Seq(Byte), Len(h) = 9, NEW put \in Nat \ {0}, NEW n \in Nat,
           n = from_be_bytes(SubSeq(h, 6, 9)), Puts(h, n, put)
    PROVE  FrameInv'
<1> DEFINE e == [hdr |-> h, len |-> n, at |-> End, put |-> put]
<1>1. Sorts /\ Headers /\ Layout /\ InStep /\ Faithful /\ GivenUp
  BY DEF FrameInv
<1>m. PICK m \in Nat : m = Len(sent)
  BY <1>1 DEF Sorts
<1>g. PICK g \in Nat : g = Len(got)
  BY <1>1 DEF Sorts
<1>2. End \in Nat /\ End = Start(m + 1) /\ DOMAIN sent = 1..m
  BY <1>1, <1>m, EndIs DEF Sorts
<1>3. e \in Frame /\ e.hdr = h /\ e.len = n /\ e.at = End /\ e.put = put
  BY <1>2 DEF Frame
<1>4. sent' = Append(sent, e) /\ UNCHANGED <<wmax, rmax, writer, pos, reader, cur, got>>
  BY DEF Puts
<1> HIDE DEF e
<1>5. /\ sent' \in Seq(Frame) /\ Len(sent') = m + 1 /\ DOMAIN sent' = 1..(m + 1)
      /\ \A i \in 1..m : sent'[i] = sent[i]
      /\ sent'[m + 1] = e
  BY <1>1, <1>3, <1>4, <1>m, AppendProperties DEF Sorts
<1>6. Sorts'
  BY <1>1, <1>4, <1>5 DEF Sorts
<1>7. Headers'
  BY <1>1, <1>2, <1>3, <1>5 DEF Headers, HEADER_LEN
<1>8. \A k \in 1..(m + 1) : Start(k)' = Start(k)
  BY <1>1, <1>3, <1>4, <1>m, StartSame
<1>9. End' = End + put
  <2>1. sent' # <<>>
    BY <1>3, <1>4, <1>1, AppendProperties DEF Sorts
  <2> QED BY <1>3, <1>5, <2>1 DEF End
<1>10. Layout'
  <2>1. \A i \in DOMAIN sent : /\ i \in 1..m /\ sent[i].at \in Nat /\ sent[i].put \in Nat
    BY <1>1, <1>2, FrameIs
  <2>2. ASSUME NEW i \in 1..(m + 1) PROVE sent'[i].at = Start(i)'
    <3>1. Start(i)' = Start(i)
      BY <1>8
    <3>2. CASE i = m + 1
      BY <1>2, <1>3, <1>5, <3>1, <3>2
    <3>3. CASE i # m + 1
      <4>1. i \in 1..m /\ i \in DOMAIN sent
        BY <1>2, <3>3
      <4> QED BY <1>1, <1>5, <3>1, <4>1 DEF Layout
    <3> QED BY <3>2, <3>3
  <2>3. ASSUME NEW i \in 1..m PROVE sent[i].at + sent[i].put <= End
    <3>1. CASE i = m
      BY <1>2, <3>1 DEF Start
    <3>2. CASE i # m
      <4>1. m \in DOMAIN sent /\ i \in DOMAIN sent /\ i < m
        BY <1>2, <3>2
      <4>2. sent[i].at + sent[i].put <= sent[m].at
        BY <1>1, <4>1 DEF Layout
      <4>3. End = sent[m].at + sent[m].put
        BY <1>2, <4>1 DEF Start
      <4> QED BY <2>1, <4>1, <4>2, <4>3
    <3> QED BY <3>1, <3>2
  <2>4. ASSUME NEW i \in 1..(m + 1), NEW j \in 1..(m + 1), i < j
        PROVE  sent'[i].at + sent'[i].put <= sent'[j].at
    <3>1. i \in 1..m /\ sent'[i] = sent[i]
      BY <1>2, <1>5, <2>4
    <3>2. CASE j = m + 1
      BY <1>3, <1>5, <2>3, <3>1, <3>2
    <3>3. CASE j # m + 1
      <4>1. j \in 1..m /\ sent'[j] = sent[j]
        BY <1>2, <1>5, <3>3
      <4> QED BY <1>1, <1>2, <2>4, <3>1, <4>1 DEF Layout
    <3> QED BY <3>2, <3>3
  <2>5. ASSUME NEW x \in Nat, x < End' PROVE \E i \in 1..(m + 1) : Covers(i, x)'
    <3>1. CASE x < End
      <4>1. PICK i \in DOMAIN sent : Covers(i, x)
        BY <1>1, <3>1 DEF Layout
      <4> QED BY <1>2, <1>5, <4>1 DEF Covers
    <3>2. CASE ~(x < End)
      <4>1. End <= x /\ x < End + put
        BY <1>2, <1>9, <2>5, <3>2
      <4> QED BY <1>2, <1>3, <1>5, <4>1 DEF Covers
    <3> QED BY <3>1, <3>2
  <2>6. pos' <= End'
    BY <1>1, <1>2, <1>4, <1>9 DEF Sorts, Layout
  <2> QED BY <1>5, <2>2, <2>4, <2>5, <2>6 DEF Layout
<1>11. Len(got') = g /\ \A i \in DOMAIN got : i \in 1..g
  BY <1>1, <1>4, <1>g DEF Sorts
<1>12. ASSUME NEW k \in Nat
       PROVE  /\ k <= m => (SoundUpTo(k)' <=> SoundUpTo(k))
              /\ SoundUpTo(k)' /\ k > m => SoundUpTo(m)
  BY <1>1, <1>3, <1>4, <1>m, SoundBefore
<1>13. SoundUpTo(m) => g <= m
  BY <1>1, <1>g, <1>m DEF InStep
<1>14. ASSUME NEW k \in 0..g, SoundUpTo(k)' PROVE k <= m /\ SoundUpTo(k)
  BY <1>12, <1>13, <1>14
<1>15. InStep'
  <2>1. SoundUpTo(m + 1)' => g <= m + 1
    BY <1>12, <1>13
  <2>2. ASSUME SoundUpTo(g)', reader = "header" PROVE pos = Start(g + 1)'
    <3>1. g <= m /\ SoundUpTo(g)
      BY <1>14, <2>2
    <3>2. g + 1 \in 1..(m + 1)
      BY <3>1
    <3> QED BY <1>1, <1>8, <1>g, <2>2, <3>1, <3>2 DEF InStep
  <2>3. ASSUME SoundUpTo(g)', reader = "body"
        PROVE  /\ g < m + 1
               /\ pos = Start(g + 1)' + HEADER_LEN
               /\ Sound(sent[g + 1])' =>
                    cur = [type |-> sent'[g + 1].hdr[5], len |-> sent'[g + 1].len]
    <3>1. SoundUpTo(g) /\ g < m
      BY <1>1, <1>14, <1>g, <1>m, <2>3 DEF InStep
    <3>2. g + 1 \in 1..m /\ g + 1 \in 1..(m + 1) /\ g < m + 1
      BY <3>1
    <3>3. sent'[g + 1] = sent[g + 1]
      BY <1>5, <3>2
    <3>4. Sound(sent[g + 1])' <=> Sound(sent[g + 1])
      BY <1>4, <3>3 DEF Sound, Whole
    <3>5. Start(g + 1)' = Start(g + 1)
      BY <1>8, <3>2
    <3>6. /\ pos = Start(g + 1) + HEADER_LEN
          /\ Sound(sent[g + 1]) => cur = [type |-> sent[g + 1].hdr[5], len |-> sent[g + 1].len]
      BY <1>1, <1>g, <2>3, <3>1 DEF InStep
    <3> QED BY <3>2, <3>3, <3>4, <3>5, <3>6
  <2>4. Len(sent') = m + 1 /\ reader' = reader /\ pos' = pos /\ cur' = cur
    BY <1>4, <1>5
  <2> QED BY <1>11, <2>1, <2>2, <2>3, <2>4 DEF InStep
<1>16. Faithful'
  <2>1. ASSUME NEW i \in DOMAIN got, SoundUpTo(i)' PROVE got[i] = Copy(sent'[i])
    <3>1. i \in 1..g /\ i \in 0..g
      BY <1>11
    <3>2. i <= m /\ SoundUpTo(i)
      BY <1>14, <2>1, <3>1
    <3>3. sent'[i] = sent[i]
      BY <1>5, <3>1, <3>2
    <3> QED BY <1>1, <3>2, <3>3 DEF Faithful
  <2> QED BY <1>4, <2>1 DEF Faithful, Copy
<1>17. GivenUp'
  <2>0. writer = "open"
    BY DEF Puts
  <2>1. reader # "eof" /\ (reader \notin {"header", "body"} => reader \in Errors)
    BY <1>1, <2>0 DEF GivenUp, Sorts
  <2>2. ASSUME reader \in Errors, SoundUpTo(g)' PROVE g < m
    <3>1. g <= m /\ SoundUpTo(g)
      BY <1>14, <2>2
    <3> QED BY <1>1, <1>g, <1>m, <2>2, <3>1 DEF GivenUp
  <2>3. ASSUME reader \in Errors, SoundUpTo(g + 1)' PROVE FALSE
    <3>1. ~SoundUpTo(g + 1)
      BY <1>1, <1>g, <2>3 DEF GivenUp, NoneRefused, Errors
    <3>2. g + 1 > m /\ SoundUpTo(m)
      BY <1>12, <2>3, <3>1
    <3>3. g = m
      BY <1>13, <3>2
    <3> QED BY <1>1, <1>g, <1>m, <2>3, <3>2, <3>3 DEF GivenUp
  <2>4. Len(sent') = m + 1 /\ reader' = reader
    BY <1>4, <1>5
  <2>5. NoneRefused'
    BY <1>11, <2>1, <2>3, <2>4 DEF NoneRefused
  <2>6. reader' # "eof"
    BY <2>1, <2>4
  <2>7. reader' \in Errors /\ SoundUpTo(Len(got))' => Len(got') < Len(sent')
    BY <1>11, <2>2, <2>4
  <2> QED BY <2>5, <2>6, <2>7 DEF GivenUp
<1> QED BY <1>6, <1>7, <1>10, <1>15, <1>16, <1>17 DEF FrameInv

LEMMA WriteStep ==
    ASSUME FrameInv, NEW t \in Types, NEW n \in Sizes, NEW put \in Nat \ {0},
           Fits(n), Puts(write_header(t, n), n, put)
    PROVE  FrameInv'
<1>1. wmax \in Limits /\ wmax \in Nat /\ n \in Nat /\ t \in Byte
  BY FrameAssumption DEF FrameInv, Sorts
<1>2. n <= wmax
  BY <1>1 DEF Fits, TooLarge
<1>3. FourBytes(wmax)
  BY <1>1, FrameAssumption
<1>4. FourBytes(n)
  BY <1>1, <1>2, <1>3, SmallerFits
<1> QED BY <1>1, <1>4, HeaderIs, PutStep

LEMMA ForeignStep ==
    ASSUME FrameInv, NEW h \in Foreign, ForeignHeader(h)
    PROVE  FrameInv'
<1>1. h \in [1..9 -> Byte]
  BY FrameAssumption
<1>2. h \in Seq(Byte) /\ Len(h) = 9
  <2>1. h = [i \in 1..9 |-> h[i]] /\ \A i \in 1..9 : h[i] \in Byte
    BY <1>1
  <2>2. [i \in 1..9 |-> h[i]] \in Seq(Byte)
    BY <2>1, IsASeq
  <2>3. h \in Seq(Byte) /\ DOMAIN h = 1..9
    BY <1>1, <2>1, <2>2
  <2> QED BY <2>3
<1>3. from_be_bytes(SubSeq(h, 6, 9)) \in Nat
  BY <1>2, LengthBytes
<1>4. Puts(h, from_be_bytes(SubSeq(h, 6, 9)), 9)
  BY DEF ForeignHeader, HEADER_LEN
<1> QED BY <1>2, <1>3, <1>4, PutStep

\* The writer stops, or the reader finds the end before a whole frame.
LEMMA StreamSame ==
    ASSUME FrameInv, UNCHANGED <<wmax, rmax, sent, pos, cur, got>>,
           writer' \in {"open", "closed", "err"}, writer # "open" => writer' # "open",
           \/ reader' = reader
           \/ reader' = "eof" /\ writer' # "open" /\ ~SoundUpTo(Len(got) + 1)
    PROVE  FrameInv'
<1>1. Sorts' /\ Headers' /\ Layout'
  BY DEF FrameInv, Sorts, Headers, Layout, Start, End, Covers
<1>2. InStep' /\ Faithful'
  BY DEF FrameInv, InStep, Faithful, SoundUpTo, Sound, Whole, Start, Copy
<1>3. \A k : SoundUpTo(k)' <=> SoundUpTo(k)
  BY DEF SoundUpTo, Sound, Whole
<1>4. GivenUp'
  <2>1. GivenUp
    BY DEF FrameInv
  <2>2. NoneRefused'
    BY <1>3, <2>1 DEF GivenUp, NoneRefused
  <2>3. reader' = "eof" => writer' # "open"
    BY <2>1 DEF GivenUp
  <2>4. reader' \in Errors /\ SoundUpTo(Len(got))' => Len(got') < Len(sent')
    BY <1>3, <2>1 DEF GivenUp, Errors
  <2> QED BY <2>2, <2>3, <2>4 DEF GivenUp
<1> QED BY <1>1, <1>2, <1>4 DEF FrameInv
-----------------------------------------------------------------------------
(***************************************************************************)
(* The reader's steps.                                                     *)
(***************************************************************************)
\* A byte behind a sequence of bytes.
LEMMA ByteBehind ==
    ASSUME NEW b \in Seq(Byte), NEW e \in Byte
    PROVE  Append(b, e)[Len(b) + 1] = e /\ \A i \in 1..Len(b) : Append(b, e)[i] = b[i]
  BY AppendProperties

\* The reader refuses no sound frame.
LEMMA SoundParses ==
    ASSUME NEW h \in Seq(Byte), Len(h) = 9, NEW max \in Nat,
           SubSeq(h, 1, 4) = Append(MAGIC, VERSION), from_be_bytes(SubSeq(h, 6, 9)) <= max
    PROVE  Parse(h, max) = "body"
<1>1. \A i \in 1..9 : h[i] \in Byte
  BY ElementOfSeq
<1>2. /\ SubSeq(h, 1, 4) \in Seq(Byte) /\ Len(SubSeq(h, 1, 4)) = 4
      /\ \A i \in 1..4 : SubSeq(h, 1, 4)[i] = h[1 + i - 1]
  BY <1>1, SubSeqProperties
<1>3. /\ SubSeq(h, 1, 3) \in Seq(Byte) /\ Len(SubSeq(h, 1, 3)) = 3
      /\ \A i \in 1..3 : SubSeq(h, 1, 3)[i] = h[1 + i - 1]
  BY <1>1, SubSeqProperties
<1>4. \A i \in 1..4 : h[i] = Append(MAGIC, VERSION)[i]
  <2>1. ASSUME NEW i \in 1..4 PROVE h[i] = SubSeq(h, 1, 4)[i]
    <3>1. 1 + i - 1 = i
      OBVIOUS
    <3> QED BY <1>2, <3>1
  <2> QED BY <2>1
<1>5. MAGIC \in Seq(Byte) /\ Len(MAGIC) = 3 /\ VERSION \in Byte
  BY DEF MAGIC, VERSION, Byte
<1>6. h[4] = VERSION /\ \A i \in 1..3 : h[i] = MAGIC[i]
  <2>1. /\ Append(MAGIC, VERSION)[Len(MAGIC) + 1] = VERSION
        /\ \A i \in 1..Len(MAGIC) : Append(MAGIC, VERSION)[i] = MAGIC[i]
    BY <1>5, ByteBehind
  <2>2. Len(MAGIC) + 1 = 4 /\ 4 \in 1..4 /\ \A i \in 1..3 : i \in 1..4 /\ i \in 1..Len(MAGIC)
    BY <1>5
  <2> QED BY <1>4, <2>1, <2>2
<1>7. SubSeq(h, 1, 3) = MAGIC
  BY <1>3, <1>5, <1>6, SeqEqual
<1>8. from_be_bytes(SubSeq(h, 6, 9)) \in Nat
  BY LengthBytes
<1> QED BY <1>6, <1>7, <1>8 DEF Parse, TooLarge

\* At the start of a sound frame, the nine bytes are its header.
LEMMA ReadHeaderStep == ASSUME FrameInv, ReadHeader PROVE FrameInv'
<1> DEFINE h == [i \in 1..HEADER_LEN |-> ByteAt(pos + i - 1)]
<1>1. Sorts /\ Headers /\ Layout /\ InStep /\ Faithful /\ GivenUp
  BY DEF FrameInv
<1>m. PICK m \in Nat : m = Len(sent)
  BY <1>1 DEF Sorts
<1>g. PICK g \in Nat : g = Len(got)
  BY <1>1 DEF Sorts
<1>2. /\ reader = "header" /\ pos + 9 <= End /\ pos \in Nat /\ End \in Nat /\ End = Start(m + 1)
  BY <1>1, <1>m, EndIs DEF ReadHeader, Available, HEADER_LEN, Sorts
<1>3. \A i \in 1..9 : ByteAt(pos + i - 1) \in Byte
  <2>1. ASSUME NEW i \in 1..9 PROVE pos + i - 1 \in Nat /\ pos + i - 1 < End
    BY <1>2
  <2> QED BY <1>1, <2>1, ByteTyped
<1>4. h \in Seq(Byte) /\ Len(h) = 9
  BY <1>3 DEF HEADER_LEN
<1>5. /\ reader' = Parse(h, rmax) /\ pos' = pos + 9 /\ UNCHANGED <<wmax, rmax, sent, writer, got>>
      /\ cur' = IF reader' = "body"
                THEN [type |-> h[5], len |-> from_be_bytes(SubSeq(h, 6, 9))] ELSE cur
  BY DEF ReadHeader, HEADER_LEN
<1>6. \A k \in 1..9 : h[k] = ByteAt(pos + k - 1)
  BY DEF HEADER_LEN
<1>7. h = [i \in 1..HEADER_LEN |-> ByteAt(pos + i - 1)]
  OBVIOUS
<1> HIDE DEF h
<1>8. h[5] \in Byte /\ from_be_bytes(SubSeq(h, 6, 9)) \in Nat
  BY <1>4, LengthBytes
<1>9. rmax \in Nat
  BY <1>1, FrameAssumption DEF Sorts
<1>10. /\ reader' \in {"body"} \cup Errors
       /\ reader' = "body" => from_be_bytes(SubSeq(h, 6, 9)) \in 0..rmax
  BY <1>5, <1>8, <1>9 DEF Parse, Errors, TooLarge
<1>11. Sorts'
  <2>1. cur' \in [type : Byte, len : 0..rmax]
    BY <1>1, <1>5, <1>8, <1>10 DEF Sorts
  <2> QED BY <1>1, <1>2, <1>5, <1>10, <2>1 DEF Sorts
<1>12. Headers' /\ Layout'
  <2>1. End' = End
    BY <1>5 DEF End
  <2>2. Headers'
    BY <1>1, <1>5 DEF Headers
  <2>3. pos' <= End'
    BY <1>2, <1>5, <2>1
  <2>4. /\ \A i \in DOMAIN sent' : sent'[i].at = Start(i)'
        /\ \A i, j \in DOMAIN sent' : i < j => sent'[i].at + sent'[i].put <= sent'[j].at
        /\ \A x \in Nat : x < End' => \E i \in DOMAIN sent' : Covers(i, x)'
    BY <1>1, <1>5, <2>1 DEF Layout, Start, Covers
  <2> QED BY <2>2, <2>3, <2>4 DEF Layout
<1>13. \A k \in Nat : (SoundUpTo(k)' <=> SoundUpTo(k)) /\ Start(k)' = Start(k)
  BY <1>5 DEF SoundUpTo, Sound, Whole, Start
<1>14. ASSUME SoundUpTo(g)
       PROVE  /\ g < m /\ pos' = Start(g + 1) + HEADER_LEN
              /\ Sound(sent[g + 1]) =>
                    /\ reader' = "body"
                    /\ cur' = [type |-> sent[g + 1].hdr[5], len |-> sent[g + 1].len]
  <2>1. g <= m /\ pos = Start(g + 1)
    BY <1>1, <1>2, <1>m, <1>g, <1>14 DEF InStep, SoundUpTo
  <2>2. g # m
    BY <1>2, <2>1
  <2>3. g < m /\ g + 1 \in DOMAIN sent
    BY <1>1, <1>m, <2>1, <2>2 DEF Sorts
  <2>4. ASSUME Sound(sent[g + 1])
        PROVE  /\ h = sent[g + 1].hdr /\ sent[g + 1].len = from_be_bytes(SubSeq(h, 6, 9))
               /\ reader' = "body"
    <3>1. /\ sent[g + 1].put \in Nat /\ sent[g + 1].len \in Nat
          /\ sent[g + 1].put - HEADER_LEN = sent[g + 1].len
      BY <1>1, <2>3, <2>4, FrameIs DEF Sound, Whole
    <3>2. sent[g + 1].put >= HEADER_LEN
      BY <3>1 DEF HEADER_LEN
    <3>3. pos = sent[g + 1].at
      BY <1>1, <2>1, <2>3 DEF Layout
    <3>4. h = sent[g + 1].hdr
      BY <1>1, <1>7, <2>3, <3>2, <3>3, HeaderRead
    <3>5. sent[g + 1].len = from_be_bytes(SubSeq(h, 6, 9))
      BY <1>1, <2>3, <3>4 DEF Headers
    <3>6. SubSeq(h, 1, 4) = Append(MAGIC, VERSION) /\ from_be_bytes(SubSeq(h, 6, 9)) <= rmax
      BY <2>4, <3>4, <3>5 DEF Sound
    <3> QED BY <1>4, <1>5, <1>8, <1>9, <3>4, <3>5, <3>6, SoundParses
  <2> QED BY <1>5, <2>1, <2>3, <2>4 DEF HEADER_LEN
<1>15. InStep'
  <2>1. SoundUpTo(m)' => g <= m
    BY <1>1, <1>13, <1>m, <1>g DEF InStep
  <2>2. reader' # "header"
    BY <1>10 DEF Errors
  <2>3. ASSUME SoundUpTo(g)', reader' = "body"
        PROVE  /\ g < m /\ pos' = Start(g + 1)' + HEADER_LEN
               /\ Sound(sent[g + 1])' =>
                    cur' = [type |-> sent'[g + 1].hdr[5], len |-> sent'[g + 1].len]
    <3>1. SoundUpTo(g)
      BY <1>13, <2>3
    <3>2. Start(g + 1)' = Start(g + 1)
      BY <1>13
    <3>3. Sound(sent[g + 1])' <=> Sound(sent[g + 1])
      BY <1>5 DEF Sound, Whole
    <3> QED BY <1>5, <1>14, <2>3, <3>1, <3>2, <3>3
  <2>4. Len(sent') = m /\ Len(got') = g
    BY <1>5, <1>m, <1>g
  <2> QED BY <2>1, <2>2, <2>3, <2>4 DEF InStep
<1>16. Faithful'
  BY <1>1, <1>5 DEF Faithful, SoundUpTo, Sound, Whole, Copy
<1>17. GivenUp'
  <2>1. reader' # "eof"
    BY <1>10 DEF Errors
  <2>2. SoundUpTo(g)' => g < m
    BY <1>13, <1>14
  <2>3. ASSUME SoundUpTo(g + 1)' PROVE reader' = "body"
    <3>1. SoundUpTo(g) /\ Sound(sent[g + 1])
      BY <1>13, <2>3 DEF SoundUpTo
    <3> QED BY <1>14, <3>1
  <2>4. Len(sent') = m /\ Len(got') = g
    BY <1>5, <1>m, <1>g
  <2>5. NoneRefused'
    BY <2>3, <2>4 DEF NoneRefused
  <2> QED BY <2>1, <2>2, <2>4, <2>5 DEF GivenUp
<1> QED BY <1>11, <1>12, <1>15, <1>16, <1>17 DEF FrameInv

\* Behind the header of a sound frame, the payload is the rest of it.
LEMMA ReadPayloadStep == ASSUME FrameInv, ReadPayload PROVE FrameInv'
<1> DEFINE f == [type |-> cur.type, len |-> cur.len, from |-> pos]
<1>1. Sorts /\ Headers /\ Layout /\ InStep /\ Faithful /\ GivenUp
  BY DEF FrameInv
<1>m. PICK m \in Nat : m = Len(sent)
  BY <1>1 DEF Sorts
<1>g. PICK g \in Nat : g = Len(got)
  BY <1>1 DEF Sorts
<1>2. /\ reader = "body" /\ got' = Append(got, f) /\ pos' = pos + cur.len /\ reader' = "header"
      /\ UNCHANGED <<wmax, rmax, sent, writer, cur>>
  BY DEF ReadPayload
<1>3. cur.type \in Byte /\ cur.len \in 0..rmax /\ pos \in Nat /\ rmax \in Nat
  BY <1>1, FrameAssumption DEF Sorts
<1>4. pos + cur.len <= End /\ cur.len \in Nat
  BY <1>3 DEF ReadPayload, Available
<1>5. f \in Item(rmax) /\ f.type = cur.type /\ f.len = cur.len /\ f.from = pos
  BY <1>3 DEF Item
<1> HIDE DEF f
<1>6. got \in Seq(Item(rmax))
  BY <1>1 DEF Sorts
<1>7. /\ got' \in Seq(Item(rmax)) /\ Len(got') = g + 1 /\ DOMAIN got' = 1..(g + 1)
      /\ \A i \in 1..g : got'[i] = got[i]
      /\ got'[g + 1] = f
  BY <1>2, <1>5, <1>6, <1>g, AppendProperties
<1>8. Sorts'
  BY <1>1, <1>2, <1>3, <1>4, <1>7 DEF Sorts
<1>9. Headers' /\ Layout'
  <2>1. End' = End
    BY <1>2 DEF End
  <2>2. Headers'
    BY <1>1, <1>2 DEF Headers
  <2>3. pos' <= End'
    BY <1>2, <1>4, <2>1
  <2>4. /\ \A i \in DOMAIN sent' : sent'[i].at = Start(i)'
        /\ \A i, j \in DOMAIN sent' : i < j => sent'[i].at + sent'[i].put <= sent'[j].at
        /\ \A x \in Nat : x < End' => \E i \in DOMAIN sent' : Covers(i, x)'
    BY <1>1, <1>2, <2>1 DEF Layout, Start, Covers
  <2> QED BY <2>2, <2>3, <2>4 DEF Layout
<1>10. \A k \in Nat : (SoundUpTo(k)' <=> SoundUpTo(k)) /\ Start(k)' = Start(k)
  BY <1>2 DEF SoundUpTo, Sound, Whole, Start
<1>11. ASSUME SoundUpTo(g)
       PROVE  /\ g < m /\ pos = Start(g + 1) + HEADER_LEN
              /\ Sound(sent[g + 1]) =>
                    cur = [type |-> sent[g + 1].hdr[5], len |-> sent[g + 1].len]
  BY <1>1, <1>2, <1>11, <1>m, <1>g DEF InStep
<1>12. ASSUME SoundUpTo(g + 1)
       PROVE  f = Copy(sent[g + 1]) /\ pos' = Start(g + 2)
  <2>1. SoundUpTo(g) /\ Sound(sent[g + 1]) /\ g + 1 \in DOMAIN sent
    BY <1>1, <1>12, <1>m DEF SoundUpTo, Sorts
  <2>2. /\ cur = [type |-> sent[g + 1].hdr[5], len |-> sent[g + 1].len]
        /\ pos = Start(g + 1) + HEADER_LEN /\ sent[g + 1].at = Start(g + 1)
    BY <1>1, <1>11, <2>1 DEF Layout
  <2>3. f = Copy(sent[g + 1])
    BY <2>2 DEF f, Copy
  <2>4. /\ sent[g + 1].at \in Nat /\ sent[g + 1].put \in Nat /\ sent[g + 1].len \in Nat
        /\ sent[g + 1].put - HEADER_LEN = sent[g + 1].len
    BY <1>1, <2>1, FrameIs DEF Sound, Whole
  <2>5. cur.len = sent[g + 1].len
    BY <2>2
  <2>6. pos' = sent[g + 1].at + sent[g + 1].put
    <3>1. pos = sent[g + 1].at + 9 /\ sent[g + 1].put - 9 = sent[g + 1].len
      BY <2>2, <2>4 DEF HEADER_LEN
    <3>2. \A a, p, l \in Nat : p - 9 = l => (a + 9) + l = a + p
      OBVIOUS
    <3>3. pos' = (sent[g + 1].at + 9) + sent[g + 1].len
      BY <1>2, <2>5, <3>1
    <3> QED BY <2>4, <3>1, <3>2, <3>3
  <2>7. g + 2 # 1 /\ (g + 2) - 1 = g + 1
    OBVIOUS
  <2> QED BY <2>3, <2>6, <2>7 DEF Start
<1>13. InStep'
  <2>1. SoundUpTo(m)' => g + 1 <= m
    <3>1. SoundUpTo(m) => g <= m
      BY <1>1, <1>m, <1>g DEF InStep
    <3>2. SoundUpTo(m) /\ g = m => g < m
      BY <1>11
    <3> QED BY <1>10, <3>1, <3>2
  <2>2. SoundUpTo(g + 1)' => pos' = Start((g + 1) + 1)'
    <3>1. SoundUpTo(g + 1)' => SoundUpTo(g + 1)
      BY <1>10
    <3>2. Start(g + 2)' = Start(g + 2) /\ (g + 1) + 1 = g + 2
      BY <1>10
    <3> QED BY <1>12, <3>1, <3>2
  <2>3. Len(sent') = m /\ Len(got') = g + 1 /\ reader' = "header"
    BY <1>2, <1>7, <1>m
  <2> QED BY <2>1, <2>2, <2>3 DEF InStep
<1>14. Faithful'
  <2>1. ASSUME NEW i \in 1..(g + 1), SoundUpTo(i)' PROVE got'[i] = Copy(sent[i])
    <3>1. SoundUpTo(i)
      BY <1>10, <2>1
    <3>2. CASE i = g + 1
      BY <1>7, <1>12, <3>1, <3>2
    <3>3. CASE i # g + 1
      <4>1. i \in 1..g /\ i \in DOMAIN got
        BY <1>6, <1>g, <3>3
      <4> QED BY <1>1, <1>7, <3>1, <4>1 DEF Faithful
    <3> QED BY <3>2, <3>3
  <2> QED BY <1>2, <1>7, <2>1 DEF Faithful, Copy
<1>15. GivenUp'
  BY <1>2 DEF GivenUp, NoneRefused, Errors
<1> QED BY <1>8, <1>9, <1>13, <1>14, <1>15 DEF FrameInv

\* A reader that finds the end of the stream had no whole frame before it.
LEMMA EofStep == ASSUME FrameInv, UnexpectedEof PROVE FrameInv'
<1>1. Sorts /\ Layout /\ InStep
  BY DEF FrameInv
<1>m. PICK m \in Nat : m = Len(sent)
  BY <1>1 DEF Sorts
<1>g. PICK g \in Nat : g = Len(got)
  BY <1>1 DEF Sorts
<1>2. ASSUME SoundUpTo(g + 1) PROVE FALSE
  <2>1. SoundUpTo(g) /\ Sound(sent[g + 1]) /\ g + 1 \in DOMAIN sent
    BY <1>1, <1>2, <1>m DEF SoundUpTo, Sorts
  <2>2. /\ sent[g + 1].at \in Nat /\ sent[g + 1].put \in Nat /\ sent[g + 1].len \in Nat
        /\ sent[g + 1].put - 9 = sent[g + 1].len /\ sent[g + 1].at = Start(g + 1)
    BY <1>1, <2>1, FrameIs DEF Sound, Whole, HEADER_LEN, Layout
  <2>3. sent[g + 1].at + sent[g + 1].put <= End
    <3>1. End \in Nat /\ End = Start(m + 1) /\ DOMAIN sent = 1..m
      BY <1>1, <1>m, EndIs DEF Sorts
    <3>2. CASE g + 1 = m
      BY <2>2, <3>1, <3>2 DEF Start
    <3>3. CASE g + 1 # m
      <4>1. m \in DOMAIN sent /\ g + 1 < m
        BY <2>1, <3>1, <3>3
      <4>2. sent[g + 1].at + sent[g + 1].put <= sent[m].at /\ sent[m].at \in Nat /\ sent[m].put \in Nat
        BY <1>1, <2>1, <4>1, FrameIs DEF Layout
      <4>3. End = sent[m].at + sent[m].put
        BY <3>1, <4>1 DEF Start
      <4> QED BY <2>2, <4>2, <4>3
    <3> QED BY <3>2, <3>3
  <2>4. End \in Nat
    BY <1>1, EndIs DEF Sorts
  <2>5. CASE reader = "header"
    <3>1. pos = sent[g + 1].at
      BY <1>1, <1>g, <2>1, <2>2, <2>5 DEF InStep
    <3>2. ~(pos + 9 <= End)
      BY <2>5 DEF UnexpectedEof, Available, HEADER_LEN
    <3> QED BY <2>2, <2>3, <2>4, <3>1, <3>2
  <2>6. CASE reader = "body"
    <3>1. pos = sent[g + 1].at + 9 /\ cur.len = sent[g + 1].len
      BY <1>1, <1>g, <2>1, <2>2, <2>6 DEF InStep, HEADER_LEN
    <3>2. ~(pos + cur.len <= End)
      BY <2>6 DEF UnexpectedEof, Available
    <3>3. \A a, p, l \in Nat : p - 9 = l => (a + 9) + l = a + p
      OBVIOUS
    <3>4. pos + cur.len = sent[g + 1].at + sent[g + 1].put
      BY <2>2, <3>1, <3>3
    <3> QED BY <2>3, <3>2, <3>4
  <2> QED BY <2>5, <2>6 DEF UnexpectedEof
<1>3. ~SoundUpTo(Len(got) + 1)
  BY <1>2, <1>g
<1>4. /\ writer' = writer /\ writer' # "open" /\ writer' \in {"open", "closed", "err"}
      /\ reader' = "eof" /\ UNCHANGED <<wmax, rmax, sent, pos, cur, got>>
  BY <1>1 DEF UnexpectedEof, Sorts
<1> QED BY <1>3, <1>4, StreamSame


LEMMA FirstState == FrameInit => FrameInv
<1> SUFFICES ASSUME FrameInit PROVE FrameInv
  OBVIOUS
<1>1. /\ wmax \in Limits /\ rmax \in Limits /\ sent = <<>> /\ writer = "open" /\ pos = 0
      /\ reader = "header" /\ cur = [type |-> 0, len |-> 0] /\ got = <<>> /\ rmax \in Nat
  BY FrameAssumption DEF FrameInit
<1>2. sent \in Seq(Frame) /\ got \in Seq(Item(rmax)) /\ Len(sent) = 0 /\ Len(got) = 0
  BY <1>1
<1>3. DOMAIN sent = {} /\ DOMAIN got = {} /\ End = 0 /\ Start(1) = 0
  BY <1>1 DEF End, Start
<1>4. Sorts
  BY <1>1, <1>2 DEF Sorts, Byte
<1>5. Headers /\ Layout /\ Faithful
  BY <1>1, <1>3 DEF Headers, Layout, Faithful
<1>6. InStep
  BY <1>1, <1>2, <1>3 DEF InStep
<1>7. GivenUp
  BY <1>1 DEF GivenUp, NoneRefused, Errors
<1> QED BY <1>4, <1>5, <1>6, <1>7 DEF FrameInv

\* The invariant of the codec: every step of either end keeps it
\* (frame.rs:19-39, codec.rs:54-105).
THEOREM FrameInvariance == FrameSpec => []FrameInv
<1>1. FrameInit => FrameInv
  BY FirstState
<1>2. FrameInv /\ [FrameNext]_frameVars => FrameInv'
  <2> SUFFICES ASSUME FrameInv, [FrameNext]_frameVars PROVE FrameInv'
    OBVIOUS
  <2>0. /\ writer \in {"open", "closed", "err"}
        /\ \A n \in Sizes : n \in Nat /\ HEADER_LEN + n \in Nat \ {0}
    BY FrameAssumption DEF FrameInv, Sorts, HEADER_LEN
  <2>1. CASE UNCHANGED frameVars
    BY <2>0, <2>1, StreamSame DEF frameVars
  <2>2. ASSUME NEW t \in Types, NEW n \in Sizes, write_frame(t, n) PROVE FrameInv'
    BY <2>0, <2>2, WriteStep DEF write_frame
  <2>3. ASSUME NEW t \in Types, NEW n \in Sizes, NEW put \in CutPoints, AbandonWrite(t, n, put)
        PROVE  FrameInv'
    <3>1. put \in Nat \ {0}
      BY FrameAssumption
    <3>2. Fits(n) /\ Puts(write_header(t, n), n, put)
      BY <2>3 DEF AbandonWrite
    <3> QED BY <3>1, <3>2, WriteStep
  <2>4. ASSUME NEW n \in Sizes, RefuseWrite(n) PROVE FrameInv'
    BY <2>4, StreamSame DEF RefuseWrite, Stops
  <2>5. ASSUME NEW h \in Foreign, ForeignHeader(h) PROVE FrameInv'
    BY <2>5, ForeignStep
  <2>6. CASE Shutdown
    BY <2>6, StreamSame DEF Shutdown, Stops
  <2>7. CASE read_frame
    <3>1. CASE UnexpectedEof
      BY <3>1, EofStep
    <3> QED BY <2>7, <3>1, ReadHeaderStep, ReadPayloadStep DEF read_frame
  <2> QED BY <2>1, <2>2, <2>3, <2>4, <2>5, <2>6, <2>7 DEF FrameNext
<1> QED BY <1>1, <1>2, PTL DEF FrameSpec

\* Both ends stay within their types, and the reader never allocates more than
\* its limit for a payload, whatever length a header announces (codec.rs:64-72).
THEOREM TypeCorrect == FrameSpec => []FrameTypeOK
<1>1. FrameInv => FrameTypeOK
  <2> SUFFICES ASSUME FrameInv PROVE FrameTypeOK
    OBVIOUS
  <2>1. Sorts /\ Layout
    BY DEF FrameInv
  <2>2. sent \in Seq([hdr : Seq(Byte), len : Nat, at : Nat, put : Nat \ {0}])
    BY <2>1 DEF Sorts, Frame
  <2>3. got \in Seq([type : Byte, len : 0..rmax, from : Nat])
    BY <2>1 DEF Sorts, Item
  <2>4. pos \in 0..End
    BY <2>1, EndIs DEF Sorts, Layout
  <2>5. cur.type \in Byte /\ cur.len \in 0..rmax
    BY <2>1 DEF Sorts
  <2>6. /\ {wmax, rmax} \subseteq Limits /\ writer \in {"open", "closed", "err"}
        /\ reader \in {"header", "body", "eof"} \cup Errors
    BY <2>1 DEF Sorts
  <2> QED BY <2>2, <2>3, <2>4, <2>5, <2>6 DEF FrameTypeOK
<1> QED BY <1>1, FrameInvariance, PTL

\* What read_frame returns is what write_frame was given, frame by frame and at
\* every length of 32 bits, up to the first frame that was cut or that the reader
\* must refuse (codec.rs:54-84, 88-105, frame.rs:19-39).
THEOREM ReadAsWritten == FrameSpec => []Faithful
<1>1. FrameInv => Faithful
  BY DEF FrameInv
<1> QED BY <1>1, FrameInvariance, PTL

\* No sound frame behind sound ones is refused or lost: when the reader reports an
\* error or the end of the stream, the frame it was at was cut, too large or not of
\* this version (frame.rs:28-39, codec.rs:54-84).
THEOREM SoundFramesRead == FrameSpec => []NoneRefused
<1>1. FrameInv => NoneRefused
  BY DEF FrameInv, GivenUp
<1> QED BY <1>1, FrameInvariance, PTL
=============================================================================
