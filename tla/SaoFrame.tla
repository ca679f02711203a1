------------------------------ MODULE SaoFrame ------------------------------
(***************************************************************************)
(* FrameCodec of sao-protocol on one direction of a connection, with the   *)
(* real numbers: the bytes of the header, the big-endian length, the       *)
(* limits of both ends.  A frame keeps its place in the byte stream, so a  *)
(* payload is the positions it was read from; of its bytes only those that *)
(* get parsed as a header matter, and none of JSON text is a version byte. *)
(*                                                                         *)
(* A write can be abandoned after any byte (session.rs:264 drops it), and  *)
(* the stream then goes on with the next frame.                            *)
(***************************************************************************)
EXTENDS Integers, Sequences

CONSTANTS
    Limits,     \* values max_payload_len is configured to
    Sizes,      \* payload lengths that get written
    Types,      \* msg_type bytes
    Foreign,    \* headers another implementation may send
    CutPoints,  \* bytes of a frame after which its write may be abandoned
    MaxFrames,  \* bound: frames written
    MaxCuts     \* bound: writes abandoned

Byte == 0..255

FourBytes(n) == n \div 16777216 \in Byte      \* max_payload_len is a u32

ASSUME FrameAssumption ==
    /\ Limits \subseteq Nat /\ Sizes \subseteq Nat /\ Types \subseteq Byte
    /\ Foreign \subseteq [1..9 -> Byte]
    /\ CutPoints \subseteq Nat \ {0}
    /\ \A n \in Limits : FourBytes(n)
    /\ MaxFrames \in Nat /\ MaxCuts \in Nat

HEADER_LEN == 9
MAGIC      == <<83, 65, 79>>       \* "SAO"
VERSION    == 1
JsonByte   == 123                  \* a payload byte, where one is parsed

VARIABLES
    wmax, rmax,  \* max_payload_len of the writing and of the reading end
    sent,        \* frames on the wire: header, where they start, bytes written
    writer,      \* "open" | "closed" | "err"
    pos,         \* bytes the reader consumed
    reader,      \* "header" | "body" | "eof" | the error read_frame returned
    cur,         \* type and length of the header it parsed
    got          \* frames it returned: type, and where the payload came from

frameVars == <<wmax, rmax, sent, writer, pos, reader, cur, got>>

Errors == {"InvalidMagic", "UnsupportedVersion", "PayloadTooLarge"}

FrameInit ==
    /\ wmax \in Limits /\ rmax \in Limits
    /\ sent = <<>> /\ writer = "open"
    /\ pos = 0 /\ reader = "header" /\ cur = [type |-> 0, len |-> 0] /\ got = <<>>

(***************************************************************************)
(* frame.rs                                                                *)
(***************************************************************************)
to_be_bytes(n) == <<n \div 16777216, (n \div 65536) % 256, (n \div 256) % 256, n % 256>>

MutBe(b)         == 256 * b[3] + b[4]       \* mutant: read as 16 bits

from_be_bytes(b) == 16777216 * b[1] + 65536 * b[2] + 256 * b[3] + b[4]

write_header(type, n) == MAGIC \o <<VERSION, type>> \o to_be_bytes(n)

MutTooLarge(n, max) == n >= max             \* mutant: off by one
TooLarge(n, max)    == n > max

MutParse(h, max) ==                         \* mutant: the reader has no limit
    IF SubSeq(h, 1, 3) # MAGIC THEN "InvalidMagic"
    ELSE IF h[4] # VERSION THEN "UnsupportedVersion" ELSE "body"

\* parse_header and the check of the limit in read_frame
Parse(h, max) ==
    IF SubSeq(h, 1, 3) # MAGIC THEN "InvalidMagic"
    ELSE IF h[4] # VERSION THEN "UnsupportedVersion"
    ELSE IF TooLarge(from_be_bytes(SubSeq(h, 6, 9)), max) THEN "PayloadTooLarge"
    ELSE "body"

(***************************************************************************)
(* The writer.  Its callers give up on any error and drop the codec.       *)
(***************************************************************************)
End      == IF sent = <<>> THEN 0 ELSE sent[Len(sent)].at + sent[Len(sent)].put
Whole(f) == f.put - HEADER_LEN = f.len

Puts(h, n, put) ==
    /\ writer = "open" /\ Len(sent) < MaxFrames
    /\ sent' = Append(sent, [hdr |-> h, len |-> n, at |-> End, put |-> put])
    /\ UNCHANGED <<wmax, rmax, writer, pos, reader, cur, got>>

Fits(n) == ~TooLarge(n, wmax)

write_frame(type, n) == Fits(n) /\ Puts(write_header(type, n), n, HEADER_LEN + n)

AbandonWrite(type, n, put) ==
    /\ Fits(n) /\ put < HEADER_LEN + n
    /\ Len(SelectSeq(sent, LAMBDA f : ~Whole(f))) < MaxCuts
    /\ Puts(write_header(type, n), n, put)

\* whatever length it announces, nothing but the header is sent
ForeignHeader(h) == Puts(h, from_be_bytes(SubSeq(h, 6, 9)), HEADER_LEN)

Stops(how) ==
    /\ writer = "open" /\ writer' = how
    /\ UNCHANGED <<wmax, rmax, sent, pos, reader, cur, got>>

RefuseWrite(n) == ~Fits(n) /\ Stops("err")

Shutdown == Stops("closed")

(***************************************************************************)
(* The reader: read_exact waits until all its bytes are there, or the end. *)
(***************************************************************************)
ByteAt(x) ==
    LET f == sent[CHOOSE i \in DOMAIN sent : sent[i].at <= x /\ x < sent[i].at + sent[i].put]
    IN  IF x < f.at + HEADER_LEN THEN f.hdr[x - f.at + 1] ELSE JsonByte

Available(n) == pos + n <= End

ReadHeader ==
    /\ reader = "header" /\ Available(HEADER_LEN)
    /\ LET h == [i \in 1..HEADER_LEN |-> ByteAt(pos + i - 1)] IN
        /\ reader' = Parse(h, rmax)
        /\ cur' = IF reader' = "body"
                  THEN [type |-> h[5], len |-> from_be_bytes(SubSeq(h, 6, 9))] ELSE cur
    /\ pos' = pos + HEADER_LEN
    /\ UNCHANGED <<wmax, rmax, sent, writer, got>>

ReadPayload ==
    /\ reader = "body" /\ Available(cur.len)
    /\ got' = Append(got, [type |-> cur.type, len |-> cur.len, from |-> pos])
    /\ pos' = pos + cur.len
    /\ reader' = "header"
    /\ UNCHANGED <<wmax, rmax, sent, writer, cur>>

UnexpectedEof ==
    /\ writer # "open"
    /\ \/ reader = "header" /\ ~Available(HEADER_LEN)
       \/ reader = "body" /\ ~Available(cur.len)
    /\ reader' = "eof"
    /\ UNCHANGED <<wmax, rmax, sent, writer, pos, cur, got>>

read_frame == ReadHeader \/ ReadPayload \/ UnexpectedEof

FrameNext ==
    \/ \E type \in Types, n \in Sizes :
        write_frame(type, n) \/ \E put \in CutPoints : AbandonWrite(type, n, put)
    \/ \E n \in Sizes : RefuseWrite(n)
    \/ \E h \in Foreign : ForeignHeader(h)
    \/ Shutdown
    \/ read_frame

FrameSpec     == FrameInit /\ [][FrameNext]_frameVars
FairFrameSpec == FrameSpec /\ WF_frameVars(read_frame)
-----------------------------------------------------------------------------
(***************************************************************************)
(* Properties                                                              *)
(***************************************************************************)

\* Both ends stay within their types; whatever length a header announces, the
\* reader allocates no more than its limit for it (codec.rs:64-72).
FrameTypeOK ==
    /\ {wmax, rmax} \subseteq Limits
    /\ sent \in Seq([hdr : Seq(Byte), len : Nat, at : Nat, put : Nat \ {0}])
    /\ writer \in {"open", "closed", "err"}
    /\ pos \in 0..End
    /\ reader \in {"header", "body", "eof"} \cup Errors
    /\ cur.type \in Byte /\ cur.len \in 0..rmax
    /\ got \in Seq([type : Byte, len : 0..rmax, from : Nat])

Sound(f) == Whole(f) /\ SubSeq(f.hdr, 1, 4) = Append(MAGIC, VERSION) /\ f.len <= rmax

\* the first n frames were written to the end, in this version, within the
\* reader's limit
SoundUpTo(n) == n <= Len(sent) /\ \A i \in 1..n : Sound(sent[i])

Copy(f) == [type |-> f.hdr[5], len |-> f.len, from |-> f.at + HEADER_LEN]

\* What read_frame returns is what write_frame was given, frame by frame and at
\* every length, up to the first frame that was cut (codec.rs:54-84, 88-105).
Faithful == \A i \in DOMAIN got : SoundUpTo(i) => got[i] = Copy(sent[i])

\* Every sound frame arrives, whatever is cut or sent after it: the reader reports
\* neither an error nor the end of the stream before it (frame.rs:28-39,
\* codec.rs:64).
FramesArrive == \A n \in 1..MaxFrames : SoundUpTo(n) ~> Len(got) >= n

=============================================================================
