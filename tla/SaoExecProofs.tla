--------------------------- MODULE SaoExecProofs ---------------------------
(***************************************************************************)
(* What SaoExec promises, for every number of chunks, every size of frame, *)
(* every policy and either transport.                                      *)
(*                                                                         *)
(* The invariants of SaoExec are not inductive: they speak about the wire, *)
(* and what the wire will hold is decided earlier, in the pipe, the        *)
(* channel and the frame being written.  ExecInv adds where a chunk is on  *)
(* its way (ChunkPath), what each point of run_one_exec knows (AtPoint,    *)
(* Drained) and what may already be on the wire (NoResultYet).             *)
(***************************************************************************)
EXTENDS SaoExec, TLAPS

\* What each program point knows about the frame in hand and the child.
AtPoint ==
    /\ pc \notin Writing => frame = NoFrame /\ put = 0
    /\ pc \in Writing => frame \in ExecFrames
    /\ pc = "stream" => frame.type \in {"STREAM_STDOUT", "STREAM_STDERR"}
    /\ pc = "denied" => frame = Denied
    /\ pc = "exit" => frame = Exit(status) /\ child = "reaped"
    /\ pc = "late" => frame = Exit(TimedOut) /\ kill # "none"
    /\ put =< Size(frame)
    /\ kill # "none" => pc \in {"late"} \cup Returned
    /\ audit # "none" => pc \in Returned
    /\ child = "reaped" => pc \in {"exit", "late"} \cup Returned
    /\ child \in {"zombie", "reaped"} => status \in Codes \cup {Signalled}

\* Before the spawn there is no child, no pipe, no output.
BeforeSpawn ==
    pc \in {"check", "denied"} =>
        /\ child = "none" /\ chan = <<>>
        /\ \A s \in Srcs : reader[s] = "idle" /\ holds[s] = {} /\ taken[s] = 0

\* A stopped reader is at the end of its pipe for good; "gone" needs a return.
ReaderInv ==
    \A s \in Srcs :
        /\ taken[s] =< made[s]
        /\ reader[s] = "eof" => taken[s] = made[s] /\ holds[s] = {}
        /\ reader[s] = "gone" => pc \in Returned

InHand(s, n)  == pc = "stream" /\ Carries(frame, s, n)
InChan(s, n)  == \E i \in DOMAIN chan : chan[i].src = s /\ chan[i].n = n

\* While the execution runs, a chunk that was read is in the channel, in the
\* frame in hand, or on the wire, and is overtaken by no later one.
ChunkPath ==
    pc \in InTimer =>
        /\ \A s \in Srcs : \A n \in 1..taken[s] : InChan(s, n) \/ InHand(s, n) \/ Delivered(s, n)
        /\ \A i \in DOMAIN chan : \A m \in 1..(chan[i].n - 1) :
              \/ \E j \in 1..(i - 1) : chan[j].src = chan[i].src /\ chan[j].n = m
              \/ InHand(chan[i].src, m)
              \/ Delivered(chan[i].src, m)
        /\ \A s \in Srcs : \A n \in 1..MaxChunks : InHand(s, n) =>
              \A m \in 1..(n - 1) : Delivered(s, m)

AllSent == \A s \in Srcs : reader[s] = "err" \/ \A n \in 1..made[s] : Delivered(s, n)

\* Once recv() has given None both readers have stopped and all is on the wire.
Drained ==
    pc \in {"wait", "exit"} \/ audit = "exec_done" \/ kill = "stray" =>
        /\ \A s \in Srcs : reader[s] \in {"eof", "err"}
        /\ AllSent

\* A result on the wire ends the execution, but for the flush the timer cut.
NoResultYet ==
    /\ pc \in InTimer \cup {"check", "denied"} => \A i \in DOMAIN wire : ~IsResult(wire[i]) \/ ~Whole(wire[i])
    /\ pc = "late" => \A i \in DOMAIN wire : IsResult(wire[i]) /\ Whole(wire[i]) =>
           i = Len(wire) /\ Tls /\ kill = "stray"

StrayReaped == kill = "stray" => child = "reaped"

ExecInv ==
    /\ ExecTypeOK
    /\ AtPoint
    /\ BeforeSpawn
    /\ ReaderInv
    /\ ChunkPath
    /\ Drained
    /\ NoResultYet
    /\ OutputInOrder
    /\ ExitTruthful
    /\ NoShellLeft
    /\ SingleResult
    /\ StrayReaped
-----------------------------------------------------------------------------
(***************************************************************************)
(* Sequences and frames.                                                   *)
(***************************************************************************)

\* Appending to a queue: the channel and the wire both grow this way.
LEMMA AppendFacts ==
    ASSUME NEW S, NEW q \in Seq(S), NEW e \in S
    PROVE  /\ Append(q, e) \in Seq(S)
           /\ Len(q) \in Nat /\ DOMAIN q = 1..Len(q)
           /\ DOMAIN Append(q, e) = 1..(Len(q) + 1)
           /\ Len(Append(q, e)) = Len(q) + 1
           /\ \A i \in 1..Len(q) : Append(q, e)[i] = q[i]
           /\ Append(q, e)[Len(q) + 1] = e
  OBVIOUS

\* Every frame the session writes has a size, at least a header and a body cell.
LEMMA SizeBounds ==
    \A f \in ExecFrames \cup {NoFrame} : Size(f) \in 2..(BodyCells + 1)
  BY ExecAssumption DEF Size

Entries == [frame : ExecFrames, put : 1..(BodyCells + 1)]

\* A frame is in hand only inside write_frame, so a cut leaves a well-formed
\* entry: some cells of a real frame.
LEMMA CutType ==
    ASSUME ExecTypeOK, AtPoint
    PROVE  /\ put > 0 => Entry \in Entries
           /\ wire \in Seq(Entries) /\ Cut \in Seq(Entries)
<1>1. put > 0 => pc \in Writing
  BY DEF AtPoint
<1>2. put > 0 => frame \in ExecFrames /\ put \in 1..(BodyCells + 1)
  BY <1>1, ExecAssumption DEF AtPoint, ExecTypeOK
<1>3. put > 0 => Entry \in Entries
  BY <1>2 DEF Entry, Entries
<1>4. wire \in Seq(Entries)
  BY DEF ExecTypeOK, Entries
<1>5. QED
  BY <1>3, <1>4 DEF Cut

\* What a reader appends to the channel is a chunk of its pipe.
LEMMA NextChunkType ==
    ASSUME ExecTypeOK, NEW s \in Srcs, taken[s] < made[s]
    PROVE  NextChunk(s) \in Chunks
  BY ExecAssumption DEF ExecTypeOK, Chunks, NextChunk

-----------------------------------------------------------------------------
(***************************************************************************)
(* Types, and what each program point knows.                               *)
(***************************************************************************)

\* Every step of every actor keeps the types.
LEMMA TypeStep == ExecTypeOK /\ AtPoint /\ [ExecNext]_execVars => ExecTypeOK'
<1> USE ExecAssumption
<1>1. ASSUME ExecTypeOK, AtPoint, Refuse PROVE ExecTypeOK'
  BY <1>1 DEF Refuse, BeginWrite, procVars, pipeVars, pastVars, ExecTypeOK, Writing, Returned,
    Denied, ExecFrames
<1>2. ASSUME ExecTypeOK, AtPoint, SpawnFails PROVE ExecTypeOK'
  BY <1>2 DEF SpawnFails, Return, Leave, DropChild, KillChild, pipeVars, pastVars, ExecTypeOK,
    Writing, Returned, Signalled, Srcs
<1>3. ASSUME ExecTypeOK, AtPoint, Spawn PROVE ExecTypeOK'
  BY <1>3 DEF Spawn, pastVars, ExecTypeOK, Writing, Returned, Srcs
<1>4. ASSUME ExecTypeOK, AtPoint, Recv PROVE ExecTypeOK'
  <2>1. Head(chan) \in Chunks /\ Tail(chan) \in Seq(Chunks)
    BY <1>4 DEF ExecTypeOK, Recv, Forward
  <2>2. Stream(Head(chan)) \in ExecFrames
    BY <2>1 DEF Chunks, Stream, StreamType, Srcs, ExecFrames
  <2>3. QED
    BY <1>4, <2>1, <2>2 DEF Recv, Forward, BeginWrite, ExecTypeOK, Writing, Returned, procVars, pastVars
<1>5. ASSUME ExecTypeOK, AtPoint, RecvNone PROVE ExecTypeOK'
  BY <1>5 DEF RecvNone, StopReceiving, procVars, pipeVars, pastVars, ExecTypeOK, Writing, Returned
<1>6. ASSUME ExecTypeOK, AtPoint, Wait PROVE ExecTypeOK'
  <2>1. Exit(status) \in ExecFrames
    BY <1>6 DEF Wait, Reap, AtPoint, Exit, ExecFrames, ExitCodes, Signalled
  <2>2. QED
    BY <1>6, <2>1 DEF Wait, Reap, BeginWrite, ExecTypeOK, Writing, Returned, pipeVars, pastVars
<1>7. ASSUME ExecTypeOK, AtPoint, WaitFails PROVE ExecTypeOK'
  BY <1>7 DEF WaitFails, Return, Leave, DropChild, KillChild, pipeVars, pastVars, ExecTypeOK,
    Writing, Returned, Signalled, Srcs
<1>8. ASSUME ExecTypeOK, AtPoint, CellAccepted PROVE ExecTypeOK'
  BY <1>8, SizeBounds DEF CellAccepted, procVars, pipeVars, pastVars, ExecTypeOK, Writing, Returned
<1>9. ASSUME ExecTypeOK, AtPoint, StreamWritten PROVE ExecTypeOK'
  <2>1. put > 0 /\ wire' = Cut
    BY <1>9, SizeBounds DEF StreamWritten, Cut, ExecTypeOK
  <2>2. QED
    BY <1>9, <2>1, CutType DEF StreamWritten, Leave, procVars, pipeVars, pastVars, Entries,
      ExecTypeOK, Writing, Returned
<1>10. ASSUME ExecTypeOK, AtPoint, ResultWritten PROVE ExecTypeOK'
  <2>1. put > 0 /\ wire' = Cut
    BY <1>10, SizeBounds DEF ResultWritten, LastFrameOut, Cut, ExecTypeOK
  <2>2. QED
    BY <1>10, <2>1, CutType DEF ResultWritten, LastFrameOut, Return, Leave, DropChild, KillChild,
      pipeVars, Event, Signalled, Srcs, Entries, ExecTypeOK, Writing, Returned
<1>11. ASSUME ExecTypeOK, AtPoint, WriteFails PROVE ExecTypeOK'
  BY <1>11, CutType DEF WriteFails, Return, Leave, DropChild, KillChild, pipeVars, pastVars,
    ExecTypeOK, Writing, Returned, Signalled, Srcs, Entries
<1>12. ASSUME ExecTypeOK, AtPoint, Timeout PROVE ExecTypeOK'
  BY <1>12, CutType DEF Timeout, TimesOut, BeginWrite, KillChild, pipeVars, ExecTypeOK, Writing,
    Returned, Exit, TimedOut, Signalled, Srcs, ExecFrames, ExitCodes, Entries
<1>13. ASSUME ExecTypeOK, AtPoint, NEW s \in Srcs, ReaderTakes(s) PROVE ExecTypeOK'
  <2>1. chan' = Append(chan, NextChunk(s)) \/ chan' = chan
    BY <1>13 DEF ReaderTakes, Takes
  <2>2. chan' \in Seq(Chunks)
    <3>1. NextChunk(s) \in Chunks
      BY <1>13, NextChunkType DEF ReaderTakes, Takes
    <3>2. chan \in Seq(Chunks)
      BY <1>13 DEF ExecTypeOK
    <3>3. QED
      BY <2>1, <3>1, <3>2, AppendFacts
  <2>3. taken' \in [Srcs -> 0..MaxChunks]
    BY <1>13 DEF ReaderTakes, Takes, ExecTypeOK
  <2>4. reader' \in [Srcs -> {"idle", "run"} \cup Done]
    BY <1>13 DEF ReaderTakes, Takes, ExecTypeOK, Done
  <2>5. QED
    BY <1>13, <2>2, <2>3, <2>4 DEF ReaderTakes, Takes, ExecTypeOK, taskVars, procVars, pastVars
<1>14. ASSUME ExecTypeOK, AtPoint, NEW s \in Srcs, ReaderEof(s) \/ ReaderErr(s) PROVE ExecTypeOK'
  <2>1. reader' \in [Srcs -> {"idle", "run"} \cup Done]
    BY <1>14 DEF ReaderEof, ReaderErr, ReaderEnds, ExecTypeOK, Done
  <2>2. QED
    BY <1>14, <2>1 DEF ReaderEof, ReaderErr, ReaderEnds, ExecTypeOK, taskVars, procVars, pastVars
<1>15. ASSUME ExecTypeOK, AtPoint, NEW s \in Srcs, WritesChunk(s) PROVE ExecTypeOK'
  BY <1>15 DEF WritesChunk, taskVars, procVars, pastVars, ExecTypeOK, Writing, Returned
<1>16. ASSUME ExecTypeOK, AtPoint, Forks PROVE ExecTypeOK'
  BY <1>16 DEF Forks, taskVars, pipeVars, pastVars, ExecTypeOK, Writing, Returned, Srcs
<1>17. ASSUME ExecTypeOK, AtPoint, NEW s \in Srcs, NEW p \in {"child", "heir"}, Closes(p, s) PROVE
  ExecTypeOK'
  BY <1>17 DEF Closes, taskVars, pipeVars, pastVars, ExecTypeOK, Writing, Returned
<1>18. ASSUME ExecTypeOK, AtPoint, NEW code \in Codes \cup {Signalled}, ChildExits(code) PROVE
  ExecTypeOK'
  BY <1>18 DEF ChildExits, taskVars, pipeVars, pastVars, ExecTypeOK, Writing, Returned, Srcs,
    Signalled
<1>19. ASSUME ExecTypeOK, AtPoint, OrphanReaped PROVE ExecTypeOK'
  BY <1>19 DEF OrphanReaped, taskVars, pipeVars, pastVars, ExecTypeOK, Writing, Returned
<1>20. ASSUME ExecTypeOK, AtPoint, PeerLeaves PROVE ExecTypeOK'
  BY <1>20 DEF PeerLeaves, taskVars, procVars, pipeVars, pastVars, ExecTypeOK, Writing, Returned
<1>21. ASSUME ExecTypeOK, AtPoint, UNCHANGED execVars PROVE ExecTypeOK'
  BY <1>21 DEF execVars, taskVars, procVars, pipeVars, pastVars, ExecTypeOK, Writing, Returned
<1>22. QED
  BY <1>1, <1>2, <1>3, <1>4, <1>5, <1>6, <1>7, <1>8, <1>9, <1>10, <1>11, <1>12, <1>13, <1>14, <1>15,
    <1>16, <1>17, <1>18, <1>19, <1>20, <1>21 DEF ExecNext, Task, Writes, Readers, Host

\* Every step keeps what each program point knows.
LEMMA PointStep == ExecTypeOK /\ AtPoint /\ [ExecNext]_execVars => AtPoint'
<1> USE ExecAssumption
<1>1. ASSUME ExecTypeOK, AtPoint, Refuse PROVE AtPoint'
  BY <1>1 DEF Refuse, BeginWrite, procVars, pipeVars, pastVars, ExecTypeOK, AtPoint, Writing,
    Returned, Denied, ExecFrames, Size
<1>2. ASSUME ExecTypeOK, AtPoint, SpawnFails PROVE AtPoint'
  BY <1>2 DEF SpawnFails, Return, Leave, DropChild, KillChild, pipeVars, pastVars, ExecTypeOK,
    AtPoint, Writing, Returned, Signalled, NoFrame, Size
<1>3. ASSUME ExecTypeOK, AtPoint, Spawn PROVE AtPoint'
  BY <1>3 DEF Spawn, pastVars, ExecTypeOK, AtPoint, Writing, Returned
<1>4. ASSUME ExecTypeOK, AtPoint, Recv PROVE AtPoint'
  <2>1. Head(chan) \in Chunks
    BY <1>4 DEF ExecTypeOK, Recv, Forward
  <2>2. /\ Stream(Head(chan)) \in ExecFrames
        /\ Stream(Head(chan)).type \in {"STREAM_STDOUT", "STREAM_STDERR"}
    BY <2>1 DEF Chunks, Stream, StreamType, Srcs, ExecFrames
  <2>3. QED
    BY <1>4, <2>2, SizeBounds DEF Recv, Forward, BeginWrite, ExecTypeOK, AtPoint, Writing, Returned,
      procVars, pastVars
<1>5. ASSUME ExecTypeOK, AtPoint, RecvNone PROVE AtPoint'
  BY <1>5 DEF RecvNone, StopReceiving, procVars, pipeVars, pastVars, ExecTypeOK, AtPoint, Writing,
    Returned
<1>6. ASSUME ExecTypeOK, AtPoint, Wait PROVE AtPoint'
  BY <1>6 DEF Wait, Reap, BeginWrite, pipeVars, pastVars, ExecTypeOK, AtPoint, Writing, Returned,
    Exit, ExecFrames, ExitCodes, Signalled, Size
<1>7. ASSUME ExecTypeOK, AtPoint, WaitFails PROVE AtPoint'
  BY <1>7 DEF WaitFails, Return, Leave, DropChild, KillChild, pipeVars, pastVars, ExecTypeOK,
    AtPoint, Writing, Returned, Signalled, NoFrame, Size
<1>8. ASSUME ExecTypeOK, AtPoint, CellAccepted PROVE AtPoint'
  BY <1>8, SizeBounds DEF CellAccepted, procVars, pipeVars, pastVars, ExecTypeOK, AtPoint, Writing,
    Returned
<1>9. ASSUME ExecTypeOK, AtPoint, StreamWritten PROVE AtPoint'
  BY <1>9, SizeBounds DEF StreamWritten, Leave, procVars, pipeVars, pastVars, ExecTypeOK, AtPoint,
    Writing, Returned, NoFrame, Size
<1>10. ASSUME ExecTypeOK, AtPoint, ResultWritten PROVE AtPoint'
  BY <1>10, SizeBounds DEF ResultWritten, LastFrameOut, Return, Leave, DropChild, KillChild,
    pipeVars, ExecTypeOK, AtPoint, Writing, Returned, Signalled, NoFrame, Size
<1>11. ASSUME ExecTypeOK, AtPoint, WriteFails PROVE AtPoint'
  BY <1>11 DEF WriteFails, Return, Leave, DropChild, KillChild, pipeVars, pastVars, ExecTypeOK,
    AtPoint, Writing, Returned, Signalled, NoFrame, Size
<1>12. ASSUME ExecTypeOK, AtPoint, Timeout PROVE AtPoint'
  BY <1>12 DEF Timeout, TimesOut, BeginWrite, KillChild, pipeVars, ExecTypeOK, AtPoint, Writing,
    Returned, InTimer, Exit, TimedOut, Signalled, ExecFrames, ExitCodes, Size
<1>13. ASSUME ExecTypeOK, AtPoint, NEW s \in Srcs, ReaderTakes(s) PROVE AtPoint'
  BY <1>13 DEF ReaderTakes, Takes, taskVars, procVars, pastVars, ExecTypeOK, AtPoint, Writing,
    Returned
<1>14. ASSUME ExecTypeOK, AtPoint, NEW s \in Srcs, ReaderEof(s) \/ ReaderErr(s) PROVE AtPoint'
  BY <1>14 DEF ReaderEof, ReaderErr, ReaderEnds, taskVars, procVars, pastVars, ExecTypeOK, AtPoint,
    Writing, Returned
<1>15. ASSUME ExecTypeOK, AtPoint, NEW s \in Srcs, WritesChunk(s) PROVE AtPoint'
  BY <1>15 DEF WritesChunk, taskVars, procVars, pastVars, ExecTypeOK, AtPoint, Writing, Returned
<1>16. ASSUME ExecTypeOK, AtPoint, Forks PROVE AtPoint'
  BY <1>16 DEF Forks, taskVars, pipeVars, pastVars, ExecTypeOK, AtPoint, Writing, Returned
<1>17. ASSUME ExecTypeOK, AtPoint, NEW s \in Srcs, NEW p \in {"child", "heir"}, Closes(p, s) PROVE
  AtPoint'
  BY <1>17 DEF Closes, taskVars, pipeVars, pastVars, ExecTypeOK, AtPoint, Writing, Returned
<1>18. ASSUME ExecTypeOK, AtPoint, NEW code \in Codes \cup {Signalled}, ChildExits(code) PROVE
  AtPoint'
  BY <1>18 DEF ChildExits, taskVars, pipeVars, pastVars, ExecTypeOK, AtPoint, Writing, Returned,
    Signalled
<1>19. ASSUME ExecTypeOK, AtPoint, OrphanReaped PROVE AtPoint'
  BY <1>19 DEF OrphanReaped, taskVars, pipeVars, pastVars, ExecTypeOK, AtPoint, Writing, Returned
<1>20. ASSUME ExecTypeOK, AtPoint, PeerLeaves PROVE AtPoint'
  BY <1>20 DEF PeerLeaves, taskVars, procVars, pipeVars, pastVars, ExecTypeOK, AtPoint, Writing,
    Returned
<1>21. ASSUME ExecTypeOK, AtPoint, UNCHANGED execVars PROVE AtPoint'
  BY <1>21 DEF execVars, taskVars, procVars, pipeVars, pastVars, ExecTypeOK, AtPoint, Writing,
    Returned
<1>22. QED
  BY <1>1, <1>2, <1>3, <1>4, <1>5, <1>6, <1>7, <1>8, <1>9, <1>10, <1>11, <1>12, <1>13, <1>14, <1>15,
    <1>16, <1>17, <1>18, <1>19, <1>20, <1>21 DEF ExecNext, Task, Writes, Readers, Host

-----------------------------------------------------------------------------
(***************************************************************************)
(* The child and the readers.                                              *)
(***************************************************************************)

\* Nothing happens to child, pipes and channel before the spawn.
LEMMA BeforeSpawnStep == ExecTypeOK /\ BeforeSpawn /\ [ExecNext]_execVars => BeforeSpawn'
<1>1. ASSUME ExecTypeOK, BeforeSpawn, Refuse PROVE BeforeSpawn'
  BY <1>1 DEF Refuse, BeginWrite, procVars, pipeVars, pastVars, ExecTypeOK, BeforeSpawn
<1>2. ASSUME ExecTypeOK, BeforeSpawn, SpawnFails PROVE BeforeSpawn'
  BY <1>2 DEF SpawnFails, Return, Leave, DropChild, KillChild, pipeVars, pastVars, ExecTypeOK,
    BeforeSpawn
<1>3. ASSUME ExecTypeOK, BeforeSpawn, Spawn PROVE BeforeSpawn'
  BY <1>3 DEF Spawn, pastVars, ExecTypeOK, BeforeSpawn
<1>4. ASSUME ExecTypeOK, BeforeSpawn, Recv PROVE BeforeSpawn'
  BY <1>4 DEF Recv, Forward, BeginWrite, procVars, pastVars, ExecTypeOK, BeforeSpawn
<1>5. ASSUME ExecTypeOK, BeforeSpawn, RecvNone PROVE BeforeSpawn'
  BY <1>5 DEF RecvNone, StopReceiving, procVars, pipeVars, pastVars, ExecTypeOK, BeforeSpawn
<1>6. ASSUME ExecTypeOK, BeforeSpawn, Wait PROVE BeforeSpawn'
  BY <1>6 DEF Wait, Reap, BeginWrite, pipeVars, pastVars, ExecTypeOK, BeforeSpawn
<1>7. ASSUME ExecTypeOK, BeforeSpawn, WaitFails PROVE BeforeSpawn'
  BY <1>7 DEF WaitFails, Return, Leave, DropChild, KillChild, pipeVars, pastVars, ExecTypeOK,
    BeforeSpawn
<1>8. ASSUME ExecTypeOK, BeforeSpawn, CellAccepted PROVE BeforeSpawn'
  BY <1>8 DEF CellAccepted, procVars, pipeVars, pastVars, ExecTypeOK, BeforeSpawn
<1>9. ASSUME ExecTypeOK, BeforeSpawn, StreamWritten PROVE BeforeSpawn'
  BY <1>9 DEF StreamWritten, Leave, procVars, pipeVars, pastVars, ExecTypeOK, BeforeSpawn
<1>10. ASSUME ExecTypeOK, BeforeSpawn, ResultWritten PROVE BeforeSpawn'
  BY <1>10 DEF ResultWritten, LastFrameOut, Return, Leave, DropChild, KillChild, pipeVars,
    ExecTypeOK, BeforeSpawn
<1>11. ASSUME ExecTypeOK, BeforeSpawn, WriteFails PROVE BeforeSpawn'
  BY <1>11 DEF WriteFails, Return, Leave, DropChild, KillChild, pipeVars, pastVars, ExecTypeOK,
    BeforeSpawn
<1>12. ASSUME ExecTypeOK, BeforeSpawn, Timeout PROVE BeforeSpawn'
  BY <1>12 DEF Timeout, TimesOut, BeginWrite, KillChild, pipeVars, ExecTypeOK, BeforeSpawn
<1>13. ASSUME ExecTypeOK, BeforeSpawn, NEW s \in Srcs, ReaderTakes(s) PROVE BeforeSpawn'
  BY <1>13 DEF ReaderTakes, Takes, taskVars, procVars, pastVars, ExecTypeOK, BeforeSpawn
<1>14. ASSUME ExecTypeOK, BeforeSpawn, NEW s \in Srcs, ReaderEof(s) \/ ReaderErr(s) PROVE
  BeforeSpawn'
  BY <1>14 DEF ReaderEof, ReaderErr, ReaderEnds, taskVars, procVars, pastVars, ExecTypeOK,
    BeforeSpawn
<1>15. ASSUME ExecTypeOK, BeforeSpawn, NEW s \in Srcs, WritesChunk(s) PROVE BeforeSpawn'
  BY <1>15 DEF WritesChunk, taskVars, procVars, pastVars, ExecTypeOK, BeforeSpawn
<1>16. ASSUME ExecTypeOK, BeforeSpawn, Forks PROVE BeforeSpawn'
  BY <1>16 DEF Forks, taskVars, pipeVars, pastVars, ExecTypeOK, BeforeSpawn
<1>17. ASSUME ExecTypeOK, BeforeSpawn, NEW s \in Srcs, NEW p \in {"child", "heir"}, Closes(p, s)
  PROVE BeforeSpawn'
  BY <1>17 DEF Closes, taskVars, pipeVars, pastVars, ExecTypeOK, BeforeSpawn
<1>18. ASSUME ExecTypeOK, BeforeSpawn, NEW code \in Codes \cup {Signalled}, ChildExits(code) PROVE
  BeforeSpawn'
  BY <1>18 DEF ChildExits, taskVars, pipeVars, pastVars, ExecTypeOK, BeforeSpawn
<1>19. ASSUME ExecTypeOK, BeforeSpawn, OrphanReaped PROVE BeforeSpawn'
  BY <1>19 DEF OrphanReaped, taskVars, pipeVars, pastVars, ExecTypeOK, BeforeSpawn
<1>20. ASSUME ExecTypeOK, BeforeSpawn, PeerLeaves PROVE BeforeSpawn'
  BY <1>20 DEF PeerLeaves, taskVars, procVars, pipeVars, pastVars, ExecTypeOK, BeforeSpawn
<1>21. ASSUME ExecTypeOK, BeforeSpawn, UNCHANGED execVars PROVE BeforeSpawn'
  BY <1>21 DEF execVars, taskVars, procVars, pipeVars, pastVars, ExecTypeOK, BeforeSpawn
<1>22. QED
  BY <1>1, <1>2, <1>3, <1>4, <1>5, <1>6, <1>7, <1>8, <1>9, <1>10, <1>11, <1>12, <1>13, <1>14, <1>15,
    <1>16, <1>17, <1>18, <1>19, <1>20, <1>21 DEF ExecNext, Task, Writes, Readers, Host

\* A reader that saw the end of its pipe saw all of it: nobody can write any more.
LEMMA ReaderStep == ExecTypeOK /\ AtPoint /\ BeforeSpawn /\ ReaderInv /\ [ExecNext]_execVars =>
  ReaderInv'
<1> USE ExecAssumption
<1>1. ASSUME ExecTypeOK, AtPoint, BeforeSpawn, ReaderInv, Refuse PROVE ReaderInv'
  BY <1>1 DEF Refuse, BeginWrite, procVars, pipeVars, pastVars, ExecTypeOK, ReaderInv, Returned
<1>2. ASSUME ExecTypeOK, AtPoint, BeforeSpawn, ReaderInv, SpawnFails PROVE ReaderInv'
  BY <1>2 DEF SpawnFails, Return, Leave, DropChild, KillChild, pipeVars, pastVars, ExecTypeOK,
    ReaderInv, Returned
<1>3. ASSUME ExecTypeOK, AtPoint, BeforeSpawn, ReaderInv, Spawn PROVE ReaderInv'
  BY <1>3 DEF Spawn, pastVars, ExecTypeOK, ReaderInv, Returned, BeforeSpawn
<1>4. ASSUME ExecTypeOK, AtPoint, BeforeSpawn, ReaderInv, Recv PROVE ReaderInv'
  BY <1>4 DEF Recv, Forward, BeginWrite, procVars, pastVars, ExecTypeOK, ReaderInv, Returned
<1>5. ASSUME ExecTypeOK, AtPoint, BeforeSpawn, ReaderInv, RecvNone PROVE ReaderInv'
  BY <1>5 DEF RecvNone, StopReceiving, procVars, pipeVars, pastVars, ExecTypeOK, ReaderInv, Returned
<1>6. ASSUME ExecTypeOK, AtPoint, BeforeSpawn, ReaderInv, Wait PROVE ReaderInv'
  BY <1>6 DEF Wait, Reap, BeginWrite, pipeVars, pastVars, ExecTypeOK, ReaderInv, Returned
<1>7. ASSUME ExecTypeOK, AtPoint, BeforeSpawn, ReaderInv, WaitFails PROVE ReaderInv'
  BY <1>7 DEF WaitFails, Return, Leave, DropChild, KillChild, pipeVars, pastVars, ExecTypeOK,
    ReaderInv, Returned
<1>8. ASSUME ExecTypeOK, AtPoint, BeforeSpawn, ReaderInv, CellAccepted PROVE ReaderInv'
  BY <1>8 DEF CellAccepted, procVars, pipeVars, pastVars, ExecTypeOK, ReaderInv, Returned
<1>9. ASSUME ExecTypeOK, AtPoint, BeforeSpawn, ReaderInv, StreamWritten PROVE ReaderInv'
  BY <1>9 DEF StreamWritten, Leave, procVars, pipeVars, pastVars, ExecTypeOK, ReaderInv, Returned
<1>10. ASSUME ExecTypeOK, AtPoint, BeforeSpawn, ReaderInv, ResultWritten PROVE ReaderInv'
  BY <1>10 DEF ResultWritten, LastFrameOut, Return, Leave, DropChild, KillChild, pipeVars,
    ExecTypeOK, ReaderInv, Returned
<1>11. ASSUME ExecTypeOK, AtPoint, BeforeSpawn, ReaderInv, WriteFails PROVE ReaderInv'
  BY <1>11 DEF WriteFails, Return, Leave, DropChild, KillChild, pipeVars, pastVars, ExecTypeOK,
    ReaderInv, Returned
<1>12. ASSUME ExecTypeOK, AtPoint, BeforeSpawn, ReaderInv, Timeout PROVE ReaderInv'
  BY <1>12 DEF Timeout, TimesOut, BeginWrite, KillChild, pipeVars, ExecTypeOK, ReaderInv, Returned,
    InTimer
<1>13. ASSUME ExecTypeOK, AtPoint, BeforeSpawn, ReaderInv, NEW s \in Srcs, ReaderTakes(s) PROVE
  ReaderInv'
  <2>1. pc \in InTimer \cup {"late"} \/ pc \in Returned
    BY <1>13 DEF ReaderTakes, Takes, ExecTypeOK, BeforeSpawn, Writing, InTimer
  <2>2. \A r \in Srcs : taken'[r] =< made'[r]
    BY <1>13 DEF ReaderTakes, Takes, ExecTypeOK, ReaderInv
  <2>3. \A r \in Srcs : reader'[r] = "eof" => taken'[r] = made'[r] /\ holds'[r] = {}
    BY <1>13 DEF ReaderTakes, Takes, ExecTypeOK, ReaderInv, procVars
  <2>4. \A r \in Srcs : reader'[r] = "gone" => pc' \in Returned
    BY <1>13, <2>1 DEF ReaderTakes, Takes, ExecTypeOK, ReaderInv, RxOpen, taskVars
  <2>5. QED
    BY <2>2, <2>3, <2>4 DEF ReaderInv
<1>14. ASSUME ExecTypeOK, AtPoint, BeforeSpawn, ReaderInv, NEW s \in Srcs, ReaderEof(s) \/
  ReaderErr(s) PROVE ReaderInv'
  BY <1>14 DEF ReaderEof, ReaderErr, ReaderEnds, taskVars, procVars, pastVars, ExecTypeOK,
    ReaderInv, Returned
<1>15. ASSUME ExecTypeOK, AtPoint, BeforeSpawn, ReaderInv, NEW s \in Srcs, WritesChunk(s) PROVE
  ReaderInv'
  BY <1>15 DEF WritesChunk, taskVars, procVars, pastVars, ExecTypeOK, ReaderInv, Returned
<1>16. ASSUME ExecTypeOK, AtPoint, BeforeSpawn, ReaderInv, Forks PROVE ReaderInv'
  BY <1>16 DEF Forks, taskVars, pipeVars, pastVars, ExecTypeOK, ReaderInv, Returned
<1>17. ASSUME ExecTypeOK, AtPoint, BeforeSpawn, ReaderInv, NEW s \in Srcs, NEW p \in {"child",
  "heir"}, Closes(p, s) PROVE ReaderInv'
  BY <1>17 DEF Closes, taskVars, pipeVars, pastVars, ExecTypeOK, ReaderInv, Returned
<1>18. ASSUME ExecTypeOK, AtPoint, BeforeSpawn, ReaderInv, NEW code \in Codes \cup {Signalled},
  ChildExits(code) PROVE ReaderInv'
  BY <1>18 DEF ChildExits, taskVars, pipeVars, pastVars, ExecTypeOK, ReaderInv, Returned
<1>19. ASSUME ExecTypeOK, AtPoint, BeforeSpawn, ReaderInv, OrphanReaped PROVE ReaderInv'
  BY <1>19 DEF OrphanReaped, taskVars, pipeVars, pastVars, ExecTypeOK, ReaderInv, Returned
<1>20. ASSUME ExecTypeOK, AtPoint, BeforeSpawn, ReaderInv, PeerLeaves PROVE ReaderInv'
  BY <1>20 DEF PeerLeaves, taskVars, procVars, pipeVars, pastVars, ExecTypeOK, ReaderInv, Returned
<1>21. ASSUME ExecTypeOK, AtPoint, BeforeSpawn, ReaderInv, UNCHANGED execVars PROVE ReaderInv'
  BY <1>21 DEF execVars, taskVars, procVars, pipeVars, pastVars, ExecTypeOK, ReaderInv, Returned
<1>22. QED
  BY <1>1, <1>2, <1>3, <1>4, <1>5, <1>6, <1>7, <1>8, <1>9, <1>10, <1>11, <1>12, <1>13, <1>14, <1>15,
    <1>16, <1>17, <1>18, <1>19, <1>20, <1>21 DEF ExecNext, Task, Writes, Readers, Host

\* No return of run_one_exec leaves the shell running, and none starts it.
LEMMA NoShellLeftStep == ExecTypeOK /\ NoShellLeft /\ [ExecNext]_execVars => NoShellLeft'
<1>1. ASSUME ExecTypeOK, NoShellLeft, Refuse PROVE NoShellLeft'
  BY <1>1 DEF Refuse, BeginWrite, procVars, pipeVars, pastVars, ExecTypeOK, NoShellLeft, Returned,
    Writing
<1>2. ASSUME ExecTypeOK, NoShellLeft, SpawnFails PROVE NoShellLeft'
  BY <1>2 DEF SpawnFails, Return, Leave, DropChild, KillChild, pipeVars, pastVars, ExecTypeOK,
    NoShellLeft, Returned, Writing
<1>3. ASSUME ExecTypeOK, NoShellLeft, Spawn PROVE NoShellLeft'
  BY <1>3 DEF Spawn, pastVars, ExecTypeOK, NoShellLeft, Returned, Writing
<1>4. ASSUME ExecTypeOK, NoShellLeft, Recv PROVE NoShellLeft'
  BY <1>4 DEF Recv, Forward, BeginWrite, procVars, pastVars, ExecTypeOK, NoShellLeft, Returned,
    Writing
<1>5. ASSUME ExecTypeOK, NoShellLeft, RecvNone PROVE NoShellLeft'
  BY <1>5 DEF RecvNone, StopReceiving, procVars, pipeVars, pastVars, ExecTypeOK, NoShellLeft,
    Returned, Writing
<1>6. ASSUME ExecTypeOK, NoShellLeft, Wait PROVE NoShellLeft'
  BY <1>6 DEF Wait, Reap, BeginWrite, pipeVars, pastVars, ExecTypeOK, NoShellLeft, Returned, Writing
<1>7. ASSUME ExecTypeOK, NoShellLeft, WaitFails PROVE NoShellLeft'
  BY <1>7 DEF WaitFails, Return, Leave, DropChild, KillChild, pipeVars, pastVars, ExecTypeOK,
    NoShellLeft, Returned, Writing
<1>8. ASSUME ExecTypeOK, NoShellLeft, CellAccepted PROVE NoShellLeft'
  BY <1>8 DEF CellAccepted, procVars, pipeVars, pastVars, ExecTypeOK, NoShellLeft, Returned, Writing
<1>9. ASSUME ExecTypeOK, NoShellLeft, StreamWritten PROVE NoShellLeft'
  BY <1>9 DEF StreamWritten, Leave, procVars, pipeVars, pastVars, ExecTypeOK, NoShellLeft, Returned,
    Writing
<1>10. ASSUME ExecTypeOK, NoShellLeft, ResultWritten PROVE NoShellLeft'
  BY <1>10 DEF ResultWritten, LastFrameOut, Return, Leave, DropChild, KillChild, pipeVars,
    ExecTypeOK, NoShellLeft, Returned, Writing
<1>11. ASSUME ExecTypeOK, NoShellLeft, WriteFails PROVE NoShellLeft'
  BY <1>11 DEF WriteFails, Return, Leave, DropChild, KillChild, pipeVars, pastVars, ExecTypeOK,
    NoShellLeft, Returned, Writing
<1>12. ASSUME ExecTypeOK, NoShellLeft, Timeout PROVE NoShellLeft'
  BY <1>12 DEF Timeout, TimesOut, BeginWrite, KillChild, pipeVars, ExecTypeOK, NoShellLeft,
    Returned, Writing
<1>13. ASSUME ExecTypeOK, NoShellLeft, NEW s \in Srcs, ReaderTakes(s) PROVE NoShellLeft'
  BY <1>13 DEF ReaderTakes, Takes, taskVars, procVars, pastVars, ExecTypeOK, NoShellLeft, Returned,
    Writing
<1>14. ASSUME ExecTypeOK, NoShellLeft, NEW s \in Srcs, ReaderEof(s) \/ ReaderErr(s) PROVE
  NoShellLeft'
  BY <1>14 DEF ReaderEof, ReaderErr, ReaderEnds, taskVars, procVars, pastVars, ExecTypeOK,
    NoShellLeft, Returned, Writing
<1>15. ASSUME ExecTypeOK, NoShellLeft, NEW s \in Srcs, WritesChunk(s) PROVE NoShellLeft'
  BY <1>15 DEF WritesChunk, taskVars, procVars, pastVars, ExecTypeOK, NoShellLeft, Returned, Writing
<1>16. ASSUME ExecTypeOK, NoShellLeft, Forks PROVE NoShellLeft'
  BY <1>16 DEF Forks, taskVars, pipeVars, pastVars, ExecTypeOK, NoShellLeft, Returned, Writing
<1>17. ASSUME ExecTypeOK, NoShellLeft, NEW s \in Srcs, NEW p \in {"child", "heir"}, Closes(p, s)
  PROVE NoShellLeft'
  BY <1>17 DEF Closes, taskVars, pipeVars, pastVars, ExecTypeOK, NoShellLeft, Returned, Writing
<1>18. ASSUME ExecTypeOK, NoShellLeft, NEW code \in Codes \cup {Signalled}, ChildExits(code) PROVE
  NoShellLeft'
  BY <1>18 DEF ChildExits, taskVars, pipeVars, pastVars, ExecTypeOK, NoShellLeft, Returned, Writing
<1>19. ASSUME ExecTypeOK, NoShellLeft, OrphanReaped PROVE NoShellLeft'
  BY <1>19 DEF OrphanReaped, taskVars, pipeVars, pastVars, ExecTypeOK, NoShellLeft, Returned,
    Writing
<1>20. ASSUME ExecTypeOK, NoShellLeft, PeerLeaves PROVE NoShellLeft'
  BY <1>20 DEF PeerLeaves, taskVars, procVars, pipeVars, pastVars, ExecTypeOK, NoShellLeft,
    Returned, Writing
<1>21. ASSUME ExecTypeOK, NoShellLeft, UNCHANGED execVars PROVE NoShellLeft'
  BY <1>21 DEF execVars, taskVars, procVars, pipeVars, pastVars, ExecTypeOK, NoShellLeft, Returned,
    Writing
<1>22. QED
  BY <1>1, <1>2, <1>3, <1>4, <1>5, <1>6, <1>7, <1>8, <1>9, <1>10, <1>11, <1>12, <1>13, <1>14, <1>15,
    <1>16, <1>17, <1>18, <1>19, <1>20, <1>21 DEF ExecNext, Task, Writes, Readers, Host

\* A child that was reaped stays reaped, so a stray signal stays stray.
LEMMA StrayStep == ExecTypeOK /\ AtPoint /\ StrayReaped /\ [ExecNext]_execVars => StrayReaped'
<1>1. ASSUME ExecTypeOK, AtPoint, StrayReaped, Refuse PROVE StrayReaped'
  BY <1>1 DEF Refuse, BeginWrite, procVars, pipeVars, pastVars, ExecTypeOK, AtPoint, StrayReaped,
    Returned
<1>2. ASSUME ExecTypeOK, AtPoint, StrayReaped, SpawnFails PROVE StrayReaped'
  BY <1>2 DEF SpawnFails, Return, Leave, DropChild, KillChild, pipeVars, pastVars, ExecTypeOK,
    AtPoint, StrayReaped, Returned
<1>3. ASSUME ExecTypeOK, AtPoint, StrayReaped, Spawn PROVE StrayReaped'
  BY <1>3 DEF Spawn, pastVars, ExecTypeOK, AtPoint, StrayReaped, Returned
<1>4. ASSUME ExecTypeOK, AtPoint, StrayReaped, Recv PROVE StrayReaped'
  BY <1>4 DEF Recv, Forward, BeginWrite, procVars, pastVars, ExecTypeOK, AtPoint, StrayReaped,
    Returned
<1>5. ASSUME ExecTypeOK, AtPoint, StrayReaped, RecvNone PROVE StrayReaped'
  BY <1>5 DEF RecvNone, StopReceiving, procVars, pipeVars, pastVars, ExecTypeOK, AtPoint,
    StrayReaped, Returned
<1>6. ASSUME ExecTypeOK, AtPoint, StrayReaped, Wait PROVE StrayReaped'
  BY <1>6 DEF Wait, Reap, BeginWrite, pipeVars, pastVars, ExecTypeOK, AtPoint, StrayReaped, Returned
<1>7. ASSUME ExecTypeOK, AtPoint, StrayReaped, WaitFails PROVE StrayReaped'
  BY <1>7 DEF WaitFails, Return, Leave, DropChild, KillChild, pipeVars, pastVars, ExecTypeOK,
    AtPoint, StrayReaped, Returned
<1>8. ASSUME ExecTypeOK, AtPoint, StrayReaped, CellAccepted PROVE StrayReaped'
  BY <1>8 DEF CellAccepted, procVars, pipeVars, pastVars, ExecTypeOK, AtPoint, StrayReaped, Returned
<1>9. ASSUME ExecTypeOK, AtPoint, StrayReaped, StreamWritten PROVE StrayReaped'
  BY <1>9 DEF StreamWritten, Leave, procVars, pipeVars, pastVars, ExecTypeOK, AtPoint, StrayReaped,
    Returned
<1>10. ASSUME ExecTypeOK, AtPoint, StrayReaped, ResultWritten PROVE StrayReaped'
  BY <1>10 DEF ResultWritten, LastFrameOut, Return, Leave, DropChild, KillChild, pipeVars,
    ExecTypeOK, AtPoint, StrayReaped, Returned
<1>11. ASSUME ExecTypeOK, AtPoint, StrayReaped, WriteFails PROVE StrayReaped'
  BY <1>11 DEF WriteFails, Return, Leave, DropChild, KillChild, pipeVars, pastVars, ExecTypeOK,
    AtPoint, StrayReaped, Returned
<1>12. ASSUME ExecTypeOK, AtPoint, StrayReaped, Timeout PROVE StrayReaped'
  BY <1>12 DEF Timeout, TimesOut, BeginWrite, KillChild, pipeVars, ExecTypeOK, AtPoint, StrayReaped,
    Returned, InTimer
<1>13. ASSUME ExecTypeOK, AtPoint, StrayReaped, NEW s \in Srcs, ReaderTakes(s) PROVE StrayReaped'
  BY <1>13 DEF ReaderTakes, Takes, taskVars, procVars, pastVars, ExecTypeOK, AtPoint, StrayReaped,
    Returned
<1>14. ASSUME ExecTypeOK, AtPoint, StrayReaped, NEW s \in Srcs, ReaderEof(s) \/ ReaderErr(s) PROVE
  StrayReaped'
  BY <1>14 DEF ReaderEof, ReaderErr, ReaderEnds, taskVars, procVars, pastVars, ExecTypeOK, AtPoint,
    StrayReaped, Returned
<1>15. ASSUME ExecTypeOK, AtPoint, StrayReaped, NEW s \in Srcs, WritesChunk(s) PROVE StrayReaped'
  BY <1>15 DEF WritesChunk, taskVars, procVars, pastVars, ExecTypeOK, AtPoint, StrayReaped, Returned
<1>16. ASSUME ExecTypeOK, AtPoint, StrayReaped, Forks PROVE StrayReaped'
  BY <1>16 DEF Forks, taskVars, pipeVars, pastVars, ExecTypeOK, AtPoint, StrayReaped, Returned
<1>17. ASSUME ExecTypeOK, AtPoint, StrayReaped, NEW s \in Srcs, NEW p \in {"child", "heir"},
  Closes(p, s) PROVE StrayReaped'
  BY <1>17 DEF Closes, taskVars, pipeVars, pastVars, ExecTypeOK, AtPoint, StrayReaped, Returned
<1>18. ASSUME ExecTypeOK, AtPoint, StrayReaped, NEW code \in Codes \cup {Signalled},
  ChildExits(code) PROVE StrayReaped'
  BY <1>18 DEF ChildExits, taskVars, pipeVars, pastVars, ExecTypeOK, AtPoint, StrayReaped, Returned
<1>19. ASSUME ExecTypeOK, AtPoint, StrayReaped, OrphanReaped PROVE StrayReaped'
  BY <1>19 DEF OrphanReaped, taskVars, pipeVars, pastVars, ExecTypeOK, AtPoint, StrayReaped,
    Returned
<1>20. ASSUME ExecTypeOK, AtPoint, StrayReaped, PeerLeaves PROVE StrayReaped'
  BY <1>20 DEF PeerLeaves, taskVars, procVars, pipeVars, pastVars, ExecTypeOK, AtPoint, StrayReaped,
    Returned
<1>21. ASSUME ExecTypeOK, AtPoint, StrayReaped, UNCHANGED execVars PROVE StrayReaped'
  BY <1>21 DEF execVars, taskVars, procVars, pipeVars, pastVars, ExecTypeOK, AtPoint, StrayReaped,
    Returned
<1>22. QED
  BY <1>1, <1>2, <1>3, <1>4, <1>5, <1>6, <1>7, <1>8, <1>9, <1>10, <1>11, <1>12, <1>13, <1>14, <1>15,
    <1>16, <1>17, <1>18, <1>19, <1>20, <1>21 DEF ExecNext, Task, Writes, Readers, Host

-----------------------------------------------------------------------------
(***************************************************************************)
(* The wire only grows, by the frame in hand.                              *)
(***************************************************************************)

Grows == wire' = wire \/ (put > 0 /\ wire' = Append(wire, Entry))

\* No step rewrites what the transport took: at most the frame in hand is added.
LEMMA WireGrows == ExecTypeOK /\ [ExecNext]_execVars => Grows
<1>1. ASSUME ExecTypeOK, Refuse PROVE Grows
  BY <1>1 DEF Refuse, BeginWrite, procVars, pipeVars, pastVars, Grows
<1>2. ASSUME ExecTypeOK, SpawnFails PROVE Grows
  BY <1>2 DEF SpawnFails, Return, Leave, DropChild, KillChild, pipeVars, pastVars, Grows
<1>3. ASSUME ExecTypeOK, Spawn PROVE Grows
  BY <1>3 DEF Spawn, pastVars, Grows
<1>4. ASSUME ExecTypeOK, Recv PROVE Grows
  BY <1>4 DEF Recv, Forward, BeginWrite, procVars, pastVars, Grows
<1>5. ASSUME ExecTypeOK, RecvNone PROVE Grows
  BY <1>5 DEF RecvNone, StopReceiving, procVars, pipeVars, pastVars, Grows
<1>6. ASSUME ExecTypeOK, Wait PROVE Grows
  BY <1>6 DEF Wait, Reap, BeginWrite, pipeVars, pastVars, Grows
<1>7. ASSUME ExecTypeOK, WaitFails PROVE Grows
  BY <1>7 DEF WaitFails, Return, Leave, DropChild, KillChild, pipeVars, pastVars, Grows
<1>8. ASSUME ExecTypeOK, CellAccepted PROVE Grows
  BY <1>8 DEF CellAccepted, procVars, pipeVars, pastVars, Grows
<1>9. ASSUME ExecTypeOK, StreamWritten PROVE Grows
  BY <1>9, SizeBounds DEF StreamWritten, Leave, procVars, pipeVars, pastVars, Grows, ExecTypeOK
<1>10. ASSUME ExecTypeOK, ResultWritten PROVE Grows
  BY <1>10, SizeBounds DEF ResultWritten, LastFrameOut, Return, Leave, DropChild, KillChild,
    pipeVars, Grows, ExecTypeOK
<1>11. ASSUME ExecTypeOK, WriteFails PROVE Grows
  BY <1>11 DEF WriteFails, Return, Leave, DropChild, KillChild, pipeVars, pastVars, Grows, Cut
<1>12. ASSUME ExecTypeOK, Timeout PROVE Grows
  BY <1>12 DEF Timeout, TimesOut, BeginWrite, KillChild, pipeVars, Grows, Cut
<1>13. ASSUME ExecTypeOK, NEW s \in Srcs, ReaderTakes(s) PROVE Grows
  BY <1>13 DEF ReaderTakes, Takes, taskVars, procVars, pastVars, Grows
<1>14. ASSUME ExecTypeOK, NEW s \in Srcs, ReaderEof(s) \/ ReaderErr(s) PROVE Grows
  BY <1>14 DEF ReaderEof, ReaderErr, ReaderEnds, taskVars, procVars, pastVars, Grows
<1>15. ASSUME ExecTypeOK, NEW s \in Srcs, WritesChunk(s) PROVE Grows
  BY <1>15 DEF WritesChunk, taskVars, procVars, pastVars, Grows
<1>16. ASSUME ExecTypeOK, Forks PROVE Grows
  BY <1>16 DEF Forks, taskVars, pipeVars, pastVars, Grows
<1>17. ASSUME ExecTypeOK, NEW s \in Srcs, NEW p \in {"child", "heir"}, Closes(p, s) PROVE Grows
  BY <1>17 DEF Closes, taskVars, pipeVars, pastVars, Grows
<1>18. ASSUME ExecTypeOK, NEW code \in Codes \cup {Signalled}, ChildExits(code) PROVE Grows
  BY <1>18 DEF ChildExits, taskVars, pipeVars, pastVars, Grows
<1>19. ASSUME ExecTypeOK, OrphanReaped PROVE Grows
  BY <1>19 DEF OrphanReaped, taskVars, pipeVars, pastVars, Grows
<1>20. ASSUME ExecTypeOK, PeerLeaves PROVE Grows
  BY <1>20 DEF PeerLeaves, taskVars, procVars, pipeVars, pastVars, Grows
<1>21. ASSUME ExecTypeOK, UNCHANGED execVars PROVE Grows
  BY <1>21 DEF execVars, taskVars, procVars, pipeVars, pastVars, Grows
<1>22. QED
  BY <1>1, <1>2, <1>3, <1>4, <1>5, <1>6, <1>7, <1>8, <1>9, <1>10, <1>11, <1>12, <1>13, <1>14, <1>15,
    <1>16, <1>17, <1>18, <1>19, <1>20, <1>21 DEF ExecNext, Task, Writes, Readers, Host

\* The wire after a step, entry by entry.
LEMMA WireEntries ==
    ASSUME ExecTypeOK, AtPoint, Grows
    PROVE  /\ Len(wire) \in Nat /\ DOMAIN wire = 1..Len(wire)
           /\ \/ wire' = wire
              \/ /\ put > 0 /\ pc \in Writing /\ frame \in ExecFrames
                 /\ DOMAIN wire' = 1..(Len(wire) + 1) /\ Len(wire') = Len(wire) + 1
                 /\ \A i \in 1..Len(wire) : wire'[i] = wire[i]
                 /\ wire'[Len(wire) + 1] = Entry
<1>1. wire \in Seq(Entries) /\ (put > 0 => Entry \in Entries)
  BY CutType
<1>2. Len(wire) \in Nat /\ DOMAIN wire = 1..Len(wire)
  BY <1>1
<1>3. CASE wire' = wire
  BY <1>2, <1>3
<1>4. CASE put > 0 /\ wire' = Append(wire, Entry)
  <2>1. /\ DOMAIN wire' = 1..(Len(wire) + 1) /\ Len(wire') = Len(wire) + 1
        /\ \A i \in 1..Len(wire) : wire'[i] = wire[i]
        /\ wire'[Len(wire) + 1] = Entry
    BY <1>1, <1>4, AppendFacts
  <2>2. pc \in Writing /\ frame \in ExecFrames
    BY <1>4 DEF AtPoint
  <2>3. QED
    BY <1>2, <1>4, <2>1, <2>2
<1>5. QED
  BY <1>3, <1>4 DEF Grows

\* What was delivered stays delivered.
LEMMA DeliveredGrows ==
    ASSUME ExecTypeOK, AtPoint, Grows, NEW s \in Srcs, NEW n, Delivered(s, n)
    PROVE  Delivered(s, n)'
<1>1. PICK i \in DOMAIN wire : Whole(wire[i]) /\ Carries(wire[i].frame, s, n)
  BY DEF Delivered
<1>2. i \in DOMAIN wire' /\ wire'[i] = wire[i]
  BY <1>1, WireEntries
<1>3. QED
  BY <1>1, <1>2 DEF Delivered, Whole

\* A frame that is written to its end is delivered.
LEMMA DeliveredWhole ==
    ASSUME ExecTypeOK, AtPoint, wire' = Append(wire, Entry), put = Size(frame),
           NEW s \in Srcs, NEW n, Carries(frame, s, n)
    PROVE  Delivered(s, n)'
<1>1. put > 0 /\ Grows
  BY SizeBounds DEF ExecTypeOK, Grows
<1>2. wire'[Len(wire) + 1] = Entry /\ Len(wire) + 1 \in DOMAIN wire'
  <2>1. wire \in Seq(Entries) /\ Entry \in Entries
    BY <1>1, CutType
  <2>2. QED
    BY <2>1, AppendFacts
<1>3. Whole(Entry) /\ Entry.frame = frame
  BY DEF Whole, Entry
<1>4. QED
  BY <1>2, <1>3 DEF Delivered, Whole

\* Frames are put on the wire in the order of their chunks.
LEMMA InOrderStep ==
    ASSUME ExecTypeOK, AtPoint, ChunkPath, OutputInOrder, Grows
    PROVE  OutputInOrder'
<1> SUFFICES ASSUME NEW i \in DOMAIN wire', NEW s \in Srcs, wire'[i].frame.type = StreamType(s),
                    NEW m \in 1..(wire'[i].frame.val - 1)
             PROVE  \E j \in 1..(i - 1) : Whole(wire'[j]) /\ Carries(wire'[j].frame, s, m)
  BY DEF OutputInOrder, Whole
<1>1. CASE i \in DOMAIN wire /\ wire'[i] = wire[i]
  <2>1. PICK j \in 1..(i - 1) : Whole(wire[j]) /\ Carries(wire[j].frame, s, m)
    BY <1>1 DEF OutputInOrder
  <2>2. wire'[j] = wire[j]
    BY <1>1, <2>1, WireEntries
  <2>3. QED
    BY <2>1, <2>2
<1>2. CASE i = Len(wire) + 1 /\ wire'[i] = Entry /\ pc \in Writing /\ frame \in ExecFrames
  <2>1. frame.type = StreamType(s) /\ m \in 1..(frame.val - 1)
    BY <1>2 DEF Entry
  <2>2. pc = "stream" /\ frame.val \in 1..MaxChunks
    BY <1>2, <2>1 DEF AtPoint, Writing, Exit, Denied, ExecFrames, StreamType, Srcs
  <2>3. Delivered(s, m)
    BY <2>1, <2>2 DEF ChunkPath, InTimer, InHand, Carries
  <2>4. PICK j \in DOMAIN wire : Whole(wire[j]) /\ Carries(wire[j].frame, s, m)
    BY <2>3 DEF Delivered
  <2>5. j \in 1..(i - 1) /\ wire'[j] = wire[j]
    BY <1>2, <2>4, WireEntries
  <2>6. QED
    BY <2>4, <2>5
<1>3. QED
  BY <1>1, <1>2, WireEntries

Settled ==
    /\ child = "reaped" => child' = "reaped" /\ status' = status
    /\ kill # "none" => kill' = kill

\* A reaped child and a signal sent are facts for good.
LEMMA Settles == ExecTypeOK /\ AtPoint /\ BeforeSpawn /\ [ExecNext]_execVars => Settled
<1>1. ASSUME ExecTypeOK, AtPoint, BeforeSpawn, Refuse PROVE Settled
  BY <1>1 DEF Refuse, BeginWrite, procVars, pipeVars, pastVars, ExecTypeOK, AtPoint, Settled,
    Returned
<1>2. ASSUME ExecTypeOK, AtPoint, BeforeSpawn, SpawnFails PROVE Settled
  BY <1>2 DEF SpawnFails, Return, Leave, DropChild, KillChild, pipeVars, pastVars, ExecTypeOK,
    AtPoint, Settled, Returned
<1>3. ASSUME ExecTypeOK, AtPoint, BeforeSpawn, Spawn PROVE Settled
  BY <1>3 DEF Spawn, pastVars, ExecTypeOK, AtPoint, Settled, Returned, BeforeSpawn
<1>4. ASSUME ExecTypeOK, AtPoint, BeforeSpawn, Recv PROVE Settled
  BY <1>4 DEF Recv, Forward, BeginWrite, procVars, pastVars, ExecTypeOK, AtPoint, Settled, Returned
<1>5. ASSUME ExecTypeOK, AtPoint, BeforeSpawn, RecvNone PROVE Settled
  BY <1>5 DEF RecvNone, StopReceiving, procVars, pipeVars, pastVars, ExecTypeOK, AtPoint, Settled,
    Returned
<1>6. ASSUME ExecTypeOK, AtPoint, BeforeSpawn, Wait PROVE Settled
  BY <1>6 DEF Wait, Reap, BeginWrite, pipeVars, pastVars, ExecTypeOK, AtPoint, Settled, Returned
<1>7. ASSUME ExecTypeOK, AtPoint, BeforeSpawn, WaitFails PROVE Settled
  BY <1>7 DEF WaitFails, Return, Leave, DropChild, KillChild, pipeVars, pastVars, ExecTypeOK,
    AtPoint, Settled, Returned
<1>8. ASSUME ExecTypeOK, AtPoint, BeforeSpawn, CellAccepted PROVE Settled
  BY <1>8 DEF CellAccepted, procVars, pipeVars, pastVars, ExecTypeOK, AtPoint, Settled, Returned
<1>9. ASSUME ExecTypeOK, AtPoint, BeforeSpawn, StreamWritten PROVE Settled
  BY <1>9 DEF StreamWritten, Leave, procVars, pipeVars, pastVars, ExecTypeOK, AtPoint, Settled,
    Returned
<1>10. ASSUME ExecTypeOK, AtPoint, BeforeSpawn, ResultWritten PROVE Settled
  BY <1>10 DEF ResultWritten, LastFrameOut, Return, Leave, DropChild, KillChild, pipeVars,
    ExecTypeOK, AtPoint, Settled, Returned
<1>11. ASSUME ExecTypeOK, AtPoint, BeforeSpawn, WriteFails PROVE Settled
  BY <1>11 DEF WriteFails, Return, Leave, DropChild, KillChild, pipeVars, pastVars, ExecTypeOK,
    AtPoint, Settled, Returned
<1>12. ASSUME ExecTypeOK, AtPoint, BeforeSpawn, Timeout PROVE Settled
  BY <1>12 DEF Timeout, TimesOut, BeginWrite, KillChild, pipeVars, ExecTypeOK, AtPoint, Settled,
    Returned, InTimer
<1>13. ASSUME ExecTypeOK, AtPoint, BeforeSpawn, NEW s \in Srcs, ReaderTakes(s) PROVE Settled
  BY <1>13 DEF ReaderTakes, Takes, taskVars, procVars, pastVars, ExecTypeOK, AtPoint, Settled,
    Returned
<1>14. ASSUME ExecTypeOK, AtPoint, BeforeSpawn, NEW s \in Srcs, ReaderEof(s) \/ ReaderErr(s) PROVE
  Settled
  BY <1>14 DEF ReaderEof, ReaderErr, ReaderEnds, taskVars, procVars, pastVars, ExecTypeOK, AtPoint,
    Settled, Returned
<1>15. ASSUME ExecTypeOK, AtPoint, BeforeSpawn, NEW s \in Srcs, WritesChunk(s) PROVE Settled
  BY <1>15 DEF WritesChunk, taskVars, procVars, pastVars, ExecTypeOK, AtPoint, Settled, Returned
<1>16. ASSUME ExecTypeOK, AtPoint, BeforeSpawn, Forks PROVE Settled
  BY <1>16 DEF Forks, taskVars, pipeVars, pastVars, ExecTypeOK, AtPoint, Settled, Returned
<1>17. ASSUME ExecTypeOK, AtPoint, BeforeSpawn, NEW s \in Srcs, NEW p \in {"child", "heir"},
  Closes(p, s) PROVE Settled
  BY <1>17 DEF Closes, taskVars, pipeVars, pastVars, ExecTypeOK, AtPoint, Settled, Returned
<1>18. ASSUME ExecTypeOK, AtPoint, BeforeSpawn, NEW code \in Codes \cup {Signalled},
  ChildExits(code) PROVE Settled
  BY <1>18 DEF ChildExits, taskVars, pipeVars, pastVars, ExecTypeOK, AtPoint, Settled, Returned
<1>19. ASSUME ExecTypeOK, AtPoint, BeforeSpawn, OrphanReaped PROVE Settled
  BY <1>19 DEF OrphanReaped, taskVars, pipeVars, pastVars, ExecTypeOK, AtPoint, Settled, Returned
<1>20. ASSUME ExecTypeOK, AtPoint, BeforeSpawn, PeerLeaves PROVE Settled
  BY <1>20 DEF PeerLeaves, taskVars, procVars, pipeVars, pastVars, ExecTypeOK, AtPoint, Settled,
    Returned
<1>21. ASSUME ExecTypeOK, AtPoint, BeforeSpawn, UNCHANGED execVars PROVE Settled
  BY <1>21 DEF execVars, taskVars, procVars, pipeVars, pastVars, ExecTypeOK, AtPoint, Settled,
    Returned
<1>22. QED
  BY <1>1, <1>2, <1>3, <1>4, <1>5, <1>6, <1>7, <1>8, <1>9, <1>10, <1>11, <1>12, <1>13, <1>14, <1>15,
    <1>16, <1>17, <1>18, <1>19, <1>20, <1>21 DEF ExecNext, Task, Writes, Readers, Host

\* The exit frames on the wire stay truthful, and so is one that is added.
LEMMA TruthfulStep ==
    ASSUME ExecTypeOK, AtPoint, ExitTruthful, Grows, Settled
    PROVE  ExitTruthful'
<1> SUFFICES ASSUME NEW i \in DOMAIN wire', wire'[i].frame.type = "EXEC_EXIT"
             PROVE  \/ wire'[i].frame.val = status' /\ child' = "reaped"
                    \/ wire'[i].frame.val = TimedOut /\ kill' # "none"
  BY DEF ExitTruthful
<1>1. CASE i \in DOMAIN wire /\ wire'[i] = wire[i]
  BY <1>1 DEF ExitTruthful, Settled
<1>2. CASE wire'[i] = Entry /\ pc \in Writing
  <2>1. frame.type = "EXEC_EXIT" /\ wire'[i].frame.val = frame.val
    BY <1>2 DEF Entry
  <2>2. \/ frame.val = status /\ child = "reaped"
        \/ frame.val = TimedOut /\ kill # "none"
    BY <1>2, <2>1 DEF AtPoint, Writing, Exit, Denied
  <2>3. QED
    BY <2>1, <2>2 DEF Settled
<1>3. QED
  BY <1>1, <1>2, WireEntries

-----------------------------------------------------------------------------
(***************************************************************************)
(* Results.                                                                *)
(***************************************************************************)

ResultAt(i) == IsResult(wire[i]) /\ Whole(wire[i])

\* Where a step ends inside the execution, or in the 124 frame, it came from there.
Inside == InTimer \cup {"check", "denied"}
Pending ==
    /\ pc' \in Inside => pc \in Inside /\ (wire' = wire \/ (pc = "stream" /\ wire' = Append(wire, Entry)))
    /\ pc' = "late" =>
          \/ pc = "late" /\ wire' = wire
          \/ /\ pc \in InTimer /\ wire' = Cut
             /\ Tls \/ put < Size(frame)
             /\ child = "reaped" => kill' = "stray"

\* The control flow of run_one_exec around its results.
LEMMA PendingStep == ExecTypeOK /\ [ExecNext]_execVars => Pending
<1>1. ASSUME ExecTypeOK, Refuse PROVE Pending
  BY <1>1 DEF Refuse, BeginWrite, procVars, pipeVars, pastVars, ExecTypeOK, Pending, Inside,
    InTimer, Returned
<1>2. ASSUME ExecTypeOK, SpawnFails PROVE Pending
  BY <1>2 DEF SpawnFails, Return, Leave, DropChild, KillChild, pipeVars, pastVars, ExecTypeOK,
    Pending, Inside, InTimer, Returned
<1>3. ASSUME ExecTypeOK, Spawn PROVE Pending
  BY <1>3 DEF Spawn, pastVars, ExecTypeOK, Pending, Inside, InTimer, Returned
<1>4. ASSUME ExecTypeOK, Recv PROVE Pending
  BY <1>4 DEF Recv, Forward, BeginWrite, procVars, pastVars, ExecTypeOK, Pending, Inside, InTimer,
    Returned
<1>5. ASSUME ExecTypeOK, RecvNone PROVE Pending
  BY <1>5 DEF RecvNone, StopReceiving, procVars, pipeVars, pastVars, ExecTypeOK, Pending, Inside,
    InTimer, Returned
<1>6. ASSUME ExecTypeOK, Wait PROVE Pending
  BY <1>6 DEF Wait, Reap, BeginWrite, pipeVars, pastVars, ExecTypeOK, Pending, Inside, InTimer,
    Returned
<1>7. ASSUME ExecTypeOK, WaitFails PROVE Pending
  BY <1>7 DEF WaitFails, Return, Leave, DropChild, KillChild, pipeVars, pastVars, ExecTypeOK,
    Pending, Inside, InTimer, Returned
<1>8. ASSUME ExecTypeOK, CellAccepted PROVE Pending
  BY <1>8 DEF CellAccepted, procVars, pipeVars, pastVars, ExecTypeOK, Pending, Inside, InTimer,
    Returned, Writing
<1>9. ASSUME ExecTypeOK, StreamWritten PROVE Pending
  BY <1>9 DEF StreamWritten, Leave, procVars, pipeVars, pastVars, ExecTypeOK, Pending, Inside,
    InTimer, Returned
<1>10. ASSUME ExecTypeOK, ResultWritten PROVE Pending
  BY <1>10 DEF ResultWritten, LastFrameOut, Return, Leave, DropChild, KillChild, pipeVars,
    ExecTypeOK, Pending, Inside, InTimer, Returned
<1>11. ASSUME ExecTypeOK, WriteFails PROVE Pending
  BY <1>11 DEF WriteFails, Return, Leave, DropChild, KillChild, pipeVars, pastVars, ExecTypeOK,
    Pending, Inside, InTimer, Returned
<1>12. ASSUME ExecTypeOK, Timeout PROVE Pending
  BY <1>12 DEF Timeout, TimesOut, BeginWrite, KillChild, pipeVars, ExecTypeOK, Pending, Inside,
    InTimer, Returned
<1>13. ASSUME ExecTypeOK, NEW s \in Srcs, ReaderTakes(s) PROVE Pending
  BY <1>13 DEF ReaderTakes, Takes, taskVars, procVars, pastVars, ExecTypeOK, Pending, Inside,
    InTimer, Returned
<1>14. ASSUME ExecTypeOK, NEW s \in Srcs, ReaderEof(s) \/ ReaderErr(s) PROVE Pending
  BY <1>14 DEF ReaderEof, ReaderErr, ReaderEnds, taskVars, procVars, pastVars, ExecTypeOK, Pending,
    Inside, InTimer, Returned
<1>15. ASSUME ExecTypeOK, NEW s \in Srcs, WritesChunk(s) PROVE Pending
  BY <1>15 DEF WritesChunk, taskVars, procVars, pastVars, ExecTypeOK, Pending, Inside, InTimer,
    Returned
<1>16. ASSUME ExecTypeOK, Forks PROVE Pending
  BY <1>16 DEF Forks, taskVars, pipeVars, pastVars, ExecTypeOK, Pending, Inside, InTimer, Returned
<1>17. ASSUME ExecTypeOK, NEW s \in Srcs, NEW p \in {"child", "heir"}, Closes(p, s) PROVE Pending
  BY <1>17 DEF Closes, taskVars, pipeVars, pastVars, ExecTypeOK, Pending, Inside, InTimer, Returned
<1>18. ASSUME ExecTypeOK, NEW code \in Codes \cup {Signalled}, ChildExits(code) PROVE Pending
  BY <1>18 DEF ChildExits, taskVars, pipeVars, pastVars, ExecTypeOK, Pending, Inside, InTimer,
    Returned
<1>19. ASSUME ExecTypeOK, OrphanReaped PROVE Pending
  BY <1>19 DEF OrphanReaped, taskVars, pipeVars, pastVars, ExecTypeOK, Pending, Inside, InTimer,
    Returned
<1>20. ASSUME ExecTypeOK, PeerLeaves PROVE Pending
  BY <1>20 DEF PeerLeaves, taskVars, procVars, pipeVars, pastVars, ExecTypeOK, Pending, Inside,
    InTimer, Returned
<1>21. ASSUME ExecTypeOK, UNCHANGED execVars PROVE Pending
  BY <1>21 DEF execVars, taskVars, procVars, pipeVars, pastVars, ExecTypeOK, Pending, Inside,
    InTimer, Returned
<1>22. QED
  BY <1>1, <1>2, <1>3, <1>4, <1>5, <1>6, <1>7, <1>8, <1>9, <1>10, <1>11, <1>12, <1>13, <1>14, <1>15,
    <1>16, <1>17, <1>18, <1>19, <1>20, <1>21 DEF ExecNext, Task, Writes, Readers, Host

\* No result is followed by anything, but for the 124 of a timer that cut a flush.
LEMMA ResultStep ==
    ASSUME ExecTypeOK, AtPoint, NoResultYet, SingleResult, Grows, Settled, Pending
    PROVE  NoResultYet' /\ SingleResult'
<1>1. ASSUME NEW i \in 1..Len(wire), wire'[i] = wire[i], IsResult(wire'[i]), Whole(wire'[i])
      PROVE  IsResult(wire[i]) /\ Whole(wire[i])
  BY <1>1
<1>2. ASSUME pc' \in Inside, NEW i \in DOMAIN wire' PROVE ~IsResult(wire'[i]) \/ ~Whole(wire'[i])
  <2>1. CASE wire' = wire
    BY <1>2, <2>1 DEF NoResultYet, Pending, Inside
  <2>2. CASE pc = "stream" /\ i \in 1..Len(wire) /\ wire'[i] = wire[i]
    BY <1>2, <2>2, WireEntries DEF NoResultYet, InTimer
  <2>3. CASE pc = "stream" /\ wire'[i] = Entry
    BY <2>3 DEF AtPoint, Entry, IsResult
  <2>4. QED
    BY <1>2, <2>1, <2>2, <2>3, WireEntries DEF Pending
<1>3. ASSUME pc' = "late", NEW i \in DOMAIN wire', IsResult(wire'[i]), Whole(wire'[i])
      PROVE  i = Len(wire') /\ Tls /\ kill' = "stray"
  <2>1. CASE pc = "late" /\ wire' = wire
    BY <1>3, <2>1 DEF NoResultYet, Settled
  <2>2. CASE pc \in InTimer /\ wire' = wire
    BY <1>3, <2>2 DEF NoResultYet
  <2>3. CASE pc \in InTimer /\ i \in 1..Len(wire) /\ wire'[i] = wire[i]
    BY <1>3, <2>3, WireEntries DEF NoResultYet
  <2>4. CASE pc \in InTimer /\ i = Len(wire) + 1 /\ Len(wire') = Len(wire) + 1 /\ wire'[i] = Entry
              /\ pc \in Writing
    <3>1. pc = "exit"
      BY <1>3, <2>4 DEF AtPoint, Entry, IsResult, InTimer, Writing
    <3>2. put = Size(frame)
      BY <1>3, <2>4 DEF Entry, Whole
    <3>3. child = "reaped"
      BY <3>1 DEF AtPoint
    <3>4. Tls /\ kill' = "stray"
      BY <1>3, <3>1, <3>2, <3>3 DEF Pending, ExecTypeOK, AtPoint
    <3>5. QED
      BY <2>4, <3>4
  <2>5. QED
    BY <1>3, <2>1, <2>2, <2>3, <2>4, WireEntries DEF Pending
<1>4. ASSUME NEW i \in DOMAIN wire', IsResult(wire'[i]), Whole(wire'[i]), i < Len(wire')
      PROVE  Tls /\ kill' = "stray" /\ wire'[i + 1].frame = Exit(TimedOut)
  <2>1. CASE wire' = wire
    BY <1>4, <2>1 DEF SingleResult, Settled
  <2>2. CASE /\ pc \in Writing /\ Len(wire') = Len(wire) + 1 /\ DOMAIN wire' = 1..(Len(wire) + 1)
             /\ \A j \in 1..Len(wire) : wire'[j] = wire[j]
             /\ wire'[Len(wire) + 1] = Entry
    <3>1. Len(wire) \in Nat /\ DOMAIN wire = 1..Len(wire)
      BY WireEntries
    <3>2. i \in 1..Len(wire) /\ IsResult(wire[i]) /\ Whole(wire[i])
      BY <1>4, <2>2, <3>1
    <3>3. CASE i < Len(wire)
      BY <2>2, <3>1, <3>2, <3>3 DEF SingleResult, Settled
    <3>4. CASE i = Len(wire)
      <4>1. pc = "late"
        BY <2>2, <3>1, <3>2 DEF NoResultYet, Writing, InTimer
      <4>2. Tls /\ kill = "stray" /\ frame = Exit(TimedOut)
        BY <3>1, <3>2, <4>1 DEF NoResultYet, AtPoint
      <4>3. QED
        BY <2>2, <3>4, <4>2 DEF Settled, Entry
    <3>5. QED
      BY <3>1, <3>2, <3>3, <3>4
  <2>3. QED
    BY <2>1, <2>2, WireEntries
<1>5. QED
  BY <1>2, <1>3, <1>4 DEF NoResultYet, SingleResult, Inside, IsResult, Whole

-----------------------------------------------------------------------------
(***************************************************************************)
(* The path of a chunk: pipe, channel, frame, wire.                        *)
(***************************************************************************)

Read  == \A s \in Srcs : \A n \in 1..taken[s] : InChan(s, n) \/ InHand(s, n) \/ Delivered(s, n)
Queue == \A i \in DOMAIN chan : \A m \in 1..(chan[i].n - 1) :
            \/ \E j \in 1..(i - 1) : chan[j].src = chan[i].src /\ chan[j].n = m
            \/ InHand(chan[i].src, m)
            \/ Delivered(chan[i].src, m)
Hand  == \A s \in Srcs : \A n \in 1..MaxChunks : InHand(s, n) =>
            \A m \in 1..(n - 1) : Delivered(s, m)

\* What the channel holds are chunks.
LEMMA ChanType ==
    ASSUME ExecTypeOK
    PROVE  \A i \in DOMAIN chan : chan[i].src \in Srcs /\ chan[i].n \in 1..MaxChunks
<1> SUFFICES ASSUME NEW i \in DOMAIN chan
             PROVE  chan[i].src \in Srcs /\ chan[i].n \in 1..MaxChunks
  OBVIOUS
<1>1. chan \in Seq(Chunks)
  BY DEF ExecTypeOK
<1>2. chan[i] \in Chunks
  BY <1>1
<1>3. QED
  BY <1>2 DEF Chunks

\* Spawning starts with an empty channel.
LEMMA PathSpawn ==
    ASSUME ExecTypeOK, BeforeSpawn, Spawn PROVE ChunkPath'
<1>1. pc' = "recv" /\ chan' = <<>> /\ \A s \in Srcs : taken'[s] = 0
  BY DEF Spawn, BeforeSpawn
<1>2. QED
  BY <1>1 DEF ChunkPath, InHand

\* Receiving takes the head: everything before it is delivered already.
LEMMA PathRecv ==
    ASSUME ExecTypeOK, AtPoint, ChunkPath, Recv PROVE ChunkPath'
<1>1. /\ pc = "recv" /\ pc' = "stream" /\ chan # <<>> /\ chan' = Tail(chan) /\ wire' = wire
      /\ taken' = taken /\ frame' = Stream(chan[1])
  BY DEF Recv, Forward, BeginWrite, procVars, ExecTypeOK
<1>2. /\ Len(chan) \in Nat /\ Len(chan) >= 1 /\ DOMAIN chan = 1..Len(chan)
      /\ DOMAIN chan' = 1..(Len(chan) - 1)
      /\ \A i \in 1..(Len(chan) - 1) : chan'[i] = chan[i + 1]
  BY <1>1 DEF ExecTypeOK
<1>3. \A i \in DOMAIN chan : chan[i].src \in Srcs /\ chan[i].n \in 1..MaxChunks
  BY ChanType
<1>4. \A s \in Srcs : \A n : InHand(s, n)' <=> chan[1].src = s /\ chan[1].n = n
  BY <1>1, <1>2, <1>3 DEF InHand, Carries, Stream, StreamType, Srcs
<1>5. \A s \in Srcs : \A n : ~InHand(s, n) /\ (Delivered(s, n)' <=> Delivered(s, n))
  BY <1>1 DEF InHand, Delivered, Whole
<1>6. Read /\ Queue
  BY <1>1 DEF ChunkPath, Read, Queue, InTimer
<1>7. Read'
  <2> SUFFICES ASSUME NEW s \in Srcs, NEW n \in 1..taken[s]
               PROVE  InChan(s, n)' \/ InHand(s, n)' \/ Delivered(s, n)'
    BY <1>1 DEF Read
  <2>1. CASE Delivered(s, n)
    BY <2>1, <1>5
  <2>2. CASE InChan(s, n)
    <3>1. PICK i \in DOMAIN chan : chan[i].src = s /\ chan[i].n = n
      BY <2>2 DEF InChan
    <3>2. CASE i = 1
      BY <3>1, <3>2, <1>4
    <3>3. CASE i # 1
      <4>1. i - 1 \in DOMAIN chan' /\ chan'[i - 1] = chan[i]
        BY <3>1, <3>3, <1>2
      <4>2. QED
        BY <3>1, <4>1 DEF InChan
    <3>4. QED
      BY <3>2, <3>3
  <2>3. QED
    BY <1>5, <1>6, <2>1, <2>2 DEF Read
<1>8. Queue'
  <2> SUFFICES ASSUME NEW i \in DOMAIN chan', NEW r, r = chan'[i].src, NEW m \in 1..(chan'[i].n - 1)
               PROVE  \/ \E j \in 1..(i - 1) : chan'[j].src = r /\ chan'[j].n = m
                      \/ InHand(r, m)'
                      \/ Delivered(r, m)'
    BY DEF Queue, InHand, Delivered
  <2>1. i + 1 \in DOMAIN chan /\ chan'[i] = chan[i + 1] /\ r = chan[i + 1].src /\ r \in Srcs
    BY <1>2, <1>3
  <2>2. CASE Delivered(r, m)
    BY <2>1, <2>2, <1>5
  <2>3. CASE \E j \in 1..i : chan[j].src = r /\ chan[j].n = m
    <3>1. PICK j \in 1..i : chan[j].src = r /\ chan[j].n = m
      BY <2>3
    <3>2. CASE j = 1
      BY <3>1, <3>2, <2>1, <1>4
    <3>3. CASE j # 1
      <4>1. j - 1 \in 1..(i - 1) /\ chan'[j - 1] = chan[j]
        BY <3>1, <3>3, <1>2
      <4>2. QED
        BY <3>1, <4>1, <2>1
    <3>4. QED
      BY <3>2, <3>3
  <2>4. \/ \E j \in 1..i : chan[j].src = r /\ chan[j].n = m
        \/ InHand(r, m)
        \/ Delivered(r, m)
    <3>1. i \in Nat /\ (i + 1) - 1 = i
      BY <1>2
    <3>2. \/ \E j \in 1..((i + 1) - 1) : chan[j].src = chan[i + 1].src /\ chan[j].n = m
          \/ InHand(chan[i + 1].src, m) \/ Delivered(chan[i + 1].src, m)
      BY <1>6, <2>1 DEF Queue
    <3>3. QED
      BY <2>1, <3>1, <3>2
  <2>5. QED
    BY <1>5, <2>1, <2>2, <2>3, <2>4
<1>9. Hand'
  <2> SUFFICES ASSUME NEW s \in Srcs, NEW n \in 1..MaxChunks, InHand(s, n)', NEW m \in 1..(n - 1)
               PROVE  Delivered(s, m)'
    BY DEF Hand
  <2>1. chan[1].src = s /\ chan[1].n = n /\ 1 \in DOMAIN chan
    BY <1>2, <1>4
  <2>2. Delivered(s, m)
    BY <2>1, <1>5, <1>6 DEF Queue
  <2>3. QED
    BY <2>2, <1>5
<1>10. QED
  BY <1>7, <1>8, <1>9 DEF ChunkPath, Read, Queue, Hand

\* A written stream frame delivers the chunk it carries.
LEMMA PathWritten ==
    ASSUME ExecTypeOK, AtPoint, ChunkPath, StreamWritten PROVE ChunkPath'
<1>1. /\ pc = "stream" /\ pc' = "recv" /\ wire' = Append(wire, Entry) /\ put = Size(frame)
      /\ chan' = chan /\ taken' = taken
  BY DEF StreamWritten, Leave, pipeVars
<1>2. Grows
  BY <1>1, SizeBounds DEF Grows, ExecTypeOK
<1>3. \A s \in Srcs : \A n : InHand(s, n) \/ Delivered(s, n) => Delivered(s, n)'
  BY <1>1, <1>2, DeliveredGrows, DeliveredWhole DEF InHand
<1>4. Read /\ Queue
  BY <1>1 DEF ChunkPath, Read, Queue, InTimer
<1>5. \A i \in DOMAIN chan : chan[i].src \in Srcs
  BY ChanType
<1>6. Read'
  BY <1>1, <1>3, <1>4 DEF Read, InChan
<1>7. Queue'
  BY <1>1, <1>3, <1>4, <1>5 DEF Queue
<1>8. Hand'
  BY <1>1 DEF Hand, InHand
<1>9. QED
  BY <1>6, <1>7, <1>8 DEF ChunkPath, Read, Queue, Hand

\* A reader appends the chunk after those that are on their way.
LEMMA PathTakes ==
    ASSUME ExecTypeOK, AtPoint, ChunkPath, NEW s \in Srcs, ReaderTakes(s) PROVE ChunkPath'
<1> SUFFICES ASSUME pc \in InTimer PROVE ChunkPath'
  BY DEF ChunkPath, ReaderTakes, Takes, taskVars
<1>1. /\ UNCHANGED <<pc, frame, wire>> /\ taken' = [taken EXCEPT ![s] = @ + 1]
      /\ chan' = Append(chan, NextChunk(s)) /\ taken[s] < made[s]
  BY DEF ReaderTakes, Takes, taskVars, RxOpen
<1>2. NextChunk(s) \in Chunks /\ chan \in Seq(Chunks)
  BY <1>1, NextChunkType DEF ExecTypeOK
<1>3. /\ Len(chan) \in Nat /\ DOMAIN chan = 1..Len(chan) /\ DOMAIN chan' = 1..(Len(chan) + 1)
      /\ \A i \in 1..Len(chan) : chan'[i] = chan[i]
      /\ chan'[Len(chan) + 1] = NextChunk(s)
  BY <1>1, <1>2, AppendFacts
<1>4. NextChunk(s).src = s /\ NextChunk(s).n = taken[s] + 1
  BY DEF NextChunk
<1>5. \A r, n : /\ InHand(r, n)' <=> InHand(r, n)
                /\ Delivered(r, n)' <=> Delivered(r, n)
                /\ InChan(r, n) => InChan(r, n)'
  BY <1>1, <1>3 DEF InHand, Delivered, InChan, Whole
<1>6. Read /\ Queue /\ Hand
  BY DEF ChunkPath, Read, Queue, Hand
<1>7. \A r \in Srcs : taken[r] \in Nat
  BY ExecAssumption DEF ExecTypeOK
<1>8. \A n : n = taken[s] + 1 => InChan(s, n)'
  BY <1>3, <1>4 DEF InChan
<1>9. Read'
  <2> SUFFICES ASSUME NEW r \in Srcs, NEW n \in 1..taken'[r]
               PROVE  InChan(r, n)' \/ InHand(r, n)' \/ Delivered(r, n)'
    BY DEF Read
  <2>1. n \in 1..taken[r] \/ (r = s /\ n = taken[s] + 1)
    BY <1>1, <1>7 DEF ExecTypeOK
  <2>2. QED
    BY <1>5, <1>6, <1>8, <2>1 DEF Read
<1>10. Queue'
  <2> SUFFICES ASSUME NEW i \in DOMAIN chan', NEW r, r = chan'[i].src, NEW m \in 1..(chan'[i].n - 1)
               PROVE  \/ \E j \in 1..(i - 1) : chan'[j].src = r /\ chan'[j].n = m
                      \/ InHand(r, m)'
                      \/ Delivered(r, m)'
    BY DEF Queue, InHand, Delivered
  <2>1. CASE i \in 1..Len(chan)
    <3>1. chan'[i] = chan[i] /\ r = chan[i].src /\ \A j \in 1..(i - 1) : chan'[j] = chan[j]
      BY <1>3, <2>1
    <3>2. QED
      BY <1>3, <1>5, <1>6, <2>1, <3>1 DEF Queue
  <2>2. CASE i = Len(chan) + 1
    <3>1. r = s /\ m \in 1..taken[s]
      BY <1>3, <1>4, <1>7, <2>2
    <3>2. CASE InChan(s, m)
      <4>1. PICK j \in 1..Len(chan) : chan[j].src = s /\ chan[j].n = m
        BY <1>3, <3>2 DEF InChan
      <4>2. j \in 1..(i - 1) /\ chan'[j] = chan[j]
        BY <1>3, <2>2, <4>1
      <4>3. QED
        BY <3>1, <4>1, <4>2
    <3>3. QED
      BY <1>5, <1>6, <3>1, <3>2 DEF Read
  <2>3. QED
    BY <1>3, <2>1, <2>2
<1>11. Hand'
  BY <1>5, <1>6 DEF Hand
<1>12. QED
  BY <1>9, <1>10, <1>11 DEF ChunkPath, Read, Queue, Hand

\* Nothing else moves a chunk while the execution runs.
LEMMA PathStays ==
    ASSUME ChunkPath, UNCHANGED <<wire, chan, taken>>, pc' \in InTimer => pc \in InTimer,
           \A s, n : InHand(s, n)' <=> InHand(s, n)
    PROVE  ChunkPath'
<1>1. \A s, n : /\ Delivered(s, n)' <=> Delivered(s, n)
                /\ InChan(s, n)' <=> InChan(s, n)
  BY DEF Delivered, InChan, Whole
<1>2. QED
  BY <1>1 DEF ChunkPath

\* A chunk that was read is never lost or overtaken while the execution runs.
LEMMA PathStep == ExecTypeOK /\ AtPoint /\ BeforeSpawn /\ ChunkPath /\ [ExecNext]_execVars =>
  ChunkPath'
<1>1. ASSUME ExecTypeOK, AtPoint, BeforeSpawn, ChunkPath, Refuse PROVE ChunkPath'
  <2>1. pc' \notin InTimer
    BY <1>1 DEF Refuse, BeginWrite, procVars, pipeVars, pastVars, InTimer, Returned
  <2>2. QED
    BY <2>1 DEF ChunkPath
<1>2. ASSUME ExecTypeOK, AtPoint, BeforeSpawn, ChunkPath, SpawnFails PROVE ChunkPath'
  <2>1. pc' \notin InTimer
    BY <1>2 DEF SpawnFails, Return, Leave, DropChild, KillChild, pipeVars, pastVars, InTimer, Returned
  <2>2. QED
    BY <2>1 DEF ChunkPath
<1>3. ASSUME ExecTypeOK, AtPoint, BeforeSpawn, ChunkPath, Spawn PROVE ChunkPath'
  BY <1>3, PathSpawn
<1>4. ASSUME ExecTypeOK, AtPoint, BeforeSpawn, ChunkPath, Recv PROVE ChunkPath'
  BY <1>4, PathRecv
<1>5. ASSUME ExecTypeOK, AtPoint, BeforeSpawn, ChunkPath, RecvNone PROVE ChunkPath'
  <2>1. UNCHANGED <<wire, chan, taken>> /\ (pc' \in InTimer => pc \in InTimer)
    BY <1>5 DEF RecvNone, StopReceiving, procVars, pipeVars, pastVars, InTimer, Returned
  <2>2. \A r, n : InHand(r, n)' <=> InHand(r, n)
    BY <1>5 DEF RecvNone, StopReceiving, procVars, pipeVars, pastVars, InHand
  <2>3. QED
    BY <1>5, <2>1, <2>2, PathStays
<1>6. ASSUME ExecTypeOK, AtPoint, BeforeSpawn, ChunkPath, Wait PROVE ChunkPath'
  <2>1. UNCHANGED <<wire, chan, taken>> /\ (pc' \in InTimer => pc \in InTimer)
    BY <1>6 DEF Wait, Reap, BeginWrite, pipeVars, pastVars, InTimer, Returned
  <2>2. \A r, n : InHand(r, n)' <=> InHand(r, n)
    BY <1>6 DEF Wait, Reap, BeginWrite, pipeVars, pastVars, InHand
  <2>3. QED
    BY <1>6, <2>1, <2>2, PathStays
<1>7. ASSUME ExecTypeOK, AtPoint, BeforeSpawn, ChunkPath, WaitFails PROVE ChunkPath'
  <2>1. pc' \notin InTimer
    BY <1>7 DEF WaitFails, Return, Leave, DropChild, KillChild, pipeVars, pastVars, InTimer, Returned
  <2>2. QED
    BY <2>1 DEF ChunkPath
<1>8. ASSUME ExecTypeOK, AtPoint, BeforeSpawn, ChunkPath, CellAccepted PROVE ChunkPath'
  <2>1. UNCHANGED <<wire, chan, taken>> /\ (pc' \in InTimer => pc \in InTimer)
    BY <1>8 DEF CellAccepted, procVars, pipeVars, pastVars, InTimer, Returned
  <2>2. \A r, n : InHand(r, n)' <=> InHand(r, n)
    BY <1>8 DEF CellAccepted, procVars, pipeVars, pastVars, InHand
  <2>3. QED
    BY <1>8, <2>1, <2>2, PathStays
<1>9. ASSUME ExecTypeOK, AtPoint, BeforeSpawn, ChunkPath, StreamWritten PROVE ChunkPath'
  BY <1>9, PathWritten
<1>10. ASSUME ExecTypeOK, AtPoint, BeforeSpawn, ChunkPath, ResultWritten PROVE ChunkPath'
  <2>1. pc' \notin InTimer
    BY <1>10 DEF ResultWritten, LastFrameOut, Return, Leave, DropChild, KillChild, pipeVars, InTimer,
      Returned
  <2>2. QED
    BY <2>1 DEF ChunkPath
<1>11. ASSUME ExecTypeOK, AtPoint, BeforeSpawn, ChunkPath, WriteFails PROVE ChunkPath'
  <2>1. pc' \notin InTimer
    BY <1>11 DEF WriteFails, Return, Leave, DropChild, KillChild, pipeVars, pastVars, InTimer, Returned
  <2>2. QED
    BY <2>1 DEF ChunkPath
<1>12. ASSUME ExecTypeOK, AtPoint, BeforeSpawn, ChunkPath, Timeout PROVE ChunkPath'
  <2>1. pc' \notin InTimer
    BY <1>12 DEF Timeout, TimesOut, BeginWrite, KillChild, pipeVars, InTimer, Returned
  <2>2. QED
    BY <2>1 DEF ChunkPath
<1>13. ASSUME ExecTypeOK, AtPoint, BeforeSpawn, ChunkPath, NEW s \in Srcs, ReaderTakes(s) PROVE
  ChunkPath'
  BY <1>13, PathTakes
<1>14. ASSUME ExecTypeOK, AtPoint, BeforeSpawn, ChunkPath, NEW s \in Srcs, ReaderEof(s) \/
  ReaderErr(s) PROVE ChunkPath'
  <2>1. UNCHANGED <<wire, chan, taken>> /\ (pc' \in InTimer => pc \in InTimer)
    BY <1>14 DEF ReaderEof, ReaderErr, ReaderEnds, taskVars, procVars, pastVars, InTimer, Returned
  <2>2. \A r, n : InHand(r, n)' <=> InHand(r, n)
    BY <1>14 DEF ReaderEof, ReaderErr, ReaderEnds, taskVars, procVars, pastVars, InHand
  <2>3. QED
    BY <1>14, <2>1, <2>2, PathStays
<1>15. ASSUME ExecTypeOK, AtPoint, BeforeSpawn, ChunkPath, NEW s \in Srcs, WritesChunk(s) PROVE
  ChunkPath'
  <2>1. UNCHANGED <<wire, chan, taken>> /\ (pc' \in InTimer => pc \in InTimer)
    BY <1>15 DEF WritesChunk, taskVars, procVars, pastVars, InTimer, Returned
  <2>2. \A r, n : InHand(r, n)' <=> InHand(r, n)
    BY <1>15 DEF WritesChunk, taskVars, procVars, pastVars, InHand
  <2>3. QED
    BY <1>15, <2>1, <2>2, PathStays
<1>16. ASSUME ExecTypeOK, AtPoint, BeforeSpawn, ChunkPath, Forks PROVE ChunkPath'
  <2>1. UNCHANGED <<wire, chan, taken>> /\ (pc' \in InTimer => pc \in InTimer)
    BY <1>16 DEF Forks, taskVars, pipeVars, pastVars, InTimer, Returned
  <2>2. \A r, n : InHand(r, n)' <=> InHand(r, n)
    BY <1>16 DEF Forks, taskVars, pipeVars, pastVars, InHand
  <2>3. QED
    BY <1>16, <2>1, <2>2, PathStays
<1>17. ASSUME ExecTypeOK, AtPoint, BeforeSpawn, ChunkPath, NEW s \in Srcs, NEW p \in {"child",
  "heir"}, Closes(p, s) PROVE ChunkPath'
  <2>1. UNCHANGED <<wire, chan, taken>> /\ (pc' \in InTimer => pc \in InTimer)
    BY <1>17 DEF Closes, taskVars, pipeVars, pastVars, InTimer, Returned
  <2>2. \A r, n : InHand(r, n)' <=> InHand(r, n)
    BY <1>17 DEF Closes, taskVars, pipeVars, pastVars, InHand
  <2>3. QED
    BY <1>17, <2>1, <2>2, PathStays
<1>18. ASSUME ExecTypeOK, AtPoint, BeforeSpawn, ChunkPath, NEW code \in Codes \cup {Signalled},
  ChildExits(code) PROVE ChunkPath'
  <2>1. UNCHANGED <<wire, chan, taken>> /\ (pc' \in InTimer => pc \in InTimer)
    BY <1>18 DEF ChildExits, taskVars, pipeVars, pastVars, InTimer, Returned
  <2>2. \A r, n : InHand(r, n)' <=> InHand(r, n)
    BY <1>18 DEF ChildExits, taskVars, pipeVars, pastVars, InHand
  <2>3. QED
    BY <1>18, <2>1, <2>2, PathStays
<1>19. ASSUME ExecTypeOK, AtPoint, BeforeSpawn, ChunkPath, OrphanReaped PROVE ChunkPath'
  <2>1. UNCHANGED <<wire, chan, taken>> /\ (pc' \in InTimer => pc \in InTimer)
    BY <1>19 DEF OrphanReaped, taskVars, pipeVars, pastVars, InTimer, Returned
  <2>2. \A r, n : InHand(r, n)' <=> InHand(r, n)
    BY <1>19 DEF OrphanReaped, taskVars, pipeVars, pastVars, InHand
  <2>3. QED
    BY <1>19, <2>1, <2>2, PathStays
<1>20. ASSUME ExecTypeOK, AtPoint, BeforeSpawn, ChunkPath, PeerLeaves PROVE ChunkPath'
  <2>1. UNCHANGED <<wire, chan, taken>> /\ (pc' \in InTimer => pc \in InTimer)
    BY <1>20 DEF PeerLeaves, taskVars, procVars, pipeVars, pastVars, InTimer, Returned
  <2>2. \A r, n : InHand(r, n)' <=> InHand(r, n)
    BY <1>20 DEF PeerLeaves, taskVars, procVars, pipeVars, pastVars, InHand
  <2>3. QED
    BY <1>20, <2>1, <2>2, PathStays
<1>21. ASSUME ExecTypeOK, AtPoint, BeforeSpawn, ChunkPath, UNCHANGED execVars PROVE ChunkPath'
  <2>1. UNCHANGED <<wire, chan, taken>> /\ (pc' \in InTimer => pc \in InTimer)
    BY <1>21 DEF execVars, taskVars, procVars, pipeVars, pastVars, InTimer, Returned
  <2>2. \A r, n : InHand(r, n)' <=> InHand(r, n)
    BY <1>21 DEF execVars, taskVars, procVars, pipeVars, pastVars, InHand
  <2>3. QED
    BY <1>21, <2>1, <2>2, PathStays
<1>22. QED
  BY <1>1, <1>2, <1>3, <1>4, <1>5, <1>6, <1>7, <1>8, <1>9, <1>10, <1>11, <1>12, <1>13, <1>14, <1>15,
    <1>16, <1>17, <1>18, <1>19, <1>20, <1>21 DEF ExecNext, Task, Writes, Readers, Host

-----------------------------------------------------------------------------
(***************************************************************************)
(* The end of the output.                                                  *)
(***************************************************************************)

Over == pc \in {"wait", "exit"} \/ audit = "exec_done" \/ kill = "stray"

\* When recv() gives None, all that anybody wrote is on the wire.
LEMMA DrainedByNone ==
    ASSUME ExecTypeOK, ReaderInv, ChunkPath, RecvNone PROVE Drained'
<1>1. /\ pc = "recv" /\ chan = <<>> /\ \A s \in Srcs : reader[s] \in Done
      /\ UNCHANGED <<reader, made, wire>>
  BY DEF RecvNone, StopReceiving, pipeVars
<1>2. \A s \in Srcs : reader[s] \in {"eof", "err"}
  BY <1>1 DEF ReaderInv, Done, Returned
<1>3. \A s \in Srcs : \A n \in 1..taken[s] : Delivered(s, n)
  BY <1>1 DEF ChunkPath, InTimer, InChan, InHand
<1>4. AllSent
  BY <1>2, <1>3 DEF AllSent, ReaderInv
<1>5. AllSent'
  BY <1>1, <1>4 DEF AllSent, Delivered, Whole
<1>6. QED
  BY <1>1, <1>2, <1>5 DEF Drained

\* What is drained stays drained: no reader runs, and a pipe at its end stays empty.
LEMMA DrainedStays ==
    ASSUME ExecTypeOK, AtPoint, ReaderInv, Drained, Over, Grows, UNCHANGED reader,
           \A s \in Srcs : made'[s] = made[s] \/ holds[s] # {}
    PROVE  Drained'
<1>1. \A s \in Srcs : reader[s] \in {"eof", "err"}
  BY DEF Drained, Over
<1>2. AllSent
  BY DEF Drained, Over
<1>3. ASSUME NEW s \in Srcs, reader[s] # "err", NEW n \in 1..made'[s] PROVE Delivered(s, n)'
  <2>1. made'[s] = made[s]
    BY <1>1, <1>3 DEF ReaderInv
  <2>2. Delivered(s, n)
    BY <1>2, <1>3, <2>1 DEF AllSent
  <2>3. QED
    BY <2>2, DeliveredGrows
<1>4. AllSent'
  BY <1>3 DEF AllSent
<1>5. QED
  BY <1>1, <1>4 DEF Drained

\* The execution is over only when its output is, whatever happens meanwhile.
LEMMA DrainedStep == ExecTypeOK /\ AtPoint /\ BeforeSpawn /\ ReaderInv /\ ChunkPath /\ Drained /\
  Grows /\ [ExecNext]_execVars => Drained'
<1>1. ASSUME ExecTypeOK, AtPoint, BeforeSpawn, ReaderInv, ChunkPath, Drained, Grows, Refuse PROVE
  Drained'
  <2>1. Over' => Over
    BY <1>1 DEF Refuse, BeginWrite, procVars, pipeVars, pastVars, Over, Returned, Writing, InTimer,
      Event, AtPoint
  <2>2. UNCHANGED <<reader, made>>
    BY <1>1 DEF Refuse, BeginWrite, procVars, pipeVars, pastVars
  <2>3. QED
    BY <1>1, <2>1, <2>2, DrainedStays DEF Drained, Over
<1>2. ASSUME ExecTypeOK, AtPoint, BeforeSpawn, ReaderInv, ChunkPath, Drained, Grows, SpawnFails
  PROVE Drained'
  <2>1. Over' => Over
    BY <1>2 DEF SpawnFails, Return, Leave, DropChild, KillChild, pipeVars, pastVars, Over, Returned,
      Writing, InTimer, Event, AtPoint
  <2>2. UNCHANGED <<reader, made>>
    BY <1>2 DEF SpawnFails, Return, Leave, DropChild, KillChild, pipeVars, pastVars
  <2>3. QED
    BY <1>2, <2>1, <2>2, DrainedStays DEF Drained, Over
<1>3. ASSUME ExecTypeOK, AtPoint, BeforeSpawn, ReaderInv, ChunkPath, Drained, Grows, Spawn PROVE
  Drained'
  <2>1. ~Over'
    BY <1>3 DEF Spawn, pastVars, Over, AtPoint, Returned
  <2>2. QED
    BY <2>1 DEF Drained, Over
<1>4. ASSUME ExecTypeOK, AtPoint, BeforeSpawn, ReaderInv, ChunkPath, Drained, Grows, Recv PROVE
  Drained'
  <2>1. Over' => Over
    BY <1>4 DEF Recv, Forward, BeginWrite, procVars, pastVars, Over, Returned, Writing, InTimer, Event,
      AtPoint
  <2>2. UNCHANGED <<reader, made>>
    BY <1>4 DEF Recv, Forward, BeginWrite, procVars, pastVars
  <2>3. QED
    BY <1>4, <2>1, <2>2, DrainedStays DEF Drained, Over
<1>5. ASSUME ExecTypeOK, AtPoint, BeforeSpawn, ReaderInv, ChunkPath, Drained, Grows, RecvNone PROVE
  Drained'
  BY <1>5, DrainedByNone
<1>6. ASSUME ExecTypeOK, AtPoint, BeforeSpawn, ReaderInv, ChunkPath, Drained, Grows, Wait PROVE
  Drained'
  <2>1. Over' => Over
    BY <1>6 DEF Wait, Reap, BeginWrite, pipeVars, pastVars, Over, Returned, Writing, InTimer, Event,
      AtPoint
  <2>2. UNCHANGED <<reader, made>>
    BY <1>6 DEF Wait, Reap, BeginWrite, pipeVars, pastVars
  <2>3. QED
    BY <1>6, <2>1, <2>2, DrainedStays DEF Drained, Over
<1>7. ASSUME ExecTypeOK, AtPoint, BeforeSpawn, ReaderInv, ChunkPath, Drained, Grows, WaitFails PROVE
  Drained'
  <2>1. Over' => Over
    BY <1>7 DEF WaitFails, Return, Leave, DropChild, KillChild, pipeVars, pastVars, Over, Returned,
      Writing, InTimer, Event, AtPoint
  <2>2. UNCHANGED <<reader, made>>
    BY <1>7 DEF WaitFails, Return, Leave, DropChild, KillChild, pipeVars, pastVars
  <2>3. QED
    BY <1>7, <2>1, <2>2, DrainedStays DEF Drained, Over
<1>8. ASSUME ExecTypeOK, AtPoint, BeforeSpawn, ReaderInv, ChunkPath, Drained, Grows, CellAccepted
  PROVE Drained'
  <2>1. Over' => Over
    BY <1>8 DEF CellAccepted, procVars, pipeVars, pastVars, Over, Returned, Writing, InTimer, Event,
      AtPoint
  <2>2. UNCHANGED <<reader, made>>
    BY <1>8 DEF CellAccepted, procVars, pipeVars, pastVars
  <2>3. QED
    BY <1>8, <2>1, <2>2, DrainedStays DEF Drained, Over
<1>9. ASSUME ExecTypeOK, AtPoint, BeforeSpawn, ReaderInv, ChunkPath, Drained, Grows, StreamWritten
  PROVE Drained'
  <2>1. Over' => Over
    BY <1>9 DEF StreamWritten, Leave, procVars, pipeVars, pastVars, Over, Returned, Writing, InTimer,
      Event, AtPoint
  <2>2. UNCHANGED <<reader, made>>
    BY <1>9 DEF StreamWritten, Leave, procVars, pipeVars, pastVars
  <2>3. QED
    BY <1>9, <2>1, <2>2, DrainedStays DEF Drained, Over
<1>10. ASSUME ExecTypeOK, AtPoint, BeforeSpawn, ReaderInv, ChunkPath, Drained, Grows, ResultWritten
  PROVE Drained'
  <2>1. Over' => Over
    BY <1>10 DEF ResultWritten, LastFrameOut, Return, Leave, DropChild, KillChild, pipeVars, Over,
      Returned, Writing, InTimer, Event, AtPoint
  <2>2. UNCHANGED <<reader, made>>
    BY <1>10 DEF ResultWritten, LastFrameOut, Return, Leave, DropChild, KillChild, pipeVars
  <2>3. QED
    BY <1>10, <2>1, <2>2, DrainedStays DEF Drained, Over
<1>11. ASSUME ExecTypeOK, AtPoint, BeforeSpawn, ReaderInv, ChunkPath, Drained, Grows, WriteFails
  PROVE Drained'
  <2>1. Over' => Over
    BY <1>11 DEF WriteFails, Return, Leave, DropChild, KillChild, pipeVars, pastVars, Over, Returned,
      Writing, InTimer, Event, AtPoint
  <2>2. UNCHANGED <<reader, made>>
    BY <1>11 DEF WriteFails, Return, Leave, DropChild, KillChild, pipeVars, pastVars
  <2>3. QED
    BY <1>11, <2>1, <2>2, DrainedStays DEF Drained, Over
<1>12. ASSUME ExecTypeOK, AtPoint, BeforeSpawn, ReaderInv, ChunkPath, Drained, Grows, Timeout PROVE
  Drained'
  <2>1. Over' => Over
    BY <1>12 DEF Timeout, TimesOut, BeginWrite, KillChild, pipeVars, Over, Returned, Writing, InTimer,
      Event, AtPoint
  <2>2. UNCHANGED <<reader, made>>
    BY <1>12 DEF Timeout, TimesOut, BeginWrite, KillChild, pipeVars
  <2>3. QED
    BY <1>12, <2>1, <2>2, DrainedStays DEF Drained, Over
<1>13. ASSUME ExecTypeOK, AtPoint, BeforeSpawn, ReaderInv, ChunkPath, Drained, Grows, NEW s \in
  Srcs, ReaderTakes(s) PROVE Drained'
  <2>1. ~Over
    BY <1>13 DEF ReaderTakes, Takes, taskVars, procVars, pastVars, Drained, Over
  <2>2. ~Over'
    BY <1>13, <2>1 DEF ReaderTakes, Takes, taskVars, procVars, pastVars, Over
  <2>3. QED
    BY <2>2 DEF Drained, Over
<1>14. ASSUME ExecTypeOK, AtPoint, BeforeSpawn, ReaderInv, ChunkPath, Drained, Grows, NEW s \in
  Srcs, ReaderEof(s) \/ ReaderErr(s) PROVE Drained'
  <2>1. ~Over
    BY <1>14 DEF ReaderEof, ReaderErr, ReaderEnds, taskVars, procVars, pastVars, Drained, Over
  <2>2. ~Over'
    BY <1>14, <2>1 DEF ReaderEof, ReaderErr, ReaderEnds, taskVars, procVars, pastVars, Over
  <2>3. QED
    BY <2>2 DEF Drained, Over
<1>15. ASSUME ExecTypeOK, AtPoint, BeforeSpawn, ReaderInv, ChunkPath, Drained, Grows, NEW s \in
  Srcs, WritesChunk(s) PROVE Drained'
  <2>1. Over' => Over
    BY <1>15 DEF WritesChunk, taskVars, procVars, pastVars, Over
  <2>2. UNCHANGED reader /\ \A r \in Srcs : made'[r] = made[r] \/ holds[r] # {}
    BY <1>15 DEF WritesChunk, taskVars, procVars, pastVars, ExecTypeOK
  <2>3. QED
    BY <1>15, <2>1, <2>2, DrainedStays DEF Drained, Over
<1>16. ASSUME ExecTypeOK, AtPoint, BeforeSpawn, ReaderInv, ChunkPath, Drained, Grows, Forks PROVE
  Drained'
  <2>1. Over' => Over
    BY <1>16 DEF Forks, taskVars, pipeVars, pastVars, Over, Returned, Writing, InTimer, Event, AtPoint
  <2>2. UNCHANGED <<reader, made>>
    BY <1>16 DEF Forks, taskVars, pipeVars, pastVars
  <2>3. QED
    BY <1>16, <2>1, <2>2, DrainedStays DEF Drained, Over
<1>17. ASSUME ExecTypeOK, AtPoint, BeforeSpawn, ReaderInv, ChunkPath, Drained, Grows, NEW s \in
  Srcs, NEW p \in {"child", "heir"}, Closes(p, s) PROVE Drained'
  <2>1. Over' => Over
    BY <1>17 DEF Closes, taskVars, pipeVars, pastVars, Over, Returned, Writing, InTimer, Event, AtPoint
  <2>2. UNCHANGED <<reader, made>>
    BY <1>17 DEF Closes, taskVars, pipeVars, pastVars
  <2>3. QED
    BY <1>17, <2>1, <2>2, DrainedStays DEF Drained, Over
<1>18. ASSUME ExecTypeOK, AtPoint, BeforeSpawn, ReaderInv, ChunkPath, Drained, Grows, NEW code \in
  Codes \cup {Signalled}, ChildExits(code) PROVE Drained'
  <2>1. Over' => Over
    BY <1>18 DEF ChildExits, taskVars, pipeVars, pastVars, Over, Returned, Writing, InTimer, Event,
      AtPoint
  <2>2. UNCHANGED <<reader, made>>
    BY <1>18 DEF ChildExits, taskVars, pipeVars, pastVars
  <2>3. QED
    BY <1>18, <2>1, <2>2, DrainedStays DEF Drained, Over
<1>19. ASSUME ExecTypeOK, AtPoint, BeforeSpawn, ReaderInv, ChunkPath, Drained, Grows, OrphanReaped
  PROVE Drained'
  <2>1. Over' => Over
    BY <1>19 DEF OrphanReaped, taskVars, pipeVars, pastVars, Over, Returned, Writing, InTimer, Event,
      AtPoint
  <2>2. UNCHANGED <<reader, made>>
    BY <1>19 DEF OrphanReaped, taskVars, pipeVars, pastVars
  <2>3. QED
    BY <1>19, <2>1, <2>2, DrainedStays DEF Drained, Over
<1>20. ASSUME ExecTypeOK, AtPoint, BeforeSpawn, ReaderInv, ChunkPath, Drained, Grows, PeerLeaves
  PROVE Drained'
  <2>1. Over' => Over
    BY <1>20 DEF PeerLeaves, taskVars, procVars, pipeVars, pastVars, Over, Returned, Writing, InTimer,
      Event, AtPoint
  <2>2. UNCHANGED <<reader, made>>
    BY <1>20 DEF PeerLeaves, taskVars, procVars, pipeVars, pastVars
  <2>3. QED
    BY <1>20, <2>1, <2>2, DrainedStays DEF Drained, Over
<1>21. ASSUME ExecTypeOK, AtPoint, BeforeSpawn, ReaderInv, ChunkPath, Drained, Grows, UNCHANGED
  execVars PROVE Drained'
  <2>1. Over' => Over
    BY <1>21 DEF execVars, taskVars, procVars, pipeVars, pastVars, Over, Returned, Writing, InTimer,
      Event, AtPoint
  <2>2. UNCHANGED <<reader, made>>
    BY <1>21 DEF execVars, taskVars, procVars, pipeVars, pastVars
  <2>3. QED
    BY <1>21, <2>1, <2>2, DrainedStays DEF Drained, Over
<1>22. QED
  BY <1>1, <1>2, <1>3, <1>4, <1>5, <1>6, <1>7, <1>8, <1>9, <1>10, <1>11, <1>12, <1>13, <1>14, <1>15,
    <1>16, <1>17, <1>18, <1>19, <1>20, <1>21 DEF ExecNext, Task, Writes, Readers, Host

-----------------------------------------------------------------------------
(***************************************************************************)
(* The theorems.                                                           *)
(***************************************************************************)

\* The initial state satisfies the inductive invariant.
LEMMA InvInit == ExecInit => ExecInv
<1> SUFFICES ASSUME ExecInit PROVE ExecInv
  OBVIOUS
<1>1. ExecTypeOK
  BY ExecAssumption DEF ExecInit, ExecTypeOK, Srcs
<1>2. AtPoint
  BY ExecAssumption DEF ExecInit, AtPoint, Writing, Returned, NoFrame, Size
<1>3. BeforeSpawn /\ ReaderInv
  BY DEF ExecInit, BeforeSpawn, ReaderInv, Srcs
<1>4. ChunkPath /\ Drained
  BY DEF ExecInit, ChunkPath, Drained, InTimer
<1>5. NoResultYet /\ SingleResult /\ OutputInOrder /\ ExitTruthful
  BY DEF ExecInit, NoResultYet, SingleResult, OutputInOrder, ExitTruthful
<1>6. NoShellLeft /\ StrayReaped
  BY DEF ExecInit, NoShellLeft, StrayReaped, Returned
<1>7. QED
  BY <1>1, <1>2, <1>3, <1>4, <1>5, <1>6 DEF ExecInv

\* Every step of every actor preserves it.
LEMMA InvStep == ExecInv /\ [ExecNext]_execVars => ExecInv'
<1> SUFFICES ASSUME ExecInv, [ExecNext]_execVars PROVE ExecInv'
  OBVIOUS
<1>1. ExecTypeOK' /\ AtPoint'
  BY TypeStep, PointStep DEF ExecInv
<1>2. BeforeSpawn' /\ ReaderInv'
  BY BeforeSpawnStep, ReaderStep DEF ExecInv
<1>3. Grows /\ Settled /\ Pending
  BY WireGrows, Settles, PendingStep DEF ExecInv
<1>4. ChunkPath'
  BY PathStep DEF ExecInv
<1>5. Drained'
  BY <1>3, DrainedStep DEF ExecInv
<1>6. OutputInOrder' /\ ExitTruthful'
  BY <1>3, InOrderStep, TruthfulStep DEF ExecInv
<1>7. NoResultYet' /\ SingleResult'
  BY <1>3, ResultStep DEF ExecInv
<1>8. NoShellLeft' /\ StrayReaped'
  BY NoShellLeftStep, StrayStep DEF ExecInv
<1>9. QED
  BY <1>1, <1>2, <1>4, <1>5, <1>6, <1>7, <1>8 DEF ExecInv

\* ExecInv is an invariant of run_one_exec with all the actors around it.
THEOREM Invariance == ExecSpec => []ExecInv
  BY InvInit, InvStep, PTL DEF ExecSpec

\* Every variable of run_one_exec stays within its type (session.rs:169-279).
THEOREM TypeCorrect == ExecSpec => []ExecTypeOK
<1>1. ExecInv => ExecTypeOK
  BY DEF ExecInv
<1>2. QED
  BY <1>1, Invariance, PTL

\* The exit code of the shell follows all the output, however the readers, the
\* channel and the writes interleave (session.rs:238-260).
THEOREM CompleteOutput == ExecSpec => []OutputComplete
<1>1. ExecInv => OutputComplete
  BY DEF ExecInv, Drained, AllSent, OutputComplete
<1>2. QED
  BY <1>1, Invariance, PTL

\* Each stream is written in order and without a gap (session.rs:207-255), also
\* in an execution that is cut off.
THEOREM OrderedOutput == ExecSpec => []OutputInOrder
<1>1. ExecInv => OutputInOrder
  BY DEF ExecInv
<1>2. QED
  BY <1>1, Invariance, PTL

\* Exit frames tell the truth: the status waited for, or 124 after the kill
\* (session.rs:256-259, 264-274).
THEOREM TruthfulExit == ExecSpec => []ExitTruthful
<1>1. ExecInv => ExitTruthful
  BY DEF ExecInv
<1>2. QED
  BY <1>1, Invariance, PTL

\* No return of run_one_exec leaves the shell running (session.rs:198).
THEOREM ShellEnds == ExecSpec => []NoShellLeft
<1>1. ExecInv => NoShellLeft
  BY DEF ExecInv
<1>2. QED
  BY <1>1, Invariance, PTL

\* The signal to a pid that is no longer the shell's happens only after the
\* command and its output are over (session.rs:256, 267-272).
THEOREM StrayKill == ExecSpec => []StrayKillOnlyAtTheEnd
<1>1. ExecInv => StrayKillOnlyAtTheEnd
  BY DEF ExecInv, Drained, AllSent, StrayReaped, StrayKillOnlyAtTheEnd
<1>2. QED
  BY <1>1, Invariance, PTL

\* One result per request, but for the flush the timer cuts off (session.rs:259, 274).
THEOREM OneResult == ExecSpec => []SingleResult
<1>1. ExecInv => SingleResult
  BY DEF ExecInv
<1>2. QED
  BY <1>1, Invariance, PTL
=============================================================================
