---------------------------- MODULE SaoWireProofs ----------------------------
(***************************************************************************)
(* What a client can decode of an execution: SaoExec implements            *)
(* SaoContract, for every number of chunks, size of frame, policy and      *)
(* transport.                                                              *)
(*                                                                         *)
(* ExecInv says that no chunk is lost or overtaken; the contract also      *)
(* needs that none is sent twice (Once), which frames may be on the wire   *)
(* at each point (SentSoFar), that nothing but a result follows a result   *)
(* (ResultsLast), that the shell's code is on the wire only behind all of  *)
(* the output, for good (ExitSettled), and that a refused line leaves      *)
(* nothing but its refusal (Refused).                                      *)
(***************************************************************************)
EXTENDS SaoExecProofs, FiniteSetTheorems

Numbers     == 1..MaxChunks
IsStream(f) == f.type \in {"STREAM_STDOUT", "STREAM_STDERR"}

\* a chunk has one place: in the channel, in hand or on the wire
Once ==
    /\ \A i, j \in DOMAIN chan : chan[i] = chan[j] => i = j
    /\ \A i \in DOMAIN chan : chan[i].n =< taken[chan[i].src]
    /\ \A s \in Srcs, n \in Numbers : InHand(s, n) => n =< taken[s] /\ ~InChan(s, n)
    /\ \A s \in Srcs, n \in Numbers, i \in DOMAIN wire :
          Carries(wire[i].frame, s, n) => n =< taken[s] /\ ~InChan(s, n) /\ ~InHand(s, n)
    /\ \A i, j \in DOMAIN wire :
          IsStream(wire[i].frame) /\ wire[i].frame = wire[j].frame => i = j

\* before a result there is whole output only; a timer may have cut the last frame
SentSoFar ==
    /\ pc \in {"check", "denied"} => wire = <<>> /\ \A s \in Srcs : made[s] = 0
    /\ pc \in InTimer => \A i \in DOMAIN wire : Whole(wire[i]) /\ IsStream(wire[i].frame)
    /\ pc = "late" => \A i \in DOMAIN wire :
          /\ wire[i].frame # Denied
          /\ i < Len(wire) => Whole(wire[i]) /\ IsStream(wire[i].frame)

ResultsLast ==
    \A i, j \in DOMAIN wire : i < j /\ IsResult(wire[i]) => IsResult(wire[j])

Stopped == \A s \in Srcs : reader[s] \in {"eof", "err"}

ExitSettled ==
    \A i \in DOMAIN wire : wire[i].frame.type = "EXEC_EXIT" /\ wire[i].frame.val # TimedOut =>
        wire[i].frame.val = status /\ child = "reaped" /\ Stopped /\ AllSent

Refused ==
    ~check_shell(shell) =>
        /\ pc \in {"check", "denied"} \cup Returned /\ child = "none"
        /\ \A i \in DOMAIN wire : wire[i].frame = Denied

WireInv == ExecInv /\ Once /\ SentSoFar /\ ResultsLast /\ ExitSettled /\ Refused
-----------------------------------------------------------------------------
(***************************************************************************)
(* The steps of an execution, by what they do to the pipes, to the point   *)
(* run_one_exec is at, and to the chunks on their way.                     *)
(***************************************************************************)
Failed == {s \in Srcs : reader[s] = "err"}

Pipes ==
    \/ made' = made /\ Failed' = Failed
    \/ \E s \in Srcs : WritesChunk(s)
    \/ \E s \in Srcs : ReaderErr(s)

Stays ==
    \A s \in Srcs :
        /\ reader[s] \in {"eof", "err"} => reader'[s] = reader[s]
        /\ made'[s] = made[s] \/ holds[s] # {}

Control ==
    \/ pc' = pc /\ wire' = wire
    \/ wire' = wire /\ pc = "check" /\ pc' = "denied"
    \/ wire' = wire /\ pc = "check" /\ pc' \in {"recv", "err"} /\ check_shell(shell)
    \/ wire' = wire /\ pc \in {"recv", "wait"} /\ pc' \in {"stream", "wait", "exit", "err"}
    \/ pc = "stream" /\ pc' = "recv" /\ put = Size(frame) /\ wire' = Append(wire, Entry)
    \/ /\ pc \in {"denied", "exit", "late"} /\ pc' = "ok"
       /\ put = Size(frame) /\ wire' = Append(wire, Entry)
    \/ pc \in Writing /\ pc' = "err" /\ wire' = Cut
    \/ pc \in InTimer /\ pc' = "late" /\ wire' = Cut /\ (Tls \/ put < Size(frame))

Passing ==
    \/ UNCHANGED <<chan, taken, wire>> /\ (pc' = "stream" => pc = "stream" /\ frame' = frame)
    \/ Recv
    \/ UNCHANGED <<chan, taken>> /\ pc \in Writing /\ pc' # "stream" /\ Grows
    \/ \E s \in Srcs : ReaderTakes(s)

NoChild == child = "none" => child' = "none" \/ (pc = "check" /\ check_shell(shell))

Steps == Pipes /\ Stays /\ Control /\ Passing /\ NoChild /\ shell' = shell

\* Each action of SaoExec, as one of these steps.
LEMMA StepKinds == ExecInv /\ [ExecNext]_execVars => Steps
<1> SUFFICES ASSUME ExecInv, [ExecNext]_execVars PROVE Steps
  OBVIOUS
<1>0. ExecTypeOK /\ AtPoint /\ BeforeSpawn
  BY DEF ExecInv
<1>00. put = Size(frame) => put > 0
  BY <1>0, SizeBounds DEF ExecTypeOK
<1>1. ASSUME Refuse PROVE Steps
  <2>1. Pipes /\ Stays
    BY <1>0, <1>1 DEF Pipes, Stays, Failed, BeforeSpawn, ExecTypeOK, Srcs,
      Refuse, BeginWrite, taskVars, procVars, pipeVars, pastVars
  <2>2. Control /\ NoChild /\ shell' = shell
    BY <1>0, <1>1 DEF Control, NoChild, BeforeSpawn, Cut, Writing, InTimer,
      Refuse, BeginWrite, taskVars, procVars, pipeVars, pastVars
  <2>3. Passing
    BY <1>0, <1>00, <1>1 DEF Passing, Grows, Cut, AtPoint, Writing, InTimer,
      Refuse, BeginWrite, taskVars, procVars, pipeVars, pastVars
  <2> QED BY <2>1, <2>2, <2>3 DEF Steps
<1>2. ASSUME SpawnFails PROVE Steps
  <2>1. Pipes /\ Stays
    BY <1>0, <1>2 DEF Pipes, Stays, Failed, BeforeSpawn, ExecTypeOK, Srcs,
      SpawnFails, Return, Leave, DropChild, KillChild, taskVars, procVars, pipeVars, pastVars
  <2>2. Control /\ NoChild /\ shell' = shell
    BY <1>0, <1>2 DEF Control, NoChild, BeforeSpawn, Cut, Writing, InTimer,
      SpawnFails, Return, Leave, DropChild, KillChild, taskVars, procVars, pipeVars, pastVars
  <2>3. Passing
    BY <1>0, <1>00, <1>2 DEF Passing, Grows, Cut, AtPoint, Writing, InTimer,
      SpawnFails, Return, Leave, DropChild, KillChild, taskVars, procVars, pipeVars, pastVars
  <2> QED BY <2>1, <2>2, <2>3 DEF Steps
<1>3. ASSUME Spawn PROVE Steps
  <2>1. Pipes /\ Stays
    BY <1>0, <1>3 DEF Pipes, Stays, Failed, BeforeSpawn, ExecTypeOK, Srcs,
      Spawn, taskVars, procVars, pipeVars, pastVars
  <2>2. Control /\ NoChild /\ shell' = shell
    BY <1>0, <1>3 DEF Control, NoChild, BeforeSpawn, Cut, Writing, InTimer,
      Spawn, taskVars, procVars, pipeVars, pastVars
  <2>3. Passing
    BY <1>0, <1>00, <1>3 DEF Passing, Grows, Cut, AtPoint, Writing, InTimer,
      Spawn, taskVars, procVars, pipeVars, pastVars
  <2> QED BY <2>1, <2>2, <2>3 DEF Steps
<1>4. ASSUME Recv PROVE Steps
  <2>1. Pipes /\ Stays
    BY <1>0, <1>4 DEF Pipes, Stays, Failed, BeforeSpawn, ExecTypeOK, Srcs,
      Recv, Forward, BeginWrite, taskVars, procVars, pipeVars, pastVars
  <2>2. Control /\ NoChild /\ shell' = shell
    BY <1>0, <1>4 DEF Control, NoChild, BeforeSpawn, Cut, Writing, InTimer,
      Recv, Forward, BeginWrite, taskVars, procVars, pipeVars, pastVars
  <2>3. Passing
    BY <1>0, <1>00, <1>4 DEF Passing, Grows, Cut, AtPoint, Writing, InTimer,
      Recv, Forward, BeginWrite, taskVars, procVars, pipeVars, pastVars
  <2> QED BY <2>1, <2>2, <2>3 DEF Steps
<1>5. ASSUME RecvNone PROVE Steps
  <2>1. Pipes /\ Stays
    BY <1>0, <1>5 DEF Pipes, Stays, Failed, BeforeSpawn, ExecTypeOK, Srcs,
      RecvNone, StopReceiving, taskVars, procVars, pipeVars, pastVars
  <2>2. Control /\ NoChild /\ shell' = shell
    BY <1>0, <1>5 DEF Control, NoChild, BeforeSpawn, Cut, Writing, InTimer,
      RecvNone, StopReceiving, taskVars, procVars, pipeVars, pastVars
  <2>3. Passing
    BY <1>0, <1>00, <1>5 DEF Passing, Grows, Cut, AtPoint, Writing, InTimer,
      RecvNone, StopReceiving, taskVars, procVars, pipeVars, pastVars
  <2> QED BY <2>1, <2>2, <2>3 DEF Steps
<1>6. ASSUME Wait PROVE Steps
  <2>1. Pipes /\ Stays
    BY <1>0, <1>6 DEF Pipes, Stays, Failed, BeforeSpawn, ExecTypeOK, Srcs,
      Wait, Reap, BeginWrite, taskVars, procVars, pipeVars, pastVars
  <2>2. Control /\ NoChild /\ shell' = shell
    BY <1>0, <1>6 DEF Control, NoChild, BeforeSpawn, Cut, Writing, InTimer,
      Wait, Reap, BeginWrite, taskVars, procVars, pipeVars, pastVars
  <2>3. Passing
    BY <1>0, <1>00, <1>6 DEF Passing, Grows, Cut, AtPoint, Writing, InTimer,
      Wait, Reap, BeginWrite, taskVars, procVars, pipeVars, pastVars
  <2> QED BY <2>1, <2>2, <2>3 DEF Steps
<1>7. ASSUME WaitFails PROVE Steps
  <2>1. Pipes /\ Stays
    BY <1>0, <1>7 DEF Pipes, Stays, Failed, BeforeSpawn, ExecTypeOK, Srcs,
      WaitFails, Return, Leave, DropChild, KillChild, taskVars, procVars, pipeVars, pastVars
  <2>2. Control /\ NoChild /\ shell' = shell
    BY <1>0, <1>7 DEF Control, NoChild, BeforeSpawn, Cut, Writing, InTimer,
      WaitFails, Return, Leave, DropChild, KillChild, taskVars, procVars, pipeVars, pastVars
  <2>3. Passing
    BY <1>0, <1>00, <1>7 DEF Passing, Grows, Cut, AtPoint, Writing, InTimer,
      WaitFails, Return, Leave, DropChild, KillChild, taskVars, procVars, pipeVars, pastVars
  <2> QED BY <2>1, <2>2, <2>3 DEF Steps
<1>8. ASSUME CellAccepted PROVE Steps
  <2>1. Pipes /\ Stays
    BY <1>0, <1>8 DEF Pipes, Stays, Failed, BeforeSpawn, ExecTypeOK, Srcs,
      CellAccepted, taskVars, procVars, pipeVars, pastVars
  <2>2. Control /\ NoChild /\ shell' = shell
    BY <1>0, <1>8 DEF Control, NoChild, BeforeSpawn, Cut, Writing, InTimer,
      CellAccepted, taskVars, procVars, pipeVars, pastVars
  <2>3. Passing
    BY <1>0, <1>00, <1>8 DEF Passing, Grows, Cut, AtPoint, Writing, InTimer,
      CellAccepted, taskVars, procVars, pipeVars, pastVars
  <2> QED BY <2>1, <2>2, <2>3 DEF Steps
<1>9. ASSUME StreamWritten PROVE Steps
  <2>1. Pipes /\ Stays
    BY <1>0, <1>9 DEF Pipes, Stays, Failed, BeforeSpawn, ExecTypeOK, Srcs,
      StreamWritten, Leave, taskVars, procVars, pipeVars, pastVars
  <2>2. Control /\ NoChild /\ shell' = shell
    BY <1>0, <1>9 DEF Control, NoChild, BeforeSpawn, Cut, Writing, InTimer,
      StreamWritten, Leave, taskVars, procVars, pipeVars, pastVars
  <2>3. Passing
    BY <1>0, <1>00, <1>9 DEF Passing, Grows, Cut, AtPoint, Writing, InTimer,
      StreamWritten, Leave, taskVars, procVars, pipeVars, pastVars
  <2> QED BY <2>1, <2>2, <2>3 DEF Steps
<1>10. ASSUME ResultWritten PROVE Steps
  <2>1. Pipes /\ Stays
    BY <1>0, <1>10 DEF Pipes, Stays, Failed, BeforeSpawn, ExecTypeOK, Srcs,
      ResultWritten, LastFrameOut, Return, Leave, DropChild, KillChild, taskVars, procVars, pipeVars, pastVars
  <2>2. Control /\ NoChild /\ shell' = shell
    BY <1>0, <1>10 DEF Control, NoChild, BeforeSpawn, Cut, Writing, InTimer,
      ResultWritten, LastFrameOut, Return, Leave, DropChild, KillChild, taskVars, procVars, pipeVars, pastVars
  <2>3. Passing
    BY <1>0, <1>00, <1>10 DEF Passing, Grows, Cut, AtPoint, Writing, InTimer,
      ResultWritten, LastFrameOut, Return, Leave, DropChild, KillChild, taskVars, procVars, pipeVars, pastVars
  <2> QED BY <2>1, <2>2, <2>3 DEF Steps
<1>11. ASSUME WriteFails PROVE Steps
  <2>1. Pipes /\ Stays
    BY <1>0, <1>11 DEF Pipes, Stays, Failed, BeforeSpawn, ExecTypeOK, Srcs,
      WriteFails, Return, Leave, DropChild, KillChild, taskVars, procVars, pipeVars, pastVars
  <2>2. Control /\ NoChild /\ shell' = shell
    BY <1>0, <1>11 DEF Control, NoChild, BeforeSpawn, Cut, Writing, InTimer,
      WriteFails, Return, Leave, DropChild, KillChild, taskVars, procVars, pipeVars, pastVars
  <2>3. Passing
    BY <1>0, <1>00, <1>11 DEF Passing, Grows, Cut, AtPoint, Writing, InTimer,
      WriteFails, Return, Leave, DropChild, KillChild, taskVars, procVars, pipeVars, pastVars
  <2> QED BY <2>1, <2>2, <2>3 DEF Steps
<1>12. ASSUME Timeout PROVE Steps
  <2>1. Pipes /\ Stays
    BY <1>0, <1>12 DEF Pipes, Stays, Failed, BeforeSpawn, ExecTypeOK, Srcs,
      Timeout, TimesOut, BeginWrite, KillChild, taskVars, procVars, pipeVars, pastVars
  <2>2. Control /\ NoChild /\ shell' = shell
    BY <1>0, <1>12 DEF Control, NoChild, BeforeSpawn, Cut, Writing, InTimer,
      Timeout, TimesOut, BeginWrite, KillChild, taskVars, procVars, pipeVars, pastVars
  <2>3. Passing
    BY <1>0, <1>00, <1>12 DEF Passing, Grows, Cut, AtPoint, Writing, InTimer,
      Timeout, TimesOut, BeginWrite, KillChild, taskVars, procVars, pipeVars, pastVars
  <2> QED BY <2>1, <2>2, <2>3 DEF Steps
<1>13. ASSUME NEW s \in Srcs, ReaderTakes(s) PROVE Steps
  <2>1. Pipes /\ Stays
    BY <1>0, <1>13 DEF Pipes, Stays, Failed, BeforeSpawn, ExecTypeOK, Srcs,
      ReaderTakes, Takes, taskVars, procVars, pipeVars, pastVars
  <2>2. Control /\ NoChild /\ shell' = shell
    BY <1>0, <1>13 DEF Control, NoChild, BeforeSpawn, Cut, Writing, InTimer,
      ReaderTakes, Takes, taskVars, procVars, pipeVars, pastVars
  <2>3. Passing
    BY <1>0, <1>00, <1>13 DEF Passing, Grows, Cut, AtPoint, Writing, InTimer,
      ReaderTakes, Takes, taskVars, procVars, pipeVars, pastVars
  <2> QED BY <2>1, <2>2, <2>3 DEF Steps
<1>14. ASSUME NEW s \in Srcs, ReaderEof(s) PROVE Steps
  <2>1. Pipes /\ Stays
    BY <1>0, <1>14 DEF Pipes, Stays, Failed, BeforeSpawn, ExecTypeOK, Srcs,
      ReaderEof, ReaderEnds, taskVars, procVars, pipeVars, pastVars
  <2>2. Control /\ NoChild /\ shell' = shell
    BY <1>0, <1>14 DEF Control, NoChild, BeforeSpawn, Cut, Writing, InTimer,
      ReaderEof, ReaderEnds, taskVars, procVars, pipeVars, pastVars
  <2>3. Passing
    BY <1>0, <1>00, <1>14 DEF Passing, Grows, Cut, AtPoint, Writing, InTimer,
      ReaderEof, ReaderEnds, taskVars, procVars, pipeVars, pastVars
  <2> QED BY <2>1, <2>2, <2>3 DEF Steps
<1>15. ASSUME NEW s \in Srcs, ReaderErr(s) PROVE Steps
  <2>1. Pipes /\ Stays
    BY <1>0, <1>15 DEF Pipes, Stays, Failed, BeforeSpawn, ExecTypeOK, Srcs,
      ReaderErr, ReaderEnds, taskVars, procVars, pipeVars, pastVars
  <2>2. Control /\ NoChild /\ shell' = shell
    BY <1>0, <1>15 DEF Control, NoChild, BeforeSpawn, Cut, Writing, InTimer,
      ReaderErr, ReaderEnds, taskVars, procVars, pipeVars, pastVars
  <2>3. Passing
    BY <1>0, <1>00, <1>15 DEF Passing, Grows, Cut, AtPoint, Writing, InTimer,
      ReaderErr, ReaderEnds, taskVars, procVars, pipeVars, pastVars
  <2> QED BY <2>1, <2>2, <2>3 DEF Steps
<1>16. ASSUME NEW s \in Srcs, WritesChunk(s) PROVE Steps
  <2>1. Pipes /\ Stays
    BY <1>0, <1>16 DEF Pipes, Stays, Failed, BeforeSpawn, ExecTypeOK, Srcs,
      WritesChunk, taskVars, procVars, pipeVars, pastVars
  <2>2. Control /\ NoChild /\ shell' = shell
    BY <1>0, <1>16 DEF Control, NoChild, BeforeSpawn, Cut, Writing, InTimer,
      WritesChunk, taskVars, procVars, pipeVars, pastVars
  <2>3. Passing
    BY <1>0, <1>00, <1>16 DEF Passing, Grows, Cut, AtPoint, Writing, InTimer,
      WritesChunk, taskVars, procVars, pipeVars, pastVars
  <2> QED BY <2>1, <2>2, <2>3 DEF Steps
<1>17. ASSUME Forks PROVE Steps
  <2>1. Pipes /\ Stays
    BY <1>0, <1>17 DEF Pipes, Stays, Failed, BeforeSpawn, ExecTypeOK, Srcs,
      Forks, taskVars, procVars, pipeVars, pastVars
  <2>2. Control /\ NoChild /\ shell' = shell
    BY <1>0, <1>17 DEF Control, NoChild, BeforeSpawn, Cut, Writing, InTimer,
      Forks, taskVars, procVars, pipeVars, pastVars
  <2>3. Passing
    BY <1>0, <1>00, <1>17 DEF Passing, Grows, Cut, AtPoint, Writing, InTimer,
      Forks, taskVars, procVars, pipeVars, pastVars
  <2> QED BY <2>1, <2>2, <2>3 DEF Steps
<1>18. ASSUME NEW s \in Srcs, NEW p \in {"child", "heir"}, Closes(p, s) PROVE Steps
  <2>1. Pipes /\ Stays
    BY <1>0, <1>18 DEF Pipes, Stays, Failed, BeforeSpawn, ExecTypeOK, Srcs,
      Closes, taskVars, procVars, pipeVars, pastVars
  <2>2. Control /\ NoChild /\ shell' = shell
    BY <1>0, <1>18 DEF Control, NoChild, BeforeSpawn, Cut, Writing, InTimer,
      Closes, taskVars, procVars, pipeVars, pastVars
  <2>3. Passing
    BY <1>0, <1>00, <1>18 DEF Passing, Grows, Cut, AtPoint, Writing, InTimer,
      Closes, taskVars, procVars, pipeVars, pastVars
  <2> QED BY <2>1, <2>2, <2>3 DEF Steps
<1>19. ASSUME NEW code \in Codes \cup {Signalled}, ChildExits(code) PROVE Steps
  <2>1. Pipes /\ Stays
    BY <1>0, <1>19 DEF Pipes, Stays, Failed, BeforeSpawn, ExecTypeOK, Srcs,
      ChildExits, taskVars, procVars, pipeVars, pastVars
  <2>2. Control /\ NoChild /\ shell' = shell
    BY <1>0, <1>19 DEF Control, NoChild, BeforeSpawn, Cut, Writing, InTimer,
      ChildExits, taskVars, procVars, pipeVars, pastVars
  <2>3. Passing
    BY <1>0, <1>00, <1>19 DEF Passing, Grows, Cut, AtPoint, Writing, InTimer,
      ChildExits, taskVars, procVars, pipeVars, pastVars
  <2> QED BY <2>1, <2>2, <2>3 DEF Steps
<1>20. ASSUME OrphanReaped PROVE Steps
  <2>1. Pipes /\ Stays
    BY <1>0, <1>20 DEF Pipes, Stays, Failed, BeforeSpawn, ExecTypeOK, Srcs,
      OrphanReaped, taskVars, procVars, pipeVars, pastVars
  <2>2. Control /\ NoChild /\ shell' = shell
    BY <1>0, <1>20 DEF Control, NoChild, BeforeSpawn, Cut, Writing, InTimer,
      OrphanReaped, taskVars, procVars, pipeVars, pastVars
  <2>3. Passing
    BY <1>0, <1>00, <1>20 DEF Passing, Grows, Cut, AtPoint, Writing, InTimer,
      OrphanReaped, taskVars, procVars, pipeVars, pastVars
  <2> QED BY <2>1, <2>2, <2>3 DEF Steps
<1>21. ASSUME PeerLeaves PROVE Steps
  <2>1. Pipes /\ Stays
    BY <1>0, <1>21 DEF Pipes, Stays, Failed, BeforeSpawn, ExecTypeOK, Srcs,
      PeerLeaves, taskVars, procVars, pipeVars, pastVars
  <2>2. Control /\ NoChild /\ shell' = shell
    BY <1>0, <1>21 DEF Control, NoChild, BeforeSpawn, Cut, Writing, InTimer,
      PeerLeaves, taskVars, procVars, pipeVars, pastVars
  <2>3. Passing
    BY <1>0, <1>00, <1>21 DEF Passing, Grows, Cut, AtPoint, Writing, InTimer,
      PeerLeaves, taskVars, procVars, pipeVars, pastVars
  <2> QED BY <2>1, <2>2, <2>3 DEF Steps
<1>22. CASE UNCHANGED execVars
  BY <1>22 DEF Steps, Pipes, Stays, Control, Passing, NoChild, Failed, execVars, taskVars,
    procVars, pipeVars, pastVars
<1> QED BY <1>1, <1>2, <1>3, <1>4, <1>5, <1>6, <1>7, <1>8, <1>9, <1>10, <1>11, <1>12, <1>13, <1>14, <1>15, <1>16, <1>17, <1>18, <1>19, <1>20, <1>21, <1>22
   DEF ExecNext, Task, Writes, Readers, Host

-----------------------------------------------------------------------------
(***************************************************************************)
(* Chunks: none is sent twice.                                             *)
(***************************************************************************)

\* A stream frame is a chunk of one of the two pipes, and no other's.
LEMMA StreamFrames ==
    /\ \A f \in ExecFrames : IsStream(f) => \E s \in Srcs, n \in Numbers : Carries(f, s, n)
    /\ \A n : \A f \in ExecFrames, s \in Srcs : Carries(f, s, n) => IsStream(f) /\ n \in Numbers
    /\ \A n : \A f, g \in ExecFrames, s \in Srcs : Carries(f, s, n) /\ Carries(g, s, n) => f = g
    /\ \A f, s, t, m, n : s \in Srcs /\ t \in Srcs /\ Carries(f, s, m) /\ Carries(f, t, n) => s = t /\ m = n
<1>1. \A f \in ExecFrames : IsStream(f) => f.val \in Numbers
  BY DEF ExecFrames, IsStream, Numbers, Denied
<1>2. \A f \in ExecFrames : IsStream(f) => \E s \in Srcs : f.type = StreamType(s)
  BY DEF ExecFrames, IsStream, StreamType, Srcs
<1>3. \A s \in Srcs : StreamType(s) \in {"STREAM_STDOUT", "STREAM_STDERR"}
  BY DEF StreamType, Srcs
<1>4. \A n : \A f \in ExecFrames, s \in Srcs : Carries(f, s, n) => IsStream(f) /\ n \in Numbers
  BY <1>1, <1>3 DEF Carries, IsStream
<1>5. \A f, g \in ExecFrames : f.type = g.type /\ f.val = g.val => f = g
  BY DEF ExecFrames, Denied
<1>6. \A s, t \in Srcs : StreamType(s) = StreamType(t) => s = t
  BY DEF StreamType, Srcs
<1> QED
  BY <1>1, <1>2, <1>4, <1>5, <1>6 DEF Carries

\* The frame in hand, and every frame on the wire, is a frame of an execution.
LEMMA FramesTyped ==
    ASSUME ExecTypeOK, AtPoint
    PROVE  /\ \A i \in DOMAIN wire : wire[i].frame \in ExecFrames
           /\ \A s, n : InHand(s, n) => frame \in ExecFrames
           /\ \A n : \A s \in Srcs : pc \in Writing /\ Carries(frame, s, n) => InHand(s, n)
           /\ pc \in Writing /\ IsStream(frame) => pc = "stream"
<1>1. \A i \in DOMAIN wire : wire[i].frame \in ExecFrames
  <2>1. wire \in Seq(Entries)
    BY CutType
  <2>2. \A i \in DOMAIN wire : wire[i] \in Entries
    BY <2>1
  <2> QED BY <2>2 DEF Entries
<1>2. \A s, n : InHand(s, n) => frame \in ExecFrames
  BY DEF AtPoint, InHand, Writing
<1>3. pc \in Writing /\ IsStream(frame) => pc = "stream"
  BY DEF AtPoint, Writing, IsStream, Exit, Denied
<1>4. \A n : \A s \in Srcs : pc \in Writing /\ Carries(frame, s, n) => InHand(s, n)
  BY <1>3, StreamFrames DEF AtPoint, InHand
<1> QED BY <1>1, <1>2, <1>3, <1>4

\* recv() moves a chunk from the channel into the hand.
LEMMA OnceRecv == ASSUME ExecTypeOK, AtPoint, Once, Recv PROVE Once'
<1>1. /\ chan \in Seq(Chunks) /\ chan # <<>> /\ chan' = Tail(chan) /\ frame' = Stream(chan[1])
      /\ UNCHANGED <<taken, wire>> /\ pc = "recv" /\ pc' = "stream"
  BY DEF ExecTypeOK, Recv, Forward, BeginWrite
<1>2. /\ Len(chan) \in Nat \ {0} /\ DOMAIN chan = 1..Len(chan) /\ DOMAIN chan' = 1..(Len(chan) - 1)
      /\ \A i \in DOMAIN chan' : i + 1 \in DOMAIN chan /\ chan'[i] = chan[i + 1]
      /\ 1 \in DOMAIN chan /\ chan[1] \in Chunks
      /\ \A i \in DOMAIN chan : chan[i] \in Chunks
  BY <1>1
<1>3. \A n : \A s \in Srcs : InHand(s, n)' <=> chan[1].src = s /\ chan[1].n = n
  BY <1>1, <1>2 DEF InHand, Carries, Stream, StreamType, Chunks, Srcs
<1>4. \A n : \A s \in Srcs : InChan(s, n)' => InChan(s, n)
  BY <1>1, <1>2 DEF InChan
<1>5. \A n : \A s \in Srcs : InHand(s, n)' => InChan(s, n)
  BY <1>2, <1>3 DEF InChan
<1>6. \A n : \A s \in Srcs : InHand(s, n)' => ~InChan(s, n)'
  <2> SUFFICES ASSUME NEW i \in DOMAIN chan', chan'[i].src = chan[1].src, chan'[i].n = chan[1].n PROVE FALSE
    BY <1>3 DEF InChan
  <2>1. chan[i + 1] = chan[1]
    BY <1>2 DEF Chunks
  <2> QED BY <2>1, <1>2 DEF Once
<1>7. \A i, j \in DOMAIN chan' : chan'[i] = chan'[j] => i = j
  BY <1>2 DEF Once
<1>8. \A i \in DOMAIN chan' : chan'[i].n =< taken'[chan'[i].src]
  BY <1>1, <1>2 DEF Once
<1>9. \A s \in Srcs, n \in Numbers : InHand(s, n)' => n =< taken'[s] /\ ~InChan(s, n)'
  BY <1>1, <1>2, <1>3, <1>6 DEF Once
<1>10. \A s \in Srcs, n \in Numbers, i \in DOMAIN wire' :
          Carries(wire'[i].frame, s, n) => n =< taken'[s] /\ ~InChan(s, n)' /\ ~InHand(s, n)'
  BY <1>1, <1>4, <1>5 DEF Once
<1>11. \A i, j \in DOMAIN wire' : IsStream(wire'[i].frame) /\ wire'[i].frame = wire'[j].frame => i = j
  BY <1>1 DEF Once
<1> QED BY <1>7, <1>8, <1>9, <1>10, <1>11 DEF Once, Carries, IsStream

\* A frame that leaves the hand goes to the wire.
LEMMA OnceWritten ==
    ASSUME ExecTypeOK, AtPoint, Once, UNCHANGED <<chan, taken>>, pc \in Writing, pc' # "stream", Grows
    PROVE  Once'
<1>1. \A s, n : ~InHand(s, n)'
  BY DEF InHand
<1>2. \A s, n : InChan(s, n)' <=> InChan(s, n)
  BY DEF InChan
<1>3. \A s \in Srcs, n \in Numbers, i \in DOMAIN wire' :
          Carries(wire'[i].frame, s, n) =>
              (i \in DOMAIN wire /\ wire'[i] = wire[i]) \/ (wire'[i] = Entry /\ InHand(s, n))
  BY WireEntries, FramesTyped DEF Entry
<1>4. \A s \in Srcs, n \in Numbers, i \in DOMAIN wire' :
          Carries(wire'[i].frame, s, n) => n =< taken'[s] /\ ~InChan(s, n)' /\ ~InHand(s, n)'
  BY <1>1, <1>2, <1>3 DEF Once
<1>5. ASSUME IsStream(frame), frame \in ExecFrames, NEW i \in DOMAIN wire, wire[i].frame = frame PROVE FALSE
  <2>1. PICK s \in Srcs, n \in Numbers : Carries(frame, s, n)
    BY <1>5, StreamFrames
  <2> QED BY <1>5, <2>1, FramesTyped DEF Once
<1>6. \A i, j \in DOMAIN wire' : IsStream(wire'[i].frame) /\ wire'[i].frame = wire'[j].frame => i = j
  <2>1. CASE wire' = wire
    BY <2>1 DEF Once
  <2>2. CASE wire' # wire
    <3>1. /\ frame \in ExecFrames /\ DOMAIN wire' = 1..(Len(wire) + 1)
          /\ Len(wire) \in Nat /\ DOMAIN wire = 1..Len(wire)
          /\ \A i \in 1..Len(wire) : wire'[i] = wire[i]
          /\ wire'[Len(wire) + 1].frame = frame
      BY <2>2, WireEntries DEF Entry
    <3> QED BY <3>1, <1>5 DEF Once
  <2> QED BY <2>1, <2>2
<1>7. /\ \A i, j \in DOMAIN chan' : chan'[i] = chan'[j] => i = j
      /\ \A i \in DOMAIN chan' : chan'[i].n =< taken'[chan'[i].src]
  BY DEF Once
<1> QED BY <1>1, <1>4, <1>6, <1>7 DEF Once, Carries, IsStream

\* A reader takes the next chunk of its pipe, which nobody has yet.
LEMMA OnceTakes == ASSUME ExecTypeOK, AtPoint, Once, NEW s \in Srcs, ReaderTakes(s) PROVE Once'
<1>1. /\ taken' = [taken EXCEPT ![s] = @ + 1] /\ taken \in [Srcs -> 0..MaxChunks]
      /\ chan' = chan \/ chan' = Append(chan, NextChunk(s))
      /\ UNCHANGED <<pc, frame, wire>> /\ chan \in Seq(Chunks) /\ NextChunk(s) \in Chunks
  BY NextChunkType DEF ExecTypeOK, ReaderTakes, Takes, taskVars
<1>2. /\ \A r \in Srcs : taken[r] =< taken'[r] /\ taken[r] \in Nat /\ taken'[r] \in Nat
      /\ taken'[s] = taken[s] + 1 /\ NextChunk(s).src = s /\ NextChunk(s).n = taken[s] + 1
  BY <1>1, ExecAssumption DEF NextChunk
<1>3. \A i \in DOMAIN chan' : \/ i \in DOMAIN chan /\ chan'[i] = chan[i] /\ chan[i] \in Chunks
                              \/ i = Len(chan) + 1 /\ chan'[i] = NextChunk(s)
  BY <1>1, AppendFacts
<1>4. \A n : \A r \in Srcs : InChan(r, n)' => InChan(r, n) \/ (r = s /\ n = taken[s] + 1)
  BY <1>2, <1>3 DEF InChan
<1>5. \A n : \A r \in Srcs : InHand(r, n)' <=> InHand(r, n)
  BY <1>1 DEF InHand
<1>6. \A i \in DOMAIN chan : chan[i] # NextChunk(s)
  <2> SUFFICES ASSUME NEW i \in DOMAIN chan, chan[i] = NextChunk(s) PROVE FALSE
    OBVIOUS
  <2>1. taken[s] + 1 =< taken[s]
    BY <1>2 DEF Once
  <2> QED BY <2>1, <1>2
<1>7. \A i, j \in DOMAIN chan' : chan'[i] = chan'[j] => i = j
  BY <1>3, <1>6 DEF Once
<1>8. \A i \in DOMAIN chan' : chan'[i].n =< taken'[chan'[i].src]
  BY <1>2, <1>3 DEF Once, Chunks, Numbers
<1>9. \A r \in Srcs, n \in Numbers : InHand(r, n)' => n =< taken'[r] /\ ~InChan(r, n)'
  BY <1>2, <1>4, <1>5 DEF Once, Numbers
<1>10. \A r \in Srcs, n \in Numbers, i \in DOMAIN wire' :
          Carries(wire'[i].frame, r, n) => n =< taken'[r] /\ ~InChan(r, n)' /\ ~InHand(r, n)'
  BY <1>1, <1>2, <1>4, <1>5 DEF Once, Numbers
<1>11. \A i, j \in DOMAIN wire' : IsStream(wire'[i].frame) /\ wire'[i].frame = wire'[j].frame => i = j
  BY <1>1 DEF Once
<1> QED BY <1>7, <1>8, <1>9, <1>10, <1>11 DEF Once, Carries, IsStream

LEMMA OnceStep == ExecTypeOK /\ AtPoint /\ Once /\ Passing => Once'
<1>1. ASSUME Once, UNCHANGED <<chan, taken, wire>>, pc' = "stream" => pc = "stream" /\ frame' = frame
      PROVE  Once'
  <2>1. \A s, n : InHand(s, n)' => InHand(s, n)
    BY <1>1 DEF InHand, Carries
  <2>2. \A s, n : InChan(s, n)' <=> InChan(s, n)
    BY <1>1 DEF InChan
  <2>3. \A s \in Srcs, n \in Numbers : InHand(s, n)' => n =< taken'[s] /\ ~InChan(s, n)'
    BY <1>1, <2>1, <2>2 DEF Once
  <2>4. \A s \in Srcs, n \in Numbers, i \in DOMAIN wire' :
          Carries(wire'[i].frame, s, n) => n =< taken'[s] /\ ~InChan(s, n)' /\ ~InHand(s, n)'
    BY <1>1, <2>1, <2>2 DEF Once
  <2>5. /\ \A i, j \in DOMAIN chan' : chan'[i] = chan'[j] => i = j
        /\ \A i \in DOMAIN chan' : chan'[i].n =< taken'[chan'[i].src]
        /\ \A i, j \in DOMAIN wire' : IsStream(wire'[i].frame) /\ wire'[i].frame = wire'[j].frame => i = j
    BY <1>1 DEF Once
  <2> QED BY <2>3, <2>4, <2>5 DEF Once, Carries, IsStream
<1> QED BY <1>1, OnceRecv, OnceWritten, OnceTakes DEF Passing

-----------------------------------------------------------------------------
(***************************************************************************)
(* Results: what each point may have sent before one, and nothing after.   *)
(***************************************************************************)

\* The wire holds what the point run_one_exec is at allows.
LEMMA SentSoFarStep ==
    ASSUME ExecTypeOK, AtPoint, BeforeSpawn, SentSoFar, Control, Stays, Grows
    PROVE  SentSoFar'
<1>1. ASSUME pc' \in {"check", "denied"} PROVE wire' = <<>> /\ \A s \in Srcs : made'[s] = 0
  <2>1. pc \in {"check", "denied"} /\ wire' = wire
    BY <1>1 DEF Control, InTimer
  <2> QED BY <2>1 DEF SentSoFar, BeforeSpawn, Stays
<1>2. ASSUME pc' \in InTimer, NEW i \in DOMAIN wire' PROVE Whole(wire'[i]) /\ IsStream(wire'[i].frame)
  <2>1. CASE wire' = wire
    <3>1. pc \in InTimer \cup {"check"}
      BY <1>2, <2>1 DEF Control, InTimer, Writing
    <3>2. pc # "check"
      BY <1>2, <2>1 DEF SentSoFar
    <3> QED BY <1>2, <2>1, <3>1, <3>2 DEF SentSoFar
  <2>2. CASE wire' # wire
    <3>1. pc = "stream" /\ put = Size(frame)
      BY <1>2, <2>2 DEF Control, InTimer
    <3>2. \/ i \in DOMAIN wire /\ wire'[i] = wire[i]
          \/ wire'[i] = Entry
      BY <2>2, <1>2, WireEntries
    <3>3. Whole(Entry) /\ IsStream(Entry.frame)
      BY <3>1 DEF Whole, Entry, AtPoint, IsStream
    <3> QED BY <3>1, <3>2, <3>3 DEF SentSoFar, InTimer
  <2> QED BY <2>1, <2>2
<1>3. ASSUME pc' = "late", NEW i \in DOMAIN wire'
      PROVE  /\ wire'[i].frame # Denied
             /\ i < Len(wire') => Whole(wire'[i]) /\ IsStream(wire'[i].frame)
  <2>1. CASE pc = "late" /\ wire' = wire
    BY <1>3, <2>1 DEF SentSoFar
  <2>2. CASE pc \in InTimer
    <3>1. \A j \in DOMAIN wire : Whole(wire[j]) /\ IsStream(wire[j].frame) /\ wire[j].frame # Denied
      BY <2>2 DEF SentSoFar, IsStream, Denied
    <3>2. \/ i \in DOMAIN wire /\ wire'[i] = wire[i]
          \/ wire'[i] = Entry /\ i = Len(wire') /\ pc \in Writing
      BY <1>3, WireEntries
    <3>3. pc \in Writing => frame # Denied
      BY <2>2 DEF AtPoint, Writing, InTimer, Denied, Exit
    <3> QED BY <1>3, <3>1, <3>2, <3>3, WireEntries DEF Entry
  <2> QED BY <1>3, <2>1, <2>2 DEF Control, Writing, InTimer
<1> QED BY <1>1, <1>2, <1>3 DEF SentSoFar, Whole, IsStream

\* Nothing but the timer's answer follows a result.
LEMMA ResultsLastStep ==
    ASSUME ExecTypeOK, AtPoint, SentSoFar, ResultsLast, Grows
    PROVE  ResultsLast'
<1> SUFFICES ASSUME NEW i \in DOMAIN wire', NEW j \in DOMAIN wire', i < j, IsResult(wire'[i])
             PROVE  IsResult(wire'[j])
  BY DEF ResultsLast, IsResult
<1>1. CASE j \in DOMAIN wire
  <2>1. i \in DOMAIN wire /\ wire'[i] = wire[i] /\ wire'[j] = wire[j]
    BY <1>1, WireEntries
  <2> QED BY <1>1, <2>1 DEF ResultsLast
<1>2. CASE j \notin DOMAIN wire
  <2>1. i \in DOMAIN wire /\ wire'[i] = wire[i] /\ wire'[j] = Entry /\ pc \in Writing
    BY <1>2, WireEntries
  <2>2. ~IsStream(wire[i].frame) /\ wire # <<>>
    BY <2>1 DEF IsResult, IsStream
  <2>3. pc = "late"
    BY <2>1, <2>2 DEF SentSoFar, Writing, InTimer
  <2> QED BY <2>1, <2>3 DEF AtPoint, Entry, IsResult, Exit
<1> QED BY <1>1, <1>2

\* What the exit code of the shell stands for is settled for good.
LEMMA ExitSettledStep ==
    ASSUME ExecTypeOK, AtPoint, ReaderInv, Drained, ExitSettled, Grows, Settled, Stays
    PROVE  ExitSettled'
<1>1. ASSUME child = "reaped", Stopped, AllSent
      PROVE  child' = "reaped" /\ status' = status /\ Stopped' /\ AllSent'
  <2>1. \A s \in Srcs : reader'[s] = reader[s] /\ reader[s] \in {"eof", "err"}
    BY <1>1 DEF Stopped, Stays
  <2>2. Stopped'
    BY <2>1 DEF Stopped
  <2>3. ASSUME NEW s \in Srcs, reader'[s] # "err", NEW n \in 1..made'[s] PROVE Delivered(s, n)'
    <3>1. made'[s] = made[s]
      BY <2>1, <2>3 DEF ReaderInv, Stays
    <3> QED BY <1>1, <2>1, <2>3, <3>1, DeliveredGrows DEF AllSent
  <2>4. AllSent'
    BY <2>3 DEF AllSent
  <2> QED BY <1>1, <2>2, <2>4 DEF Settled
<1> SUFFICES ASSUME NEW i \in DOMAIN wire', wire'[i].frame.type = "EXEC_EXIT", wire'[i].frame.val # TimedOut
             PROVE  wire'[i].frame.val = status' /\ child' = "reaped" /\ Stopped' /\ AllSent'
  BY DEF ExitSettled
<1>2. CASE i \in DOMAIN wire /\ wire'[i] = wire[i]
  BY <1>1, <1>2 DEF ExitSettled
<1>3. CASE wire'[i] = Entry /\ pc \in Writing
  <2>1. pc = "exit" /\ wire'[i].frame = Exit(status) /\ child = "reaped"
    BY <1>3 DEF Entry, AtPoint, Writing, Denied, Exit, TimedOut
  <2>2. Stopped /\ AllSent
    BY <2>1 DEF Drained, Stopped
  <2> QED BY <1>1, <2>1, <2>2 DEF Exit
<1> QED BY <1>2, <1>3, WireEntries

\* A refused line is only ever refused.
LEMMA RefusedStep ==
    ASSUME ExecTypeOK, AtPoint, Refused, Control, NoChild, Grows, shell' = shell
    PROVE  Refused'
<1> SUFFICES ASSUME ~check_shell(shell)
             PROVE  /\ pc' \in {"check", "denied"} \cup Returned /\ child' = "none"
                    /\ \A i \in DOMAIN wire' : wire'[i].frame = Denied
  BY DEF Refused, check_shell
<1>1. /\ pc \in {"check", "denied"} \cup Returned /\ child = "none"
      /\ \A i \in DOMAIN wire : wire[i].frame = Denied
  BY DEF Refused
<1>2. pc' \in {"check", "denied"} \cup Returned
  BY <1>1 DEF Control, Returned, InTimer
<1>3. child' = "none"
  BY <1>1 DEF NoChild
<1>4. pc \in Writing => frame = Denied
  BY <1>1 DEF AtPoint, Writing, Returned
<1> QED BY <1>1, <1>2, <1>3, <1>4, WireEntries DEF Entry

\* The initial state.
LEMMA WireInit == ExecInit => WireInv
<1> SUFFICES ASSUME ExecInit PROVE WireInv
  OBVIOUS
<1>1. Once
  BY DEF ExecInit, Once, InHand
<1>2. SentSoFar /\ ResultsLast /\ ExitSettled
  BY DEF ExecInit, SentSoFar, ResultsLast, ExitSettled, InTimer
<1>3. Refused
  BY DEF ExecInit, Refused
<1> QED BY <1>1, <1>2, <1>3, InvInit DEF WireInv

\* Every step of every actor.
LEMMA WireStep == WireInv /\ [ExecNext]_execVars => WireInv'
<1> SUFFICES ASSUME WireInv, [ExecNext]_execVars PROVE WireInv'
  OBVIOUS
<1>1. ExecInv /\ ExecInv' /\ Steps
  BY InvStep, StepKinds DEF WireInv
<1>2. Grows /\ Settled
  BY <1>1, WireGrows, Settles DEF ExecInv
<1>3. Once'
  BY <1>1, OnceStep DEF WireInv, ExecInv, Steps
<1>4. SentSoFar'
  BY <1>1, <1>2, SentSoFarStep DEF WireInv, ExecInv, Steps
<1>5. ResultsLast'
  BY <1>1, <1>2, ResultsLastStep DEF WireInv, ExecInv
<1>6. ExitSettled'
  BY <1>1, <1>2, ExitSettledStep DEF WireInv, ExecInv, Steps
<1>7. Refused'
  BY <1>1, <1>2, RefusedStep DEF WireInv, ExecInv, Steps
<1> QED BY <1>1, <1>3, <1>4, <1>5, <1>6, <1>7 DEF WireInv

\* WireInv is an invariant of run_one_exec with all the actors around it.
THEOREM WireInvariance == ExecSpec => []WireInv
  BY WireInit, WireStep, PTL DEF ExecSpec

-----------------------------------------------------------------------------
(***************************************************************************)
(* What can be decoded, and how many frames of a kind it has.              *)
(***************************************************************************)
AllWhole == \A i \in DOMAIN wire : Whole(wire[i])

\* The decodable frames, while nothing was cut, are the frames on the wire.
LEMMA DecodableIs ==
    ASSUME ExecTypeOK
    PROVE  /\ Intact = DOMAIN wire <=> AllWhole
           /\ AllWhole => DOMAIN Decodable = DOMAIN wire
                          /\ \A i \in DOMAIN wire : Decodable[i] = wire[i].frame
           /\ MoreToCome <=> pc \notin Returned /\ AllWhole
<1>1. Len(wire) \in Nat /\ DOMAIN wire = 1..Len(wire)
  BY DEF ExecTypeOK
<1>2. Intact = DOMAIN wire <=> AllWhole
  BY <1>1 DEF Intact, AllWhole
<1> QED BY <1>2 DEF Decodable, MoreToCome

\* What is on the wire are entries: some cells of a frame each.
LEMMA WireTyped ==
    ASSUME ExecTypeOK
    PROVE  /\ wire \in Seq(Entries) /\ Len(wire) \in Nat /\ DOMAIN wire = 1..Len(wire)
           /\ \A i \in DOMAIN wire : wire[i].frame \in ExecFrames
<1>1. wire \in Seq(Entries)
  BY DEF ExecTypeOK, Entries
<1>2. \A i \in DOMAIN wire : wire[i] \in Entries
  BY <1>1
<1> QED BY <1>1, <1>2 DEF Entries

\* While the wire stays, so does what can be decoded.
LEMMA DecodableStays ==
    ASSUME wire' = wire PROVE Decodable' = Decodable /\ Intact' = Intact
  BY DEF Decodable, Intact, Whole

\* A sequence is the function of its elements.
LEMMA SeqIsFcn == ASSUME NEW S, NEW q \in Seq(S), NEW n \in Nat, DOMAIN q = 1..n PROVE q = [i \in 1..n |-> q[i]]
<1>1. \E k \in Nat : q \in [1..k -> S]
  OBVIOUS
<1> QED BY <1>1

\* A frame that arrives whole behind whole frames is one more to decode.
LEMMA DecodableWhole ==
    ASSUME ExecTypeOK, AtPoint, AllWhole, wire' = Append(wire, Entry), put = Size(frame)
    PROVE  Decodable' = Append(Decodable, frame)
<1>1. put > 0
  BY SizeBounds DEF ExecTypeOK
<1>2. wire \in Seq(Entries) /\ Entry \in Entries
  BY <1>1, CutType
<1>3. /\ Len(wire) \in Nat /\ DOMAIN wire = 1..Len(wire)
      /\ DOMAIN wire' = 1..(Len(wire) + 1)
      /\ \A i \in 1..Len(wire) : wire'[i] = wire[i]
      /\ wire'[Len(wire) + 1] = Entry
  BY <1>2, AppendFacts
<1>4. Intact' = 1..(Len(wire) + 1)
  BY <1>3 DEF Intact, AllWhole, Whole, Entry
<1>5. Decodable' = [i \in 1..(Len(wire) + 1) |-> wire'[i].frame]
  BY <1>4 DEF Decodable
<1>6. Intact = 1..Len(wire)
  BY <1>3 DEF Intact, AllWhole
<1>7. Decodable = [i \in 1..Len(wire) |-> wire[i].frame]
  BY <1>6 DEF Decodable
<1>8. \A i \in 1..Len(wire) : wire[i].frame \in ExecFrames
  BY WireTyped
<1>9. Decodable \in Seq(ExecFrames) /\ Len(Decodable) = Len(wire)
  BY <1>3, <1>7, <1>8
<1>10. frame \in ExecFrames
  BY <1>2 DEF Entry, Entries
<1> DEFINE longer == Append(Decodable, frame)
<1>11. /\ longer \in Seq(ExecFrames) /\ DOMAIN longer = 1..(Len(wire) + 1)
       /\ \A i \in 1..Len(wire) : longer[i] = Decodable[i]
       /\ longer[Len(wire) + 1] = frame
  BY <1>9, <1>10, AppendFacts
<1> HIDE DEF longer
<1>12. \A i \in 1..(Len(wire) + 1) : wire'[i].frame = longer[i]
  BY <1>3, <1>7, <1>11 DEF Entry
<1>13. longer = [i \in 1..(Len(wire) + 1) |-> longer[i]]
  BY <1>3, <1>11, SeqIsFcn
<1>14. Decodable' = longer
  BY <1>5, <1>12, <1>13
<1> QED BY <1>14 DEF longer

\* A frame that arrives cut, or behind a cut frame, cannot be decoded.
LEMMA DecodableCut ==
    ASSUME ExecTypeOK, AtPoint, Grows, wire' # wire, ~AllWhole \/ put # Size(frame)
    PROVE  Decodable' = Decodable /\ ~AllWhole'
<1>1. /\ Len(wire) \in Nat /\ DOMAIN wire = 1..Len(wire)
      /\ DOMAIN wire' = 1..(Len(wire) + 1)
      /\ \A i \in 1..Len(wire) : wire'[i] = wire[i]
      /\ wire'[Len(wire) + 1] = Entry
  BY WireEntries
<1>2. PICK k \in DOMAIN wire' : ~Whole(wire'[k])
  BY <1>1 DEF AllWhole, Whole, Entry
<1>3. Len(wire) + 1 \notin Intact'
  BY <1>1 DEF Intact, AllWhole, Whole, Entry
<1>4. Intact' = Intact
  BY <1>1, <1>3 DEF Intact, Whole
<1>5. \A i \in Intact : wire'[i] = wire[i]
  BY <1>1 DEF Intact
<1>6. Decodable' = Decodable
  BY <1>4, <1>5 DEF Decodable
<1> QED BY <1>2, <1>6 DEF AllWhole, Whole

Holding(types) == {i \in DOMAIN wire : wire[i].frame.type \in types}

\* The contract's Cardinality is the one of FiniteSets.
LEMMA SameCardinality == \A S : Contract!Cardinality(S) = Cardinality(S)
  BY DEF Contract!Cardinality, Cardinality

\* The contract counts the frames on the wire.
LEMMA CountHolding ==
    ASSUME ExecTypeOK, AllWhole, NEW types PROVE Contract!Count(types) = Cardinality(Holding(types))
<1>1. {i \in DOMAIN Decodable : Decodable[i].type \in types} = Holding(types)
  BY DecodableIs DEF Holding
<1> QED BY <1>1, SameCardinality DEF Contract!Count

\* The frames of a stream are as many as the last of their numbers.
LEMMA CountStream ==
    ASSUME ExecTypeOK, AllWhole, Once, NEW s \in Srcs, NEW v \in Nat,
           \A m \in 1..v : Delivered(s, m),
           \A i \in DOMAIN wire, m \in Numbers : Carries(wire[i].frame, s, m) => m =< v
    PROVE  Contract!Count({StreamType(s)}) = v
<1> DEFINE H == Holding({StreamType(s)})
           f == [i \in H |-> wire[i].frame.val]
<1>2. \A i \in DOMAIN wire : wire[i].frame \in ExecFrames
  BY WireTyped
<1>3. \A i \in H : i \in DOMAIN wire /\ Carries(wire[i].frame, s, wire[i].frame.val)
  BY DEF Holding, Carries
<1>4. \A i \in H : wire[i].frame.val \in Numbers /\ IsStream(wire[i].frame)
  BY <1>2, <1>3, StreamFrames
<1>5. \A i \in H : wire[i].frame.val \in 1..v
  BY <1>3, <1>4 DEF Numbers
<1>6. \A i, j \in H : wire[i].frame.val = wire[j].frame.val => i = j
  <2> SUFFICES ASSUME NEW i \in H, NEW j \in H, wire[i].frame.val = wire[j].frame.val PROVE i = j
    OBVIOUS
  <2>1. /\ Carries(wire[i].frame, s, wire[i].frame.val) /\ Carries(wire[j].frame, s, wire[i].frame.val)
        /\ wire[i].frame \in ExecFrames /\ wire[j].frame \in ExecFrames
    BY <1>2, <1>3
  <2>2. wire[i].frame = wire[j].frame
    BY <2>1, StreamFrames
  <2> QED BY <1>3, <1>4, <2>2 DEF Once
<1>7. \A m \in 1..v : \E i \in H : wire[i].frame.val = m
  BY DEF Delivered, Holding, Carries
<1>8. f \in [H -> 1..v] /\ \A i \in H : f[i] = wire[i].frame.val
  BY <1>5
<1> HIDE DEF H, f
<1>9. f \in Bijection(H, 1..v)
  BY <1>6, <1>7, <1>8 DEF Bijection, Injection, IsInjective, Surjection
<1>10. IsFiniteSet(1..v) /\ Cardinality(1..v) = v
  BY FS_Interval
<1>11. IsFiniteSet(H)
  <2>1. IsFiniteSet(1..Len(wire)) /\ H \subseteq 1..Len(wire)
    BY WireTyped, FS_Interval DEF H, Holding
  <2> QED BY <2>1, FS_Subset
<1>12. Cardinality(H) = v
  <2>1. ExistsBijection(H, 1..v)
    BY <1>9 DEF ExistsBijection
  <2> QED BY <2>1, <1>10, <1>11, FS_Bijection
<1> QED BY <1>12, CountHolding DEF H

-----------------------------------------------------------------------------
(***************************************************************************)
(* What the contract asks before each frame.                               *)
(***************************************************************************)

LEMMA SrcNamedIs ==
    /\ \A s \in Srcs : StreamType(s) \in StreamTypes /\ SrcNamed(StreamType(s)) = s
    /\ \A t \in StreamTypes : SrcNamed(t) \in Srcs /\ StreamType(SrcNamed(t)) = t
<1>1. \A s, r \in Srcs : StreamType(s) = StreamType(r) => s = r
  BY DEF StreamType, Srcs
<1> QED BY <1>1 DEF StreamTypes, SrcNamed

\* A stream frame in hand carries the number that comes next.
LEMMA NextNumber ==
    ASSUME ExecInv, Once, AllWhole, NEW s \in Srcs, NEW n \in Numbers, InHand(s, n)
    PROVE  Contract!Count({StreamType(s)}) = n - 1 /\ n =< made[s]
<1>0. ExecTypeOK /\ ReaderInv /\ ChunkPath /\ OutputInOrder
  BY DEF ExecInv
<1>1. \A m \in 1..(n - 1) : Delivered(s, m)
  BY <1>0 DEF ChunkPath, InHand, InTimer, Numbers
<1>2. ASSUME NEW i \in DOMAIN wire, NEW m \in Numbers, Carries(wire[i].frame, s, m), n =< m PROVE FALSE
  <2>1. CASE n = m
    BY <1>2, <2>1 DEF Once
  <2>2. CASE n # m
    <3>1. n \in 1..(wire[i].frame.val - 1)
      BY <1>2, <2>2 DEF Carries, Numbers
    <3>2. PICK j \in 1..(i - 1) : Carries(wire[j].frame, s, n)
      BY <1>0, <1>2, <3>1 DEF OutputInOrder, Carries
    <3>3. j \in DOMAIN wire
      BY <1>0, <3>2, WireTyped
    <3> QED BY <3>2, <3>3 DEF Once
  <2> QED BY <2>1, <2>2
<1>3. \A i \in DOMAIN wire, m \in Numbers : Carries(wire[i].frame, s, m) => m =< n - 1
  BY <1>2 DEF Numbers
<1>4. n - 1 \in Nat
  BY DEF Numbers
<1>5. Contract!Count({StreamType(s)}) = n - 1
  BY <1>0, <1>1, <1>3, <1>4, CountStream
<1>6. n =< made[s]
  BY <1>0, ExecAssumption DEF Once, ReaderInv, ExecTypeOK, Numbers
<1> QED BY <1>5, <1>6

\* When all is sent, each stream that could be read counts all that was written.
LEMMA CompleteWhenSent ==
    ASSUME ExecInv, Once, AllWhole, AllSent PROVE Contract!Complete
<1>0. ExecTypeOK /\ ReaderInv
  BY DEF ExecInv
<1>1. ASSUME NEW s \in Srcs, reader[s] # "err" PROVE Contract!Count({StreamType(s)}) = made[s]
  <2>1. made[s] \in Nat /\ taken[s] \in Nat /\ taken[s] =< made[s]
    BY <1>0, ExecAssumption DEF ExecTypeOK, ReaderInv
  <2>2. \A m \in 1..made[s] : Delivered(s, m)
    BY <1>1 DEF AllSent
  <2>3. \A i \in DOMAIN wire, m \in Numbers : Carries(wire[i].frame, s, m) => m =< made[s]
    BY <2>1 DEF Once, Numbers
  <2> QED BY <1>0, <2>1, <2>2, <2>3, CountStream
<1> SUFFICES ASSUME NEW t \in StreamTypes, t \notin {StreamType(s) : s \in {r \in Srcs : reader[r] = "err"}}
             PROVE  Contract!Count({t}) = made[SrcNamed(t)]
  BY DEF Contract!Complete
<1>2. SrcNamed(t) \in Srcs /\ StreamType(SrcNamed(t)) = t
  BY SrcNamedIs
<1>3. reader[SrcNamed(t)] # "err"
  BY <1>2
<1> QED BY <1>1, <1>2, <1>3

\* Whole stream frames are no results.
LEMMA NoResults ==
    ASSUME ExecTypeOK, AllWhole, \A i \in DOMAIN wire : IsStream(wire[i].frame)
    PROVE  Contract!Results = 0
<1>1. Holding({"EXEC_EXIT", "POLICY_DENIED"}) = {}
  BY DEF Holding, IsStream
<1> QED BY <1>1, CountHolding, FS_EmptySet DEF Contract!Results

\* One whole result behind stream frames is one result, and not a refusal.
LEMMA OneResultLast ==
    ASSUME ExecTypeOK, AllWhole, SentSoFar, pc = "late",
           NEW k \in DOMAIN wire, ~IsStream(wire[k].frame)
    PROVE  /\ k = Len(wire) /\ IsResult(wire[k])
           /\ Contract!Results = 1 /\ Contract!Count({"POLICY_DENIED"}) = 0
<1>1. k = Len(wire)
  BY WireTyped DEF SentSoFar
<1>2. \A i \in DOMAIN wire : wire[i].frame.type # "POLICY_DENIED"
  BY WireTyped DEF SentSoFar, ExecFrames, Denied
<1>3. IsResult(wire[k])
  BY WireTyped DEF ExecFrames, IsStream, IsResult, Denied
<1>4. Holding({"EXEC_EXIT", "POLICY_DENIED"}) = {k}
  <2>1. \A i \in DOMAIN wire : i # k => IsStream(wire[i].frame)
    BY <1>1, WireTyped DEF SentSoFar
  <2> QED BY <1>3, <2>1 DEF Holding, IsStream, IsResult
<1>5. Holding({"POLICY_DENIED"}) = {}
  BY <1>2 DEF Holding
<1> QED BY <1>1, <1>3, <1>4, <1>5, CountHolding, FS_EmptySet, FS_Singleton DEF Contract!Results

-----------------------------------------------------------------------------
(***************************************************************************)
(* Every step is a step of the contract, or none.                          *)
(***************************************************************************)
Kept == made' = made /\ Failed' = Failed

\* A frame that is out with all its cells is a frame the contract allows here.
LEMMA FrameSent ==
    ASSUME WireInv, AllWhole, Kept, pc \in Writing, put = Size(frame), wire' = Append(wire, Entry)
    PROVE  Contract!ContractNext
<1>0. ExecTypeOK /\ AtPoint /\ Drained /\ NoResultYet /\ Once /\ SentSoFar
  BY DEF WireInv, ExecInv
<1>1. Contract!Sends(frame)
  <2>1. MoreToCome
    BY <1>0, DecodableIs DEF Writing, Returned
  <2>2. MoreToCome' \in BOOLEAN
    BY DEF MoreToCome
  <2>3. Decodable' = Append(Decodable, frame)
    BY <1>0, DecodableWhole
  <2>4. UNCHANGED [t \in StreamTypes |-> made[SrcNamed(t)]]
    BY DEF Kept
  <2>5. UNCHANGED {StreamType(s) : s \in {r \in Srcs : reader[r] = "err"}}
    BY DEF Kept, Failed
  <2> QED BY <2>1, <2>2, <2>3, <2>4, <2>5 DEF Contract!Sends
<1>2. CASE pc = "stream"
  <2>1. frame \in ExecFrames /\ IsStream(frame)
    BY <1>0, <1>2 DEF AtPoint, IsStream, Writing
  <2>2. PICK s \in Srcs, n \in Numbers : Carries(frame, s, n)
    BY <2>1, StreamFrames
  <2>3. Contract!Count({StreamType(s)}) = n - 1 /\ n =< made[s]
    BY <1>2, <2>2, NextNumber DEF WireInv, InHand
  <2>4. frame = [type |-> StreamType(s), val |-> Contract!Count({StreamType(s)}) + 1]
    BY <2>1, <2>2, <2>3 DEF ExecFrames, Carries, Numbers, IsStream, Denied
  <2>5. Contract!Results = 0
    BY <1>0, <1>2, NoResults DEF SentSoFar, InTimer
  <2>6. Contract!Count({StreamType(s)}) < [t \in StreamTypes |-> made[SrcNamed(t)]][StreamType(s)]
    BY <1>0, <2>3, SrcNamedIs, ExecAssumption DEF Numbers, ExecTypeOK
  <2>7. Contract!Output(StreamType(s))
    BY <1>1, <2>4, <2>5, <2>6 DEF Contract!Output
  <2> QED BY <2>7, SrcNamedIs DEF Contract!ContractNext
<1>3. CASE pc = "exit"
  <2>1. frame = [type |-> "EXEC_EXIT", val |-> status] /\ status \in ExitCodes
    BY <1>0, <1>3 DEF AtPoint, Exit, ExitCodes, Signalled
  <2>2. Contract!Results = 0
    BY <1>0, <1>3, NoResults DEF SentSoFar, InTimer
  <2>3. Contract!Complete
    BY <1>0, <1>3, CompleteWhenSent DEF Drained, WireInv
  <2>4. Contract!Answer(status)
    BY <1>1, <2>1, <2>2, <2>3 DEF Contract!Answer
  <2> QED BY <2>1, <2>4 DEF Contract!ContractNext
<1>4. CASE pc = "late"
  <2>1. frame = [type |-> "EXEC_EXIT", val |-> 124] /\ 124 \in ExitCodes
    BY <1>0, <1>4 DEF AtPoint, Exit, ExitCodes, TimedOut
  <2>2. CASE \A i \in DOMAIN wire : IsStream(wire[i].frame)
    <3>1. Contract!Results = 0
      BY <1>0, <2>2, NoResults
    <3>2. Contract!Answer(124)
      BY <1>1, <2>1, <3>1 DEF Contract!Answer
    <3> QED BY <2>1, <3>2 DEF Contract!ContractNext
  <2>3. CASE ~\A i \in DOMAIN wire : IsStream(wire[i].frame)
    <3>1. PICK k \in DOMAIN wire : ~IsStream(wire[k].frame)
      BY <2>3
    <3>2. /\ k = Len(wire) /\ IsResult(wire[k])
          /\ Contract!Results = 1 /\ Contract!Count({"POLICY_DENIED"}) = 0
      BY <1>0, <1>4, <3>1, OneResultLast
    <3>3. Tls
      BY <1>0, <1>4, <3>1, <3>2 DEF NoResultYet, AllWhole
    <3>4. Contract!SecondAnswer
      BY <1>1, <2>1, <3>2, <3>3 DEF Contract!SecondAnswer
    <3> QED BY <3>4 DEF Contract!ContractNext
  <2> QED BY <2>2, <2>3
<1>5. CASE pc = "denied"
  <2>1. frame = [type |-> "POLICY_DENIED", val |-> 0]
    BY <1>0, <1>5 DEF AtPoint, Denied
  <2>2. wire = <<>> /\ \A s \in Srcs : made[s] = 0
    BY <1>0, <1>5 DEF SentSoFar
  <2>3. Decodable = <<>>
    BY <2>2 DEF Decodable, Intact
  <2>4. \A t \in StreamTypes : [r \in StreamTypes |-> made[SrcNamed(r)]][t] = 0
    BY <2>2, SrcNamedIs
  <2>5. Contract!Denial
    BY <1>1, <2>1, <2>3, <2>4 DEF Contract!Denial
  <2> QED BY <2>5 DEF Contract!ContractNext
<1> QED BY <1>2, <1>3, <1>4, <1>5 DEF Writing

\* What leaves the decodable frames as they are is no step of the contract, or
\* the end of what can be decoded.
LEMMA NothingSent ==
    ASSUME ExecTypeOK, Kept, Decodable' = Decodable, MoreToCome' => MoreToCome
    PROVE  [Contract!ContractNext]_(Contract!contractVars)
<1>1. UNCHANGED [t \in StreamTypes |-> made[SrcNamed(t)]]
  BY DEF Kept
<1>2. UNCHANGED {StreamType(s) : s \in {r \in Srcs : reader[r] = "err"}}
  BY DEF Kept, Failed
<1>3. CASE MoreToCome' = MoreToCome
  BY <1>1, <1>2, <1>3 DEF Contract!contractVars
<1>4. CASE MoreToCome' # MoreToCome
  <2>1. MoreToCome /\ MoreToCome' = FALSE
    BY <1>4 DEF MoreToCome
  <2>2. Contract!Breaks
    BY <1>1, <1>2, <2>1 DEF Contract!Breaks
  <2> QED BY <2>2 DEF Contract!ContractNext
<1> QED BY <1>3, <1>4

\* The steps of the session task, the timer and the peer.
LEMMA ControlRefines ==
    ASSUME WireInv, Kept, Control, Grows
    PROVE  [Contract!ContractNext]_(Contract!contractVars)
<1>0. ExecTypeOK /\ AtPoint
  BY DEF WireInv, ExecInv
<1>1. CASE wire' = wire
  <2>1. Decodable' = Decodable /\ Intact' = Intact
    BY <1>1, DecodableStays
  <2>2. pc \in Returned => pc' = pc
    BY DEF Control, Returned, InTimer, Writing
  <2>3. MoreToCome' => MoreToCome
    BY <1>1, <2>1, <2>2 DEF MoreToCome
  <2> QED BY <1>0, <2>1, <2>3, NothingSent
<1>2. CASE wire' # wire /\ AllWhole /\ put = Size(frame)
  <2>1. pc \in Writing /\ wire' = Append(wire, Entry)
    BY <1>0, <1>2, WireEntries DEF Grows
  <2> QED BY <1>2, <2>1, FrameSent
<1>3. CASE wire' # wire /\ (~AllWhole \/ put # Size(frame))
  <2>1. Decodable' = Decodable /\ ~AllWhole'
    BY <1>0, <1>3, DecodableCut
  <2>2. MoreToCome' = FALSE
    <3>1. \E k \in DOMAIN wire' : ~Whole(wire'[k])
      BY <2>1 DEF AllWhole, Whole
    <3>2. Intact' # DOMAIN wire'
      <4>1. wire' \in Seq(Entries)
        BY <1>0, <1>3, CutType DEF Grows, Cut
      <4>2. \A k \in DOMAIN wire' : k \in 1..k
        BY <4>1
      <4> QED BY <3>1, <4>2 DEF Intact, Whole
    <3> QED BY <3>2 DEF MoreToCome
  <2> QED BY <1>0, <2>1, <2>2, NothingSent
<1> QED BY <1>1, <1>2, <1>3

\* The steps of the pipes.
LEMMA PipesRefine ==
    ASSUME ExecTypeOK, wire' = wire, pc' = pc,
           NEW s \in Srcs, WritesChunk(s) \/ ReaderErr(s)
    PROVE  Contract!ContractNext
<1>1. Decodable' = Decodable /\ MoreToCome' = MoreToCome
  BY DecodableStays DEF MoreToCome
<1>2. CASE WritesChunk(s)
  <2>1. made' = [made EXCEPT ![s] = @ + 1] /\ reader' = reader /\ made \in [Srcs -> 0..MaxChunks]
    BY <1>2 DEF WritesChunk, ExecTypeOK
  <2>2. [t \in StreamTypes |-> made'[SrcNamed(t)]] =
        [[t \in StreamTypes |-> made[SrcNamed(t)]] EXCEPT ![StreamType(s)] = @ + 1]
    <3>1. \A t \in StreamTypes : SrcNamed(t) = s <=> t = StreamType(s)
      BY SrcNamedIs
    <3> QED BY <2>1, <3>1, SrcNamedIs
  <2>3. Contract!Produced(StreamType(s))
    BY <1>1, <2>1, <2>2 DEF Contract!Produced
  <2> QED BY <2>3, SrcNamedIs DEF Contract!ContractNext
<1>3. CASE ReaderErr(s)
  <2>1. made' = made /\ reader' = [reader EXCEPT ![s] = "err"]
        /\ reader \in [Srcs -> {"idle", "run"} \cup Done]
    BY <1>3 DEF ReaderErr, ReaderEnds, ExecTypeOK
  <2>2. {r \in Srcs : reader'[r] = "err"} = {r \in Srcs : reader[r] = "err"} \cup {s}
    BY <2>1
  <2>3. {StreamType(q) : q \in {r \in Srcs : reader'[r] = "err"}} =
        {StreamType(q) : q \in {r \in Srcs : reader[r] = "err"}} \cup {StreamType(s)}
    BY <2>2
  <2>4. Contract!Lost(StreamType(s))
    BY <1>1, <2>1, <2>3 DEF Contract!Lost
  <2> QED BY <2>4, SrcNamedIs DEF Contract!ContractNext
<1> QED BY <1>2, <1>3

\* Every step of an execution.
LEMMA StepRefines ==
    WireInv /\ [ExecNext]_execVars => [Contract!ContractNext]_(Contract!contractVars)
<1> SUFFICES ASSUME WireInv, [ExecNext]_execVars PROVE [Contract!ContractNext]_(Contract!contractVars)
  OBVIOUS
<1>1. ExecTypeOK /\ Steps /\ Grows
  BY StepKinds, WireGrows DEF WireInv, ExecInv
<1>2. CASE Kept
  BY <1>1, <1>2, ControlRefines DEF Steps
<1>3. ASSUME NEW s \in Srcs, WritesChunk(s) \/ ReaderErr(s) PROVE [Contract!ContractNext]_(Contract!contractVars)
  <2>1. wire' = wire /\ pc' = pc
    BY <1>3 DEF WritesChunk, ReaderErr, ReaderEnds, taskVars
  <2> QED BY <1>1, <1>3, <2>1, PipesRefine
<1> QED BY <1>1, <1>2, <1>3 DEF Steps, Pipes, Kept

LEMMA InitRefines == ExecInit => Contract!ContractInit
<1> SUFFICES ASSUME ExecInit PROVE Contract!ContractInit
  OBVIOUS
<1>1. [t \in StreamTypes |-> made[SrcNamed(t)]] = [t \in StreamTypes |-> 0]
  BY SrcNamedIs DEF ExecInit
<1>2. {StreamType(s) : s \in {r \in Srcs : reader[r] = "err"}} = {}
  BY DEF ExecInit
<1>3. Decodable = <<>>
  BY DEF ExecInit, Decodable, Intact
<1>4. MoreToCome = TRUE
  BY DEF ExecInit, MoreToCome, Intact, Returned
<1> QED BY <1>1, <1>2, <1>3, <1>4 DEF Contract!ContractInit

\* run_one_exec implements its contract: through every interleaving, timeout and
\* error, what a client can decode is the output in order, then at most one
\* result, the shell's code only behind all of the output (session.rs:169-279).
THEOREM Refinement == ExecSpec => KeepsContract
<1>1. WireInv /\ [ExecNext]_execVars => [Contract!ContractNext]_(Contract!contractVars)
  BY StepRefines
<1>2. QED
  BY <1>1, InitRefines, WireInvariance, PTL DEF ExecSpec, KeepsContract, Contract!ContractSpec
=============================================================================
