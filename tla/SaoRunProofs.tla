----------------------------- MODULE SaoRunProofs -----------------------------
(***************************************************************************)
(* What `sao run` shows its user and exits with, for every execution,      *)
(* policy, transport and ending of either side.                            *)
(*                                                                         *)
(* The client only reads the wire, so the argument is about the entries it *)
(* has read: they are whole (AllRead), what is printed of a stream is what *)
(* they carry of it (ShownSoFar), what was seen of it is no more           *)
(* (SeenSoFar), and an exit status is settled by what cannot change any    *)
(* more on the server (Ended).  That the entries carry the output in       *)
(* order, once, and the results last, is WireInv.                          *)
(***************************************************************************)
EXTENDS SaoRun, SaoWireProofs

AllRead == \A i \in 1..rd : Whole(wire[i])

ShownSoFar ==
    \A s \in Srcs :
        /\ \A i \in DOMAIN printed[s] : printed[s][i] = i
        /\ \A i \in 1..rd, n \in Numbers : Carries(wire[i].frame, s, n) => n =< Len(printed[s])
        /\ \A n \in 1..Len(printed[s]) : \E i \in 1..rd : Carries(wire[i].frame, s, n)

SeenSoFar == \A s \in Srcs : seen[s] =< Len(printed[s]) /\ (s = "err" => seen[s] = Len(printed[s]))

\* What the client ended without showing is a tail of stdout it could not flush.
Flushed ==
    exit \in {Running, Killed} \/ \A s \in Srcs : seen[s] = Len(printed[s]) \/ (s = "out" /\ lost)

Ended ==
    /\ exit = 0 =>
        /\ child = "reaped" /\ status = 0
        /\ \A s \in Srcs : reader[s] = "err" \/ (reader[s] = "eof" /\ Len(printed[s]) = made[s])
    /\ ~check_shell(shell) => exit \in {Running, Killed, 1, 126}

RunInv == WireInv /\ RunTypeOK /\ AllRead /\ ShownSoFar /\ SeenSoFar /\ Flushed /\ Ended
-----------------------------------------------------------------------------
(***************************************************************************)
(* The steps, as the execution and as the client see them.                 *)
(***************************************************************************)

ServerSide == UNCHANGED cliVars /\ [ExecNext]_execVars
ClientOnly == UNCHANGED <<shell, taskVars, procVars, pipeVars, pastVars>>
Shows      == Show /\ ClientOnly
Finishes   == Finish /\ ClientOnly
Fails      ==
    /\ ClientOnly /\ UNCHANGED rd
    /\ Ends(1) \/ (Exits(Killed) /\ UNCHANGED <<printed, seen, lost>>)
Goes       ==
    /\ ClientOnly /\ UNCHANGED <<peer, rd, printed, seen, lost, exit>>
    /\ cli # "exited" /\ cli' \in {"result", "stream"}

\* Each action of SaoRun, as one of these.
LEMMA RunKinds ==
    RunTypeOK /\ [RunNext]_runVars => ServerSide \/ Shows \/ Finishes \/ Fails \/ Goes
<1> SUFFICES ASSUME RunTypeOK, [RunNext]_runVars PROVE ServerSide \/ Shows \/ Finishes \/ Fails \/ Goes
  OBVIOUS
<1>1. CASE Session
  BY <1>1 DEF Session, Challenge, Authenticate, StartExec, ExecReturns, AfterExec, ServerEof, ServerSide
<1>2. CASE ExecTask \/ Transport \/ ExecAside \/ Timer
  BY <1>2 DEF ExecTask, Transport, ExecAside, Timer, ServerSide, ExecNext, Writes
<1>3. CASE Answer
  BY <1>3 DEF Answer, Goes, ClientOnly, execVars
<1>4. CASE Request
  BY <1>4 DEF Request, Goes, Fails, ClientOnly
<1>5. CASE Show
  BY <1>5 DEF Show, Shows, ClientOnly, execVars
<1>6. CASE Finish
  BY <1>6 DEF Finish, Finishes, ClientOnly
<1>7. CASE Garbled \/ ClientEof \/ ShowFails \/ ClientKilled
  BY <1>7 DEF Garbled, ClientEof, ShowFails, ClientKilled, Fails, ClientOnly
<1>8. CASE UNCHANGED runVars
  BY <1>8 DEF runVars, ServerSide
<1> QED BY <1>1, <1>2, <1>3, <1>4, <1>5, <1>6, <1>7, <1>8 DEF RunNext, Client

\* To the execution a step of the client is none, or the peer going away.
LEMMA RunIsExec == RunTypeOK /\ [RunNext]_runVars => [ExecNext]_execVars
<1> SUFFICES ASSUME RunTypeOK, [RunNext]_runVars PROVE [ExecNext]_execVars
  OBVIOUS
<1>1. CASE ServerSide
  BY <1>1 DEF ServerSide
<1>2. ASSUME ClientOnly, peer' = peer \/ peer' = "gone" PROVE [ExecNext]_execVars
  <2>1. CASE peer' = peer
    BY <1>2, <2>1 DEF ClientOnly, execVars
  <2>2. CASE peer' = "gone" /\ peer = "open"
    BY <1>2, <2>2 DEF ClientOnly, PeerLeaves, ExecNext
  <2> QED BY <1>2, <2>1, <2>2 DEF RunTypeOK, ExecTypeOK
<1>3. CASE Shows \/ Finishes \/ Fails
  BY <1>2, <1>3 DEF Shows, Finishes, Fails, Show, Finish, Ends, Exits, execVars
<1>4. CASE Goes
  BY <1>2, <1>4 DEF Goes
<1> QED BY <1>1, <1>3, <1>4, RunKinds

-----------------------------------------------------------------------------
(***************************************************************************)
(* What was printed and seen.                                              *)
(***************************************************************************)

CliTyped ==
    /\ cli \in {"challenge", "result", "stream", "exited"}
    /\ rd \in 0..Len(wire)
    /\ printed \in [Srcs -> Seq(1..MaxChunks)]
    /\ seen \in [Srcs -> 0..MaxChunks]
    /\ lost \in BOOLEAN
    /\ exit \in {Running, Killed} \cup 0..255
    /\ (exit = Running) <=> (cli # "exited")

\* The points of the server's session.
LEMMA SrvTyped == RunTypeOK /\ [RunNext]_runVars => srv' \in {"load", "auth", "loop", "exec", "closed"}
  BY DEF RunTypeOK, RunNext, runVars, sessVars, Session, Challenge, Authenticate, StartExec, ExecReturns,
    AfterExec, ServerEof, ExecTask, Transport, ExecAside, Timer, Client, Answer, Request, Show, Finish,
    Garbled, ClientEof, ShowFails, ClientKilled

CliInv == CliTyped /\ AllRead /\ ShownSoFar /\ SeenSoFar /\ Flushed /\ Ended

\* The flush at exit, whether it writes all that is left or fails.
LEMMA Flushes ==
    ASSUME RunTypeOK, SeenSoFar, \A s \in Srcs : Len(printed[s]) \in 0..MaxChunks, NEW code, Ends(code)
    PROVE  /\ printed' = printed /\ SeenSoFar' /\ Flushed'
           /\ seen' \in [Srcs -> 0..MaxChunks] /\ lost' \in BOOLEAN
<1>1. /\ printed' = printed /\ seen \in [Srcs -> 0..MaxChunks] /\ lost \in BOOLEAN
      /\ "out" \in Srcs /\ MaxChunks \in Nat
  BY ExecAssumption DEF Ends, RunTypeOK, Srcs
<1>2. CASE seen' = [s \in Srcs |-> Len(printed[s])] /\ UNCHANGED lost
  BY <1>1, <1>2 DEF SeenSoFar, Flushed
<1>3. CASE \E n \in seen["out"]..(Len(printed["out"]) - 1) :
             seen' = [seen EXCEPT !["out"] = n] /\ lost' = TRUE
  <2>1. PICK n \in seen["out"]..(Len(printed["out"]) - 1) :
            seen' = [seen EXCEPT !["out"] = n] /\ lost' = TRUE
    BY <1>3
  <2>2. n \in 0..MaxChunks /\ n =< Len(printed["out"])
    BY <1>1, <2>1
  <2>3. /\ seen' \in [Srcs -> 0..MaxChunks] /\ seen'["out"] = n
        /\ \A s \in Srcs : s # "out" => seen'[s] = seen[s]
    BY <1>1, <2>1, <2>2
  <2>4. SeenSoFar'
    BY <1>1, <2>2, <2>3 DEF SeenSoFar
  <2>5. \A s \in Srcs : s = "out" \/ s = "err"
    BY DEF Srcs
  <2>6. Flushed'
    BY <1>1, <2>1, <2>3, <2>4, <2>5 DEF Flushed, SeenSoFar
  <2> QED BY <1>1, <2>1, <2>3, <2>4, <2>6
<1> QED BY <1>2, <1>3 DEF Ends

\* The session and the execution go on: what was read stays read.
LEMMA ServerKeeps ==
    ASSUME RunInv, ServerSide PROVE CliInv'
<1>1. WireInv /\ ExecInv /\ RunTypeOK /\ AllRead /\ ShownSoFar /\ SeenSoFar /\ Flushed /\ Ended
  BY DEF RunInv, WireInv
<1>2. [ExecNext]_execVars /\ UNCHANGED <<cli, rd, printed, seen, lost, exit>>
  BY DEF ServerSide, cliVars
<1>3. WireInv' /\ Steps /\ Grows /\ Settled /\ ExecTypeOK /\ AtPoint /\ ExecTypeOK'
  BY <1>1, <1>2, WireStep, InvStep, StepKinds, WireGrows, Settles DEF ExecInv
<1>4. /\ Len(wire) \in Nat /\ DOMAIN wire = 1..Len(wire) /\ Len(wire') \in Nat /\ Len(wire) =< Len(wire')
      /\ rd \in Nat /\ rd =< Len(wire)
      /\ \A i \in 1..rd : wire'[i] = wire[i]
  BY <1>1, <1>3, WireEntries DEF RunTypeOK
<1>5. AllRead' /\ ShownSoFar'
  <2>1. AllRead'
    BY <1>1, <1>2, <1>4 DEF AllRead, Whole
  <2>2. ASSUME NEW s \in Srcs
        PROVE  /\ \A i \in DOMAIN printed'[s] : printed'[s][i] = i
               /\ \A i \in 1..rd', n \in Numbers : Carries(wire'[i].frame, s, n) => n =< Len(printed'[s])
               /\ \A n \in 1..Len(printed'[s]) : \E i \in 1..rd' : Carries(wire'[i].frame, s, n)
    <3>1. \A i \in 1..rd : wire'[i] = wire[i]
      BY <1>4
    <3>2. rd' = rd /\ printed' = printed
      BY <1>2
    <3>3. \A i \in DOMAIN printed[s] : printed[s][i] = i
      BY <1>1 DEF ShownSoFar
    <3>4. \A i \in 1..rd, n \in Numbers : Carries(wire'[i].frame, s, n) => n =< Len(printed[s])
      BY <1>1, <3>1 DEF ShownSoFar
    <3>5. \A n \in 1..Len(printed[s]) : \E i \in 1..rd : Carries(wire'[i].frame, s, n)
      BY <1>1, <3>1 DEF ShownSoFar
    <3> QED BY <3>2, <3>3, <3>4, <3>5
  <2>3. ShownSoFar'
    BY <2>2 DEF ShownSoFar, Carries
  <2> QED BY <2>1, <2>3
<1>6. ASSUME exit' = 0
      PROVE  /\ child' = "reaped" /\ status' = 0
             /\ \A s \in Srcs : reader'[s] = "err" \/ (reader'[s] = "eof" /\ Len(printed'[s]) = made'[s])
  <2>1. /\ child = "reaped" /\ status = 0
        /\ \A s \in Srcs : reader[s] = "err" \/ (reader[s] = "eof" /\ Len(printed[s]) = made[s])
    BY <1>1, <1>2, <1>6 DEF Ended
  <2>2. child' = "reaped" /\ status' = 0
    BY <1>3, <2>1 DEF Settled
  <2>3. \A s \in Srcs : reader'[s] = reader[s] /\ (reader[s] = "eof" => made'[s] = made[s])
    BY <1>1, <1>3, <2>1 DEF Steps, Stays, ExecInv, ReaderInv
  <2> QED BY <1>2, <2>1, <2>2, <2>3
<1>7. ~check_shell(shell') => exit' \in {Running, Killed, 1, 126}
  BY <1>1, <1>2, <1>3 DEF Ended, Steps
<1>8. Ended'
  BY <1>6, <1>7 DEF Ended, check_shell
<1>9. CliTyped'
  BY <1>1, <1>2, <1>4 DEF CliTyped, RunTypeOK
<1>10. SeenSoFar' /\ Flushed'
  BY <1>1, <1>2 DEF SeenSoFar, Flushed
<1> QED BY <1>5, <1>8, <1>9, <1>10 DEF CliInv

\* What the client has read is on the wire.
LEMMA ReadEntries ==
    ASSUME RunTypeOK
    PROVE  /\ Len(wire) \in Nat /\ DOMAIN wire = 1..Len(wire) /\ rd \in Nat /\ rd =< Len(wire)
           /\ \A i \in DOMAIN wire : wire[i].frame \in ExecFrames
           /\ \A i \in 1..rd : i \in DOMAIN wire
<1>1. /\ Len(wire) \in Nat /\ DOMAIN wire = 1..Len(wire)
      /\ \A i \in DOMAIN wire : wire[i].frame \in ExecFrames
  BY WireTyped DEF RunTypeOK
<1>2. rd \in 0..Len(wire)
  BY DEF RunTypeOK
<1>3. rd \in Nat /\ rd =< Len(wire) /\ \A i \in 1..rd : i \in DOMAIN wire
  BY <1>1, <1>2
<1> QED BY <1>1, <1>3

\* The entry that arrived next is a whole frame.
LEMMA NextEntry ==
    ASSUME RunTypeOK, Arrived(rd + 1)
    PROVE  /\ rd + 1 \in Nat /\ rd + 1 \in DOMAIN wire /\ rd + 1 \in 0..Len(wire)
           /\ wire[rd + 1].frame \in ExecFrames /\ Whole(wire[rd + 1])
<1>1. Len(wire) >= rd + 1 /\ Whole(wire[rd + 1])
  BY DEF Arrived
<1>2. /\ Len(wire) \in Nat /\ DOMAIN wire = 1..Len(wire) /\ rd \in Nat
      /\ \A i \in DOMAIN wire : wire[i].frame \in ExecFrames
  BY ReadEntries
<1>3. rd + 1 \in Nat /\ rd + 1 \in DOMAIN wire /\ rd + 1 \in 0..Len(wire)
  BY <1>1, <1>2
<1> QED BY <1>1, <1>2, <1>3

\* What is printed of a stream was made.
LEMMA ShownMade ==
    ASSUME RunInv, NEW s \in Srcs PROVE Len(printed[s]) \in 0..MaxChunks /\ Len(printed[s]) =< made[s]
<1>1. ExecInv /\ ExecTypeOK /\ Once /\ ReaderInv /\ RunTypeOK /\ ShownSoFar
  BY DEF RunInv, WireInv, ExecInv
<1>2. /\ Len(printed[s]) \in Nat /\ made[s] \in 0..MaxChunks /\ MaxChunks \in Nat
      /\ taken[s] \in Nat /\ taken[s] =< made[s]
  BY <1>1, ExecAssumption DEF RunTypeOK, ExecTypeOK, ReaderInv
<1>3. CASE Len(printed[s]) > 0
  <2>1. PICK i \in 1..rd : Carries(wire[i].frame, s, Len(printed[s]))
    BY <1>1, <1>2, <1>3 DEF ShownSoFar
  <2>2. i \in DOMAIN wire /\ wire[i].frame \in ExecFrames
    BY <1>1, ReadEntries
  <2>3. Len(printed[s]) \in Numbers
    BY <2>1, <2>2, StreamFrames
  <2>4. Len(printed[s]) =< taken[s]
    BY <1>1, <2>1, <2>2, <2>3 DEF Once
  <2> QED BY <1>2, <2>4
<1> QED BY <1>2, <1>3

\* A client that ends without a result, or goes on to its next read.
LEMMA ClientGoes ==
    ASSUME RunInv, Fails \/ Goes PROVE CliInv'
<1>1. RunTypeOK /\ AllRead /\ ShownSoFar /\ SeenSoFar /\ Flushed /\ Ended
  BY DEF RunInv
<1>2. /\ UNCHANGED <<shell, wire, child, status, made, reader, rd, printed>>
      /\ \/ exit' = exit /\ cli # "exited" /\ cli' \in {"result", "stream"} /\ UNCHANGED <<seen, lost>>
         \/ exit' = Killed /\ cli' = "exited" /\ UNCHANGED <<seen, lost>>
         \/ exit' = 1 /\ cli' = "exited" /\ Ends(1)
  BY DEF Fails, Goes, Ends, Exits, ClientOnly, taskVars, procVars, pipeVars
<1>3. SeenSoFar' /\ Flushed' /\ seen' \in [Srcs -> 0..MaxChunks] /\ lost' \in BOOLEAN
  <2>1. CASE (exit' = exit \/ exit' = Killed) /\ UNCHANGED <<seen, lost>>
    <3>1. printed' = printed
      BY <1>2
    <3>2. SeenSoFar' /\ Flushed'
      BY <1>1, <2>1, <3>1 DEF SeenSoFar, Flushed
    <3> QED BY <1>1, <2>1, <3>2 DEF RunTypeOK
  <2>2. CASE Ends(1)
    BY <1>1, <2>2, ShownMade, Flushes
  <2> QED BY <1>2, <2>1, <2>2
<1>4. CliTyped'
  BY <1>1, <1>2, <1>3 DEF CliTyped, RunTypeOK, Running, Killed
<1>5. AllRead' /\ ShownSoFar'
  BY <1>1, <1>2 DEF AllRead, ShownSoFar, Whole, Carries
<1>6. Ended'
  BY <1>1, <1>2 DEF Ended, Running, Killed, check_shell
<1> QED BY <1>4, <1>5, <1>6, <1>3 DEF CliInv

\* The next whole stream frame carries the next chunk of its stream.
LEMMA ShowsNext ==
    ASSUME RunInv, Arrived(rd + 1), ~IsResult(wire[rd + 1])
    PROVE  LET f == wire[rd + 1].frame
               s == SrcOf(f)
           IN  s \in Srcs /\ Carries(f, s, f.val) /\ f.val \in Numbers /\ f.val = Len(printed[s]) + 1
<1> DEFINE k == rd + 1
           f == wire[k].frame
           s == SrcOf(f)
<1>1. ExecTypeOK /\ Once /\ OutputInOrder /\ RunTypeOK /\ ShownSoFar
  BY DEF RunInv, WireInv, ExecInv
<1>2. k \in DOMAIN wire /\ k \in Nat /\ rd \in Nat /\ f \in ExecFrames /\ \A i \in 1..rd : i \in DOMAIN wire
  BY <1>1, ReadEntries, NextEntry
<1>3. IsStream(f) /\ ~IsResult(wire[k])
  BY <1>2 DEF IsResult, IsStream, ExecFrames, Denied
<1> HIDE DEF k
<1>4. s \in Srcs /\ Carries(f, s, f.val) /\ f.val \in Numbers
  BY <1>2, <1>3 DEF SrcOf, IsStream, Carries, StreamType, Srcs, ExecFrames, Numbers, Denied
<1>5. Len(printed[s]) \in Nat
  BY <1>4, ShownMade
<1> HIDE DEF f, s
<1>6. f.val - 1 =< Len(printed[s])
  <2>1. CASE f.val > 1
    <3>1. f.val - 1 \in 1..(f.val - 1) /\ f.val - 1 \in Numbers
      BY <1>4, <2>1, ExecAssumption DEF Numbers
    <3>2. PICK j \in 1..(k - 1) : Carries(wire[j].frame, s, f.val - 1)
      BY <1>1, <1>2, <1>4, <3>1 DEF OutputInOrder, Carries, f
    <3>3. j \in 1..rd
      BY <1>2 DEF k
    <3> QED BY <1>1, <1>4, <3>1, <3>2, <3>3 DEF ShownSoFar
  <2> QED BY <1>4, <1>5, <2>1 DEF Numbers
<1>7. ~(f.val =< Len(printed[s]))
  <2> SUFFICES ASSUME f.val =< Len(printed[s]) PROVE FALSE
    OBVIOUS
  <2>1. PICK i \in 1..rd : Carries(wire[i].frame, s, f.val)
    BY <1>1, <1>4, <1>5 DEF ShownSoFar, Numbers
  <2>2. wire[i].frame \in ExecFrames /\ i \in DOMAIN wire /\ i # k
    BY <1>1, <1>2, ReadEntries DEF k
  <2>3. wire[i].frame = wire[k].frame
    BY <1>2, <1>4, <2>1, <2>2, StreamFrames DEF f
  <2> QED BY <1>1, <1>2, <1>3, <2>2, <2>3 DEF Once, f
<1>8. f.val = Len(printed[s]) + 1
  BY <1>4, <1>5, <1>6, <1>7 DEF Numbers
<1> QED BY <1>4, <1>8 DEF f, s, k

\* A chunk that is printed is the next one.
LEMMA ClientShows ==
    ASSUME RunInv, Shows PROVE CliInv'
<1> DEFINE f == wire[rd + 1].frame
           s == SrcOf(f)
<1>1. RunTypeOK /\ AllRead /\ ShownSoFar /\ SeenSoFar /\ Ended /\ ExecTypeOK
  BY DEF RunInv, RunTypeOK
<1>2. /\ cli = "stream" /\ Arrived(rd + 1) /\ ~IsResult(wire[rd + 1])
      /\ printed' = [printed EXCEPT ![s] = Append(printed[s], f.val)] /\ rd' = rd + 1
      /\ \E n \in Out(s, Len(printed[s]) + 1) : seen' = [seen EXCEPT ![s] = n]
      /\ UNCHANGED <<shell, wire, child, status, made, reader, cli, lost, exit>>
  BY DEF Shows, Show, execVars, taskVars, procVars, pipeVars
<1>3. s \in Srcs /\ Carries(f, s, f.val) /\ f.val \in Numbers /\ f.val = Len(printed[s]) + 1
  BY <1>2, ShowsNext
<1>4. f \in ExecFrames /\ rd \in Nat /\ rd + 1 \in 0..Len(wire) /\ Whole(wire[rd + 1])
  BY <1>1, <1>2, ReadEntries, NextEntry
<1>5. printed \in [Srcs -> Seq(Numbers)]
  BY <1>1 DEF RunTypeOK, Numbers
<1> HIDE DEF f, s
<1>6. /\ printed'[s] \in Seq(Numbers) /\ Len(printed'[s]) = Len(printed[s]) + 1
      /\ DOMAIN printed'[s] = 1..(Len(printed[s]) + 1) /\ DOMAIN printed[s] = 1..Len(printed[s])
      /\ Len(printed[s]) \in Nat
      /\ \A i \in 1..Len(printed[s]) : printed'[s][i] = printed[s][i]
      /\ printed'[s][Len(printed[s]) + 1] = f.val
      /\ \A r \in Srcs : r # s => printed'[r] = printed[r]
  <2>1. printed'[s] = Append(printed[s], f.val) /\ \A r \in Srcs : r # s => printed'[r] = printed[r]
    BY <1>2, <1>3, <1>5
  <2>2. printed[s] \in Seq(Numbers) /\ f.val \in Numbers
    BY <1>3, <1>5
  <2> QED BY <2>1, <2>2, AppendFacts
<1>7. printed' \in [Srcs -> Seq(Numbers)]
  BY <1>2, <1>5, <1>6
<1>8. SeenSoFar' /\ seen' \in [Srcs -> 0..MaxChunks]
  <2>1. PICK n \in Out(s, Len(printed[s]) + 1) : seen' = [seen EXCEPT ![s] = n]
    BY <1>2
  <2>2. /\ seen \in [Srcs -> 0..MaxChunks] /\ MaxChunks \in Nat /\ Len(printed[s]) + 1 \in 1..MaxChunks
        /\ \A r \in Srcs : seen[r] =< Len(printed[r]) /\ (r = "err" => seen[r] = Len(printed[r]))
    BY <1>1, <1>3, ExecAssumption DEF RunTypeOK, SeenSoFar, Numbers
  <2>3. n \in 0..(Len(printed[s]) + 1) /\ (s = "err" => n = Len(printed[s]) + 1)
    BY <1>3, <1>6, <2>1, <2>2 DEF Out
  <2>4. seen' \in [Srcs -> 0..MaxChunks] /\ seen'[s] = n /\ \A r \in Srcs : r # s => seen'[r] = seen[r]
    BY <1>3, <2>1, <2>2, <2>3
  <2>5. ASSUME NEW r \in Srcs
        PROVE  seen'[r] =< Len(printed'[r]) /\ (r = "err" => seen'[r] = Len(printed'[r]))
    BY <1>6, <2>2, <2>3, <2>4
  <2> QED BY <2>4, <2>5 DEF SeenSoFar
<1>9. CliTyped'
  BY <1>1, <1>2, <1>4, <1>7, <1>8 DEF CliTyped, RunTypeOK, Numbers
<1>10. AllRead'
  BY <1>1, <1>2, <1>4 DEF AllRead, Whole
<1>11. ASSUME NEW r \in Srcs
      PROVE  /\ \A i \in DOMAIN printed'[r] : printed'[r][i] = i
             /\ \A i \in 1..rd', n \in Numbers : Carries(wire'[i].frame, r, n) => n =< Len(printed'[r])
             /\ \A n \in 1..Len(printed'[r]) : \E i \in 1..rd' : Carries(wire'[i].frame, r, n)
  <2>1. \A i \in 1..rd' : i \in 1..rd \/ (i = rd + 1 /\ wire'[i].frame = f)
    BY <1>2, <1>4 DEF f
  <2>2. CASE r = s
    <3>1. \A i \in DOMAIN printed'[r] : printed'[r][i] = i
      <4>1. \A i \in 1..Len(printed[s]) : printed[s][i] = i
        BY <1>1, <1>3, <1>6 DEF ShownSoFar
      <4> QED BY <1>3, <1>6, <2>2, <4>1
    <3>2. \A i \in 1..rd', n \in Numbers : Carries(wire'[i].frame, r, n) => n =< Len(printed'[r])
      <4>1. ASSUME NEW n \in Numbers, Carries(f, r, n) PROVE n =< Len(printed'[r])
        BY <1>3, <1>6, <2>2, <4>1 DEF Carries
      <4>2. ASSUME NEW n \in Numbers, NEW i \in 1..rd, Carries(wire[i].frame, r, n) PROVE n =< Len(printed'[r])
        <5>1. n =< Len(printed[r])
          BY <1>1, <4>2 DEF ShownSoFar
        <5> QED BY <1>6, <2>2, <5>1 DEF Numbers
      <4> QED BY <1>2, <2>1, <4>1, <4>2
    <3>3. \A n \in 1..Len(printed'[r]) : \E i \in 1..rd' : Carries(wire'[i].frame, r, n)
      <4>1. ASSUME NEW n \in 1..Len(printed[r]) PROVE \E i \in 1..rd' : Carries(wire'[i].frame, r, n)
        <5>1. PICK i \in 1..rd : Carries(wire[i].frame, r, n)
          BY <1>1, <4>1 DEF ShownSoFar
        <5>2. i \in 1..rd' /\ wire'[i] = wire[i]
          BY <1>2, <1>4
        <5> QED BY <5>1, <5>2
      <4>2. rd + 1 \in 1..rd' /\ Carries(wire'[rd + 1].frame, r, Len(printed[r]) + 1)
        BY <1>2, <1>3, <1>4, <2>2 DEF f
      <4> QED BY <1>6, <2>2, <4>1, <4>2
    <3> QED BY <3>1, <3>2, <3>3
  <2>3. CASE r # s
    <3>1. printed'[r] = printed[r]
      BY <1>6, <2>3
    <3>2. \A n : ~Carries(f, r, n)
      BY <1>3, <2>3, StreamFrames
    <3>3. \A i \in DOMAIN printed'[r] : printed'[r][i] = i
      BY <1>1, <3>1 DEF ShownSoFar
    <3>4. \A i \in 1..rd', n \in Numbers : Carries(wire'[i].frame, r, n) => n =< Len(printed'[r])
      BY <1>1, <1>2, <2>1, <3>1, <3>2 DEF ShownSoFar
    <3>5. \A n \in 1..Len(printed'[r]) : \E i \in 1..rd' : Carries(wire'[i].frame, r, n)
      <4>1. \A n \in 1..Len(printed'[r]) : \E i \in 1..rd : Carries(wire'[i].frame, r, n)
        BY <1>1, <1>2, <3>1 DEF ShownSoFar
      <4>2. \A i \in 1..rd : i \in 1..rd'
        BY <1>2, <1>4
      <4> QED BY <4>1, <4>2
    <3> QED BY <3>3, <3>4, <3>5
  <2> QED BY <2>2, <2>3
<1>12. ShownSoFar'
  BY <1>11 DEF ShownSoFar, Carries
<1>13. exit' = Running
  BY <1>1, <1>2 DEF RunTypeOK
<1>14. Ended'
  BY <1>13 DEF Ended, Running, check_shell
<1>15. Flushed'
  BY <1>13 DEF Flushed
<1> QED BY <1>9, <1>10, <1>12, <1>14, <1>8, <1>15 DEF CliInv

\* The low byte of -1, the code of a shell that a signal ended.
LEMMA LowByte == (-1) % 256 = 255
<1>1. \A x \in Int : x % 256 \in 0..255 /\ x \div 256 \in Int /\ x = 256 * (x \div 256) + (x % 256)
  OBVIOUS
<1>2. \A q \in Int, r \in 0..255 : -1 = 256 * q + r => r = 255
  OBVIOUS
<1> DEFINE m == -1
<1>3. m \in Int /\ m = -1
  OBVIOUS
<1> HIDE DEF m
<1> DEFINE q == m \div 256
           r == m % 256
<1>4. r \in 0..255 /\ q \in Int /\ m = 256 * q + r
  BY <1>1, <1>3, Zenon
<1> HIDE DEF q, r
<1>5. r = 255
  BY <1>2, <1>3, <1>4
<1> QED BY <1>5 DEF m, r

\* The exit status of the client is the low byte of the code, or 126.
LEMMA StatusOf ==
    ASSUME NEW f \in ExecFrames, f.type \in {"EXEC_EXIT", "POLICY_DENIED"}
    PROVE  /\ ExitStatus(f) \in 0..255
           /\ ExitStatus(f) = 0 => f.type = "EXEC_EXIT" /\ f.val = 0
           /\ f = Denied => ExitStatus(f) = 126
<1>1. CASE f.type = "EXEC_EXIT"
  <2>1. f.val \in 0..255 \/ f.val = -1
    <3>1. f.val \in ExitCodes
      BY <1>1 DEF ExecFrames, Denied
    <3>2. \A c \in Codes : c \in 0..255
      BY ExecAssumption
    <3>3. f.val \in Codes \/ f.val = -1 \/ f.val = 124
      BY <3>1 DEF ExitCodes
    <3> QED BY <3>2, <3>3
  <2>2. CASE f.val \in 0..255
    <3>1. f.val % 256 = f.val
      BY <2>2
    <3> QED BY <1>1, <2>2, <3>1 DEF ExitStatus, Denied
  <2>3. CASE f.val = -1
    <3>1. f.val % 256 = 255
      BY <2>3, LowByte
    <3> QED BY <1>1, <3>1 DEF ExitStatus, Denied
  <2> QED BY <2>1, <2>2, <2>3
<1>2. CASE f.type = "POLICY_DENIED"
  BY <1>2 DEF ExitStatus
<1> QED BY <1>1, <1>2

\* When the client exits with the code of the command it has printed all of it.
LEMMA ClientFinishes ==
    ASSUME RunInv, Finishes PROVE CliInv'
<1> DEFINE f == wire[rd + 1].frame
<1>1. /\ RunTypeOK /\ AllRead /\ ShownSoFar /\ SeenSoFar /\ ExecTypeOK /\ ExecInv
      /\ ResultsLast /\ ExitSettled /\ Refused
  BY DEF RunInv, RunTypeOK, WireInv
<1>2. /\ cli = "stream" /\ Arrived(rd + 1) /\ IsResult(wire[rd + 1])
      /\ exit' = ExitStatus(f) /\ cli' = "exited" /\ rd' = rd + 1
      /\ UNCHANGED <<shell, wire, child, status, made, reader, printed>>
  BY DEF Finishes, Finish, Ends, Exits, ClientOnly, taskVars, procVars, pipeVars
<1>3. /\ f \in ExecFrames /\ rd \in Nat /\ rd + 1 \in DOMAIN wire /\ rd + 1 \in 0..Len(wire)
      /\ Whole(wire[rd + 1]) /\ f.type \in {"EXEC_EXIT", "POLICY_DENIED"}
  BY <1>1, <1>2, ReadEntries, NextEntry DEF IsResult
<1> HIDE DEF f
<1>4. exit' \in 0..255
  BY <1>2, <1>3, StatusOf
<1>5. SeenSoFar' /\ Flushed' /\ seen' \in [Srcs -> 0..MaxChunks] /\ lost' \in BOOLEAN
  <2>1. Ends(ExitStatus(f))
    BY DEF Finishes, Finish, f
  <2> QED BY <1>1, <2>1, ShownMade, Flushes
<1>6. CliTyped'
  <2>1. exit' # Running
    BY <1>4 DEF Running
  <2> QED BY <1>1, <1>2, <1>3, <1>4, <1>5, <2>1 DEF CliTyped, RunTypeOK
<1>7. AllRead'
  BY <1>1, <1>2, <1>3 DEF AllRead, Whole
<1>8. \A n : \A s \in Srcs : ~Carries(f, s, n)
  BY <1>3 DEF Carries, StreamType, Srcs
<1>9. ASSUME NEW s \in Srcs
      PROVE  /\ \A i \in DOMAIN printed'[s] : printed'[s][i] = i
             /\ \A i \in 1..rd', n \in Numbers : Carries(wire'[i].frame, s, n) => n =< Len(printed'[s])
             /\ \A n \in 1..Len(printed'[s]) : \E i \in 1..rd' : Carries(wire'[i].frame, s, n)
  <2>1. \A i \in 1..rd' : i \in 1..rd \/ (i = rd + 1 /\ wire'[i].frame = f)
    BY <1>2, <1>3 DEF f
  <2>2. \A i \in 1..rd : i \in 1..rd'
    BY <1>2, <1>3
  <2> QED BY <1>1, <1>2, <1>8, <2>1, <2>2 DEF ShownSoFar
<1>10. ShownSoFar'
  BY <1>9 DEF ShownSoFar, Carries
<1>11. ASSUME exit' = 0
      PROVE  /\ child' = "reaped" /\ status' = 0
             /\ \A s \in Srcs : reader'[s] = "err" \/ (reader'[s] = "eof" /\ Len(printed'[s]) = made'[s])
  <2>1. f.type = "EXEC_EXIT" /\ f.val = 0 /\ f.val # TimedOut
    <3>1. ExitStatus(f) = 0
      BY <1>2, <1>11
    <3> QED BY <1>3, <3>1, StatusOf DEF TimedOut
  <2>2. status = 0 /\ child = "reaped" /\ Stopped /\ AllSent
    BY <1>1, <1>3, <2>1 DEF ExitSettled, f
  <2>3. ASSUME NEW s \in Srcs, reader[s] # "err" PROVE Len(printed[s]) = made[s]
    <3>1. Len(printed[s]) \in Nat /\ Len(printed[s]) =< made[s] /\ made[s] \in Nat
      BY <1>1, ShownMade, ExecAssumption DEF ExecTypeOK
    <3>2. CASE made[s] > 0
      <4>1. PICK i \in DOMAIN wire : Carries(wire[i].frame, s, made[s])
        BY <2>2, <2>3, <3>1, <3>2 DEF AllSent, Delivered
      <4>2. i \in Nat /\ i # rd + 1 /\ ~IsResult(wire[i])
        <5>1. i \in Nat /\ ~IsResult(wire[i])
          BY <1>1, <4>1, WireTyped DEF Carries, StreamType, IsResult
        <5> QED BY <1>2, <5>1
      <4>3. ~(rd + 1 < i)
        BY <1>1, <1>2, <1>3, <4>2 DEF ResultsLast
      <4>4. i \in 1..rd
        <5>1. i \in 1..Len(wire) /\ Len(wire) \in Nat
          BY <1>1, ReadEntries
        <5> QED BY <1>3, <4>2, <4>3, <5>1
      <4>5. made[s] \in Numbers
        BY <1>1, <3>1, <3>2, ExecAssumption DEF ExecTypeOK, Numbers
      <4>6. made[s] =< Len(printed[s])
        BY <1>1, <4>1, <4>4, <4>5 DEF ShownSoFar
      <4> QED BY <3>1, <4>6
    <3> QED BY <3>1, <3>2
  <2>4. \A s \in Srcs : reader[s] \in {"eof", "err"}
    BY <2>2 DEF Stopped
  <2> QED BY <1>2, <2>2, <2>3, <2>4
<1>12. ASSUME ~check_shell(shell) PROVE exit' = 126
  <2>1. f = Denied
    BY <1>1, <1>3, <1>12 DEF Refused, f
  <2> QED BY <1>2, <1>3, <2>1, StatusOf
<1>13. Ended'
  BY <1>2, <1>11, <1>12 DEF Ended, check_shell
<1> QED BY <1>6, <1>7, <1>10, <1>13, <1>5 DEF CliInv

-----------------------------------------------------------------------------
(***************************************************************************)
(* The theorems.                                                           *)
(***************************************************************************)

\* The invariant holds before anything was sent.
LEMMA RunInvInit == RunInit => RunInv
<1> SUFFICES ASSUME RunInit PROVE RunInv
  OBVIOUS
<1>1. WireInv /\ ExecTypeOK
  BY WireInit DEF RunInit, WireInv, ExecInv
<1>2. RunTypeOK
  <2>1. printed \in [Srcs -> Seq(1..MaxChunks)] /\ seen \in [Srcs -> 0..MaxChunks]
    BY ExecAssumption DEF RunInit
  <2>2. rd \in 0..Len(wire)
    BY <1>1, WireTyped DEF RunInit
  <2> QED BY <1>1, <2>1, <2>2 DEF RunInit, RunTypeOK, Running
<1>3. AllRead
  BY DEF RunInit, AllRead
<1>4. ShownSoFar
  BY DEF RunInit, ShownSoFar
<1>5. Flushed /\ Ended
  BY DEF RunInit, Flushed, Ended, Running
<1>6. SeenSoFar
  BY DEF RunInit, SeenSoFar
<1> QED BY <1>1, <1>2, <1>3, <1>4, <1>5, <1>6 DEF RunInv

\* Every step of either end keeps it.
LEMMA RunInvStep == RunInv /\ [RunNext]_runVars => RunInv'
<1> SUFFICES ASSUME RunInv, [RunNext]_runVars PROVE RunInv'
  OBVIOUS
<1>1. RunTypeOK /\ WireInv
  BY DEF RunInv
<1>2. WireInv'
  BY <1>1, RunIsExec, WireStep
<1>3. CliInv'
  BY <1>1, RunKinds, ServerKeeps, ClientGoes, ClientShows, ClientFinishes
<1>4. srv' \in {"load", "auth", "loop", "exec", "closed"}
  BY <1>1, SrvTyped
<1>5. RunTypeOK'
  BY <1>2, <1>3, <1>4 DEF RunTypeOK, CliInv, CliTyped, WireInv, ExecInv
<1> QED BY <1>2, <1>3, <1>5 DEF RunInv, CliInv

\* RunInv is an invariant of the client, the session and the execution together.
THEOREM RunInvariance == RunSpec => []RunInv
  BY RunInvInit, RunInvStep, PTL DEF RunSpec

\* The state of both ends stays within its type (main.rs:263-355, session.rs:27-279).
THEOREM RunTypeCorrect == RunSpec => []RunTypeOK
<1>1. RunInv => RunTypeOK
  BY DEF RunInv
<1> QED BY <1>1, RunInvariance, PTL

\* At every moment the client has printed a prefix of each stream, and the user
\* seen a prefix of that, whatever is cut, killed or lost (main.rs:319-335
\* against session.rs:207-255).
THEOREM PrefixShown == RunSpec => []ShownIsPrefix
<1>1. RunInv => ShownIsPrefix
  <2> SUFFICES ASSUME RunInv, NEW s \in Srcs
               PROVE  /\ seen[s] =< Len(printed[s]) /\ Len(printed[s]) =< made[s]
                      /\ \A i \in DOMAIN printed[s] : printed[s][i] = i
    BY DEF ShownIsPrefix
  <2> QED BY ShownMade DEF RunInv, ShownSoFar, SeenSoFar
<1> QED BY <1>1, RunInvariance, PTL

\* Exit status 0 means that the command ended with 0 and that the client printed
\* all it wrote to a pipe that could be read to its end; the user has seen all of
\* stderr, and all of stdout unless the flush in process::exit failed
\* (main.rs:333, 336-340 against session.rs:238-260).
THEOREM RealSuccess == RunSpec => []SuccessIsReal
<1>1. RunInv => SuccessIsReal
  <2> SUFFICES ASSUME RunInv, exit = 0 PROVE SuccessIsReal
    BY DEF SuccessIsReal
  <2>1. \A s \in Srcs : seen[s] = Len(printed[s]) \/ (s = "out" /\ lost)
    BY DEF RunInv, Flushed, Running, Killed
  <2> QED BY <2>1 DEF RunInv, Ended, SuccessIsReal
<1> QED BY <1>1, RunInvariance, PTL

\* A line with a denied pattern never runs, shows nothing and exits with no
\* status of a command (policy.rs, session.rs:175-188, main.rs:341-344).
THEOREM DeniedStays == RunSpec => []DeniedNeverRuns
<1>1. RunInv => DeniedNeverRuns
  <2> SUFFICES ASSUME RunInv, ~check_shell(shell)
               PROVE  /\ child = "none" /\ \A s \in Srcs : printed[s] = <<>>
                      /\ exit \in {Running, Killed, 1, 126}
    BY DEF DeniedNeverRuns, check_shell
  <2>1. RunTypeOK /\ ExecTypeOK /\ Refused /\ ShownSoFar /\ Ended
    BY DEF RunInv, WireInv, RunTypeOK
  <2>2. ASSUME NEW s \in Srcs PROVE printed[s] = <<>>
    <3>1. printed[s] \in Seq(1..MaxChunks)
      BY <2>1 DEF RunTypeOK
    <3>2. CASE printed[s] # <<>>
      <4>1. 1 \in 1..Len(printed[s])
        BY <3>1, <3>2
      <4>2. PICK i \in 1..rd : Carries(wire[i].frame, s, 1)
        BY <2>1, <4>1 DEF ShownSoFar
      <4>3. wire[i].frame = Denied
        <5>1. i \in DOMAIN wire
          BY <2>1, ReadEntries
        <5> QED BY <2>1, <5>1 DEF Refused
      <4> QED BY <4>2, <4>3 DEF Carries, Denied, StreamType
    <3> QED BY <3>2
  <2> QED BY <2>1, <2>2 DEF Refused, Ended
<1> QED BY <1>1, RunInvariance, PTL
=============================================================================
