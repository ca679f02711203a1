------------------------------- MODULE SaoRun -------------------------------
(***************************************************************************)
(* `sao run` from end to end: the client of sao-client/src/main.rs         *)
(* (run_session), the session of sao-server/src/session.rs (run_session)   *)
(* and the execution of SaoExec between them, over one connection.         *)
(*                                                                         *)
(* The client has no timer and no way to resynchronise: it reads a header, *)
(* then as many bytes as the header announces.  `wire` of SaoExec is what  *)
(* it reads, frame by frame; where SaoExec left a frame cut off, the bytes *)
(* of the next frame complete it.                                          *)
(*                                                                         *)
(* The three small frames of the authentication are exchanged in lock step *)
(* over empty buffers and are modelled as whole messages.                  *)
(*                                                                         *)
(* Rust's stdout is line-buffered: what write_all took is out of the       *)
(* process up to the last newline; the tail waits for a later write or for *)
(* the flush at exit, whose error nobody sees.  stderr has no buffer.      *)
(***************************************************************************)
EXTENDS SaoExec

VARIABLES
    keys,     \* authorized_keys: "usable" | "other" (lacks this agent's key) | "bad"
    srv,      \* run_session of the server: where it is
    s2c,      \* authentication frames on their way to the client
    c2s,      \* frames on their way to the server
    cli,      \* run_session of the client: where it is
    rd,       \* entries of `wire` the client has consumed
    printed,  \* chunks given to write_all, per stream
    seen,     \* how many of them have left the process
    lost,     \* the flush of stdout at exit failed
    exit      \* exit status of the client process, or Running

sessVars == <<keys, srv, s2c, c2s>>
cliVars  == <<cli, rd, printed, seen, lost, exit>>
runVars  == <<execVars, sessVars, cliVars>>

Running == -1
Killed  == 137     \* the client dies of a signal

RunInit ==
    /\ ExecInit
    /\ keys \in {"usable", "other", "bad"}
    /\ srv = "load" /\ s2c = <<>> /\ c2s = <<>>
    /\ cli = "challenge" /\ rd = 0 /\ exit = Running
    /\ printed = [s \in Srcs |-> <<>>] /\ seen = [s \in Srcs |-> 0] /\ lost = FALSE

(***************************************************************************)
(* The server's session.                                                   *)
(***************************************************************************)
Challenge ==
    /\ srv = "load"
    /\ \/ keys = "bad" /\ srv' = "closed" /\ UNCHANGED s2c
       \/ keys # "bad" /\ srv' = "auth" /\ s2c' = Append(s2c, "AUTH_CHALLENGE")
    /\ UNCHANGED <<execVars, keys, c2s, cliVars>>

Authenticate ==
    /\ srv = "auth" /\ c2s # <<>>
    /\ c2s' = Tail(c2s)
    /\ \/ keys = "usable" /\ srv' = "loop" /\ s2c' = Append(s2c, "AUTH_OK")
       \/ keys # "usable" /\ srv' = "closed" /\ s2c' = Append(s2c, "AUTH_FAIL")
    /\ UNCHANGED <<execVars, keys, cliVars>>

StartExec ==
    /\ srv = "loop" /\ c2s # <<>>
    /\ c2s' = Tail(c2s) /\ srv' = "exec"
    /\ UNCHANGED <<execVars, keys, s2c, cliVars>>

AfterExec(onErr) ==
    /\ srv = "exec" /\ pc \in Returned
    /\ srv' = IF pc = "ok" THEN "loop" ELSE onErr
    /\ UNCHANGED <<execVars, keys, s2c, c2s, cliVars>>

MutExecReturns == AfterExec("loop")      \* mutant: the error is swallowed

ExecReturns == AfterExec("closed")       \* run_one_exec(..).await?

\* read_frame meets the end of the stream
ServerEof ==
    /\ srv \in {"auth", "loop"} /\ c2s = <<>> /\ peer = "gone"
    /\ srv' = "closed"
    /\ UNCHANGED <<execVars, keys, s2c, c2s, cliVars>>

Session == Challenge \/ Authenticate \/ StartExec \/ ExecReturns \/ ServerEof

ExecTask  == srv = "exec" /\ Task /\ UNCHANGED <<sessVars, cliVars>>
Transport == CellAccepted /\ UNCHANGED <<sessVars, cliVars>>
ExecAside == (WriteFails \/ Readers \/ Host) /\ UNCHANGED <<sessVars, cliVars>>
Timer     == Timeout /\ UNCHANGED <<sessVars, cliVars>>

(***************************************************************************)
(* The client.                                                             *)
(***************************************************************************)
Exits(code) == cli' = "exited" /\ exit' = code /\ peer' = "gone"

\* process::exit, or the return of main, flushes stdout and drops the error.
Ends(code) ==
    /\ Exits(code)
    /\ \/ seen' = [s \in Srcs |-> Len(printed[s])] /\ UNCHANGED lost
       \/ \E n \in seen["out"]..(Len(printed["out"]) - 1) :
              seen' = [seen EXCEPT !["out"] = n] /\ lost' = TRUE
    /\ UNCHANGED printed

Answer ==
    /\ cli = "challenge" /\ s2c # <<>>
    /\ s2c' = Tail(s2c) /\ c2s' = Append(c2s, "AUTH_RESPONSE") /\ cli' = "result"
    /\ UNCHANGED <<execVars, keys, srv, rd, printed, seen, lost, exit>>

Request ==
    /\ cli = "result" /\ s2c # <<>>
    /\ s2c' = Tail(s2c)
    /\ \/ /\ Head(s2c) = "AUTH_OK"
          /\ c2s' = Append(c2s, "EXEC_SHELL") /\ cli' = "stream"
          /\ UNCHANGED <<peer, printed, seen, lost, exit>>
       \/ Head(s2c) = "AUTH_FAIL" /\ Ends(1) /\ UNCHANGED c2s
    /\ UNCHANGED <<shell, taskVars, procVars, pipeVars, pastVars, keys, srv, rd>>

SrcOf(f) == IF f.type = "STREAM_STDOUT" THEN "out" ELSE "err"

Arrived(k) == Len(wire) >= k /\ Whole(wire[k])

\* How many of k chunks may be out after write_all took the last of them: no
\* newline in it, a newline and a tail behind it, or a newline at its end.
Out(s, k) == IF s = "err" THEN {k} ELSE {seen[s], k - 1, k}

Show ==
    /\ cli = "stream" /\ Arrived(rd + 1) /\ ~IsResult(wire[rd + 1])
    /\ LET f == wire[rd + 1].frame
           s == SrcOf(f)
       IN  /\ printed' = [printed EXCEPT ![s] = Append(@, f.val)]
           /\ \E n \in Out(s, Len(printed[s]) + 1) : seen' = [seen EXCEPT ![s] = n]
    /\ rd' = rd + 1
    /\ UNCHANGED <<execVars, sessVars, cli, lost, exit>>

\* write_all(&raw)? fails
ShowFails ==
    /\ cli = "stream" /\ Arrived(rd + 1) /\ ~IsResult(wire[rd + 1])
    /\ Ends(1)
    /\ UNCHANGED <<shell, taskVars, procVars, pipeVars, pastVars, sessVars, rd>>

MutExitStatus(f) == IF f.type = "POLICY_DENIED" THEN 126 ELSE 0   \* mutant: the code is not read

\* process::exit(code as i32): the status keeps the low eight bits
ExitStatus(f) == IF f.type = "POLICY_DENIED" THEN 126 ELSE f.val % 256

Finish ==
    /\ cli = "stream" /\ Arrived(rd + 1) /\ IsResult(wire[rd + 1])
    /\ Ends(ExitStatus(wire[rd + 1].frame))
    /\ rd' = rd + 1
    /\ UNCHANGED <<shell, taskVars, procVars, pipeVars, pastVars, sessVars>>

(***************************************************************************)
(* A cut frame.  Cells(k) counts what arrived behind entry k, including    *)
(* the cells of the frame the server is writing.                           *)
(***************************************************************************)
Cells(k) ==
    LET sum[i \in 0..Len(wire)] == IF i = k THEN put ELSE wire[i].put + sum[i - 1]
    IN  sum[Len(wire)]

Torn(k)    == k \in DOMAIN wire /\ ~Whole(wire[k])
Missing(k) == Size(wire[k].frame) - wire[k].put

\* The body the header announced is there, but it is not JSON: serde's error, exit 1.
Garbled ==
    /\ cli = "stream" /\ Torn(rd + 1) /\ Cells(rd + 1) >= Missing(rd + 1)
    /\ Ends(1)
    /\ UNCHANGED <<shell, taskVars, procVars, pipeVars, pastVars, sessVars, rd>>

\* The server is gone and no whole frame is left: UnexpectedEof, exit 1.
ClientEof ==
    /\ srv = "closed" /\ cli # "exited"
    /\ \/ cli \in {"challenge", "result"} /\ s2c = <<>>
       \/ cli = "stream" /\ ~Arrived(rd + 1)
    /\ Ends(1)
    /\ UNCHANGED <<shell, taskVars, procVars, pipeVars, pastVars, sessVars, rd>>

\* A signal: nothing is flushed.
ClientKilled ==
    /\ cli # "exited"
    /\ Exits(Killed)
    /\ UNCHANGED <<shell, taskVars, procVars, pipeVars, pastVars, sessVars>>
    /\ UNCHANGED <<rd, printed, seen, lost>>

Client == Answer \/ Request \/ Show \/ Finish \/ Garbled \/ ClientEof

RunNext == Session \/ ExecTask \/ Transport \/ ExecAside \/ Timer
             \/ Client \/ ShowFails \/ ClientKilled

RunSpec == RunInit /\ [][RunNext]_runVars

(***************************************************************************)
(* A client that reads makes room, so the transport is fair while it does. *)
(***************************************************************************)
FairRunSpec ==
    /\ RunSpec
    /\ WF_runVars(Session) /\ WF_runVars(ExecTask) /\ WF_runVars(Timer)
    /\ WF_runVars(Transport) /\ WF_runVars(Client)
-----------------------------------------------------------------------------
(***************************************************************************)
(* Properties                                                              *)
(***************************************************************************)

\* The state of both ends stays within its type.
RunTypeOK ==
    /\ ExecTypeOK
    /\ srv \in {"load", "auth", "loop", "exec", "closed"}
    /\ cli \in {"challenge", "result", "stream", "exited"}
    /\ rd \in 0..Len(wire)
    /\ printed \in [Srcs -> Seq(1..MaxChunks)]
    /\ seen \in [Srcs -> 0..MaxChunks]
    /\ lost \in BOOLEAN
    /\ exit \in {Running, Killed} \cup 0..255
    /\ (exit = Running) <=> (cli # "exited")

\* What the client has printed of a stream is at every moment a prefix of what
\* the command wrote to it, and what the user has seen a prefix of that: no gap,
\* no repetition, no reordering, whatever is cut, killed or left unflushed.
ShownIsPrefix ==
    \A s \in Srcs :
        /\ seen[s] =< Len(printed[s]) /\ Len(printed[s]) =< made[s]
        /\ \A i \in DOMAIN printed[s] : printed[s][i] = i

\* Exit status 0 is never made up: the command itself ended with 0, and the user
\* has seen all it wrote to a stream whose pipe could be read to its end, but for
\* a tail of stdout that the flush in process::exit could not write: main.rs:339
\* exits 0 all the same (main.rs:333, 336-340 against session.rs:238-260).
SuccessIsReal ==
    exit = 0 =>
        /\ child = "reaped" /\ status = 0
        /\ \A s \in Srcs :
              \/ reader[s] = "err"
              \/ Len(printed[s]) = made[s] /\ (seen[s] = made[s] \/ (s = "out" /\ lost))

\* A line that contains a denied pattern is not run, shows nothing, and the
\* client cannot take the refusal for the status of a command.
DeniedNeverRuns ==
    (\E pat \in deny_substrings : Contains(shell, pat)) =>
        /\ child = "none"
        /\ \A s \in Srcs : printed[s] = <<>>
        /\ exit \in {Running, Killed, 1, 126}

Waiting == cli = "stream" /\ srv = "loop" /\ c2s = <<>>

\* Both ends wait for the other to speak although the request was answered.
MutualWait == Waiting /\ rd < Len(wire)  /\ ~Arrived(rd + 1) /\ Cells(rd + 1) < Missing(rd + 1)

\* Every run of the client comes to an end, unless a frame was cut by the
\* timeout and too little followed it: then both ends wait for ever.
ClientEnds == <>(cli = "exited") \/ <>[]MutualWait

\* After a timeout the 124 frame tells the client so: write_frame "writes one
\* frame" (codec.rs:87) and read_frame "reads one full frame" (codec.rs:53), so
\* the two ends never both wait after an answer.
NoMutualWait == ~MutualWait

=============================================================================
