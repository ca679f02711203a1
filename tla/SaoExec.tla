------------------------------ MODULE SaoExec ------------------------------
(***************************************************************************)
(* run_one_exec of sao-server/src/session.rs: one EXEC_SHELL request, from *)
(* the policy check to the frame that reports its result.                  *)
(*                                                                         *)
(* Five actors take steps of their own: the session task (policy, spawn,   *)
(* the recv/write loop, wait, result), the two reader tasks it spawns, the *)
(* timer of tokio::time::timeout, the shell process with whatever it       *)
(* leaves behind, and the peer, which may go away.  The session task can   *)
(* be suspended at every await, and the timer drops it exactly there: in   *)
(* recv, in wait, or in the middle of write_frame.                         *)
(*                                                                         *)
(* A frame is written as `Size` cells (one for the header, the rest for    *)
(* the body), the points at which write_all can be suspended; a frame all  *)
(* of whose cells are accepted still has its flush to wait for.  A chunk   *)
(* is what one read of a pipe returns, numbered per stream.                *)
(***************************************************************************)
EXTENDS Integers, Sequences

CONSTANTS
    Shells,           \* shell lines a client may ask for: sequences of words
    deny_substrings,  \* PolicyConfig::deny_substrings: a set of such sequences
    Codes,            \* codes the shell may exit with
    MaxChunks,        \* bound: chunks produced per stream
    BodyCells,        \* bound: suspension points in the body of a stream frame
    Tls               \* TRUE: a flush can be pending (TLS); FALSE: plain TCP

ASSUME ExecAssumption ==
    /\ Codes \subseteq 0..255
    /\ MaxChunks \in Nat
    /\ BodyCells \in Nat \ {0}
    /\ Tls \in BOOLEAN

Srcs == {"out", "err"}

(***************************************************************************)
(* Frames of an execution.                                                 *)
(***************************************************************************)
MutSignalled == 137    \* mutant: the shell's convention for SIGKILL

Signalled == -1        \* status.code().unwrap_or(-1)
TimedOut  == 124

StreamType(s) == IF s = "out" THEN "STREAM_STDOUT" ELSE "STREAM_STDERR"

Stream(c)      == [type |-> StreamType(c.src), val |-> c.n]
Exit(code)     == [type |-> "EXEC_EXIT", val |-> code]
Denied         == [type |-> "POLICY_DENIED", val |-> 0]
NoFrame        == [type |-> "none", val |-> 0]

Chunks     == [src : Srcs, n : 1..MaxChunks]
ExitCodes  == Codes \cup {-1, 124}
ExecFrames == [type : {"STREAM_STDOUT", "STREAM_STDERR"}, val : 1..MaxChunks]
                 \cup [type : {"EXEC_EXIT"}, val : ExitCodes]
                 \cup {Denied}

Size(f) == IF f.type \in {"STREAM_STDOUT", "STREAM_STDERR"} THEN BodyCells + 1 ELSE 2

VARIABLES
    shell,    \* the requested shell line
    peer,     \* "open" | "gone": whether the client still reads
    pc,       \* where run_one_exec is
    frame,    \* the frame write_frame is writing, or NoFrame
    put,      \* cells of `frame` accepted by the transport
    wire,     \* what was handed to the transport: frames, and how much of each
    child,    \* "none" | "running" | "zombie" (exited, not reaped) | "reaped"
    status,   \* code of the exited child
    holds,    \* who holds the write end of each pipe: the child, its heirs
    made,     \* chunks written to each pipe
    taken,    \* chunks the reader task took out of it
    reader,   \* "idle" | "run" | "eof" | "err" | "gone" (send failed)
    chan,     \* the unbounded mpsc channel
    kill,     \* whom the timeout's libc::kill hit: "none" | "child" | "stray"
    audit     \* the sao::audit event the execution left, or "none"

taskVars == <<pc, frame, put, wire>>
procVars == <<child, status, holds>>
pipeVars == <<made, taken, reader, chan>>
pastVars == <<kill, audit>>
execVars == <<shell, peer, taskVars, procVars, pipeVars, pastVars>>

Writing  == {"denied", "stream", "exit", "late"}    \* inside write_frame
InTimer  == {"recv", "stream", "wait", "exit"}      \* inside timeout(.., exec)
Returned == {"ok", "err"}
RxOpen   == pc \in InTimer \cup {"late"}
Done     == {"eof", "err", "gone"}

ExecInit ==
    /\ shell \in Shells /\ peer = "open"
    /\ pc = "check" /\ frame = NoFrame /\ put = 0 /\ wire = <<>>
    /\ child = "none" /\ status = 0 /\ holds = [s \in Srcs |-> {}]
    /\ made = [s \in Srcs |-> 0] /\ taken = [s \in Srcs |-> 0]
    /\ reader = [s \in Srcs |-> "idle"] /\ chan = <<>>
    /\ kill = "none" /\ audit = "none"

(***************************************************************************)
(* policy.rs: the line is refused when some pattern is a substring of it.  *)
(***************************************************************************)
Contains(line, pat) ==
    \E i \in 0..(Len(line) - Len(pat)) : SubSeq(line, i + 1, i + Len(pat)) = pat

MutCheckShell(line) == line \notin deny_substrings   \* mutant: whole-line match

check_shell(line) == \A pat \in deny_substrings : ~Contains(line, pat)

(***************************************************************************)
(* SIGKILL reaches the shell itself, never the processes it left behind;   *)
(* those keep their ends of the pipes.                                     *)
(***************************************************************************)
KillChild ==
    /\ child'  = IF child = "running" THEN "zombie" ELSE child
    /\ status' = IF child = "running" THEN Signalled ELSE status
    /\ holds'  = [s \in Srcs |-> holds[s] \ {"child"}]

MutNoKillOnDrop == UNCHANGED procVars

DropChild == KillChild     \* kill_on_drop(true), when `child` goes out of scope

BeginWrite(at, f) == pc' = at /\ frame' = f /\ put' = 0
Leave(at)         == pc' = at /\ frame' = NoFrame /\ put' = 0
Return(result)    == Leave(result) /\ DropChild

(***************************************************************************)
(* The session task.                                                       *)
(***************************************************************************)
Refuse ==
    /\ pc = "check" /\ ~check_shell(shell)
    /\ BeginWrite("denied", Denied)
    /\ UNCHANGED <<shell, peer, wire, procVars, pipeVars, pastVars>>

\* shell_argv too short, or spawn()? failing
SpawnFails ==
    /\ pc = "check" /\ check_shell(shell)
    /\ Return("err")
    /\ UNCHANGED <<shell, peer, wire, pipeVars, pastVars>>

Spawn ==
    /\ pc = "check" /\ check_shell(shell)
    /\ pc' = "recv"
    /\ child' = "running"
    /\ holds' = [s \in Srcs |-> {"child"}]
    /\ reader' = [s \in Srcs |-> "run"]
    /\ UNCHANGED <<shell, peer, frame, put, wire, status, made, taken, chan, pastVars>>

Forward(chunk, rest) ==
    /\ pc = "recv" /\ chan # <<>>
    /\ BeginWrite("stream", Stream(chunk))
    /\ chan' = rest
    /\ UNCHANGED <<shell, peer, wire, procVars, made, taken, reader, pastVars>>

MutRecv == Forward(chan[Len(chan)], SubSeq(chan, 1, Len(chan) - 1))  \* mutant: newest first

Recv == Forward(Head(chan), Tail(chan))

StopReceiving ==
    /\ pc = "recv" /\ chan = <<>>
    /\ pc' = "wait"
    /\ UNCHANGED <<shell, peer, frame, put, wire, procVars, pipeVars, pastVars>>

MutRecvNone == StopReceiving /\ child = "zombie"   \* mutant: stop at the child's exit

\* recv() gives None once the channel is empty and both senders are dropped
RecvNone == StopReceiving /\ \A s \in Srcs : reader[s] \in Done

Reap(code) ==
    /\ pc = "wait" /\ child = "zombie"
    /\ child' = "reaped"
    /\ BeginWrite("exit", Exit(code))
    /\ UNCHANGED <<shell, peer, wire, status, holds, pipeVars, pastVars>>

MutWait == Reap(IF status = Signalled THEN 0 ELSE status)     \* mutant: unwrap_or(0)

Wait == Reap(status)

WaitFails ==
    /\ pc = "wait"
    /\ Return("err")
    /\ UNCHANGED <<shell, peer, wire, pipeVars, pastVars>>

(***************************************************************************)
(* write_frame: cells are accepted one by one, then the flush completes.   *)
(* `Cut` is the wire when the write is abandoned: what was accepted stays. *)
(***************************************************************************)
Entry == [frame |-> frame, put |-> put]
Cut   == IF put > 0 THEN Append(wire, Entry) ELSE wire

CellAccepted ==
    /\ pc \in Writing /\ put < Size(frame)
    /\ put' = put + 1
    /\ UNCHANGED <<shell, peer, pc, frame, wire, procVars, pipeVars, pastVars>>

StreamWritten ==
    /\ pc = "stream" /\ put = Size(frame)
    /\ wire' = Append(wire, Entry)
    /\ Leave("recv")
    /\ UNCHANGED <<shell, peer, procVars, pipeVars, pastVars>>

Event(at) == IF at = "denied" THEN "policy_denied"
             ELSE IF at = "exit" THEN "exec_done" ELSE "exec_timeout"

LastFrameOut ==
    /\ pc \in {"denied", "exit", "late"} /\ put = Size(frame)
    /\ wire' = Append(wire, Entry)
    /\ audit' = Event(pc)
    /\ UNCHANGED <<shell, peer, pipeVars, kill>>

MutResultWritten ==       \* mutant: the Ok(r) arm runs on into the 124 frame
    /\ LastFrameOut
    /\ IF pc = "exit" THEN BeginWrite("late", Exit(TimedOut)) /\ UNCHANGED procVars
       ELSE Return("ok")

\* the frame that ends the execution is out: log it, return Ok(())
ResultWritten == LastFrameOut /\ Return("ok")

WriteFails ==
    /\ pc \in Writing /\ peer = "gone"
    /\ wire' = Cut
    /\ Return("err")
    /\ UNCHANGED <<shell, peer, pipeVars, pastVars>>

(***************************************************************************)
(* The timer.  It looks at the clock when the execution is suspended, so   *)
(* it can fire at each of its awaits; without TLS a flush never suspends.  *)
(***************************************************************************)
TimesOut(points) ==
    /\ pc \in points
    /\ Tls \/ put < Size(frame)
    /\ BeginWrite("late", Exit(TimedOut))
    /\ wire' = Cut
    /\ kill' = IF child = "reaped" THEN "stray" ELSE "child"
    /\ KillChild
    /\ UNCHANGED <<shell, peer, pipeVars, audit>>

MutTimeout == TimesOut({"recv", "wait"})     \* mutant: the writes are not timed

Timeout == TimesOut(InTimer)

(***************************************************************************)
(* A reader task: one read and one send per step; `onFail` is where it     *)
(* goes when the receiver is gone.                                         *)
(***************************************************************************)
NextChunk(s) == [src |-> s, n |-> taken[s] + 1]

Takes(s, onFail) ==
    /\ reader[s] = "run" /\ taken[s] < made[s]
    /\ taken' = [taken EXCEPT ![s] = @ + 1]
    /\ \/ RxOpen /\ chan' = Append(chan, NextChunk(s)) /\ UNCHANGED reader
       \/ ~RxOpen /\ reader' = [reader EXCEPT ![s] = onFail] /\ UNCHANGED chan
    /\ UNCHANGED <<shell, peer, taskVars, procVars, made, pastVars>>

MutReaderTakes(s) == Takes(s, "run")      \* mutant: the result of send is ignored

ReaderTakes(s) == Takes(s, "gone")

ReaderEnds(s, how) ==
    /\ reader[s] = "run"
    /\ reader' = [reader EXCEPT ![s] = how]
    /\ UNCHANGED <<shell, peer, taskVars, procVars, made, taken, chan, pastVars>>

ReaderEof(s) == ReaderEnds(s, "eof") /\ taken[s] = made[s] /\ holds[s] = {}
ReaderErr(s) == ReaderEnds(s, "err")

(***************************************************************************)
(* The environment: the shell and the processes it leaves behind ("heir"), *)
(* the runtime reaping a dropped child, and the client.                    *)
(***************************************************************************)
WritesChunk(s) ==
    /\ holds[s] # {} /\ made[s] < MaxChunks
    /\ made' = [made EXCEPT ![s] = @ + 1]
    /\ UNCHANGED <<shell, peer, taskVars, procVars, taken, reader, chan, pastVars>>

Forks ==
    /\ child = "running"
    /\ holds' = [s \in Srcs |-> IF "child" \in holds[s] THEN {"child", "heir"} ELSE holds[s]]
    /\ UNCHANGED <<shell, peer, taskVars, child, status, pipeVars, pastVars>>

Closes(p, s) ==
    /\ p \in holds[s]
    /\ holds' = [holds EXCEPT ![s] = @ \ {p}]
    /\ UNCHANGED <<shell, peer, taskVars, child, status, pipeVars, pastVars>>

ChildExits(code) ==
    /\ child = "running"
    /\ child' = "zombie" /\ status' = code
    /\ holds' = [s \in Srcs |-> holds[s] \ {"child"}]
    /\ UNCHANGED <<shell, peer, taskVars, pipeVars, pastVars>>

OrphanReaped ==
    /\ pc \in Returned /\ child = "zombie"
    /\ child' = "reaped"
    /\ UNCHANGED <<shell, peer, taskVars, status, holds, pipeVars, pastVars>>

PeerLeaves ==
    /\ peer = "open"
    /\ peer' = "gone"
    /\ UNCHANGED <<shell, taskVars, procVars, pipeVars, pastVars>>

Task    == Refuse \/ SpawnFails \/ Spawn \/ Recv \/ RecvNone \/ Wait \/ WaitFails
             \/ StreamWritten \/ ResultWritten
Writes  == CellAccepted \/ WriteFails
Readers == \E s \in Srcs : ReaderTakes(s) \/ ReaderEof(s) \/ ReaderErr(s)
Host    == \/ \E s \in Srcs : WritesChunk(s) \/ \E p \in {"child", "heir"} : Closes(p, s)
           \/ Forks
           \/ \E code \in Codes \cup {Signalled} : ChildExits(code)
           \/ OrphanReaped
ExecNext == Task \/ Writes \/ Timeout \/ Readers \/ Host \/ PeerLeaves

ExecSpec == ExecInit /\ [][ExecNext]_execVars

(***************************************************************************)
(* Tokio runs every task that is ready and every timer that is due.  What  *)
(* the shell does and whether the peer makes room for more cells is not up *)
(* to the server: no fairness there.                                       *)
(***************************************************************************)
ExecFair ==
    /\ WF_execVars(Task)
    /\ WF_execVars(Timeout)
    /\ \A s \in Srcs : WF_execVars(ReaderTakes(s)) /\ WF_execVars(ReaderEof(s))

FairExecSpec == ExecSpec /\ ExecFair
-----------------------------------------------------------------------------
(***************************************************************************)
(* Properties                                                              *)
(***************************************************************************)

\* Every variable of run_one_exec stays within its type.
ExecTypeOK ==
    /\ shell \in Shells
    /\ pc \in {"check", "recv", "wait"} \cup Writing \cup Returned
    /\ frame \in ExecFrames \cup {NoFrame}
    /\ put \in 0..(BodyCells + 1)
    /\ wire \in Seq([frame : ExecFrames, put : 1..(BodyCells + 1)])
    /\ peer \in {"open", "gone"}
    /\ child \in {"none", "running", "zombie", "reaped"}
    /\ status \in Codes \cup {0, -1}
    /\ holds \in [Srcs -> SUBSET {"child", "heir"}]
    /\ made \in [Srcs -> 0..MaxChunks]
    /\ taken \in [Srcs -> 0..MaxChunks]
    /\ reader \in [Srcs -> {"idle", "run"} \cup Done]
    /\ chan \in Seq(Chunks)
    /\ kill \in {"none", "child", "stray"}
    /\ audit \in {"none", "policy_denied", "exec_done", "exec_timeout"}

Whole(e)    == e.put = Size(e.frame)
Carries(f, s, n) == f.type = StreamType(s) /\ f.val = n
Delivered(s, n)  == \E i \in DOMAIN wire : Whole(wire[i]) /\ Carries(wire[i].frame, s, n)

\* When the execution ends with the exit code of the shell (session.rs:256-260)
\* every chunk anybody wrote to a pipe was sent before it, unless reading that
\* pipe failed: the exit frame waits for both readers and for the channel.
OutputComplete ==
    audit = "exec_done" =>
        \A s \in Srcs : reader[s] = "err" \/ \A n \in 1..made[s] : Delivered(s, n)

\* Each stream reaches the wire in the order it was written and without a gap,
\* however the two readers interleave in the channel, and however it ends.
OutputInOrder ==
    \A i \in DOMAIN wire, s \in Srcs : wire[i].frame.type = StreamType(s) =>
        \A m \in 1..(wire[i].frame.val - 1) :
            \E j \in 1..(i - 1) : Whole(wire[j]) /\ Carries(wire[j].frame, s, m)

\* An exit frame carries the code of a child that was waited for, or 124 after
\* the timeout killed it (session.rs:256-259, 273).
ExitTruthful ==
    \A i \in DOMAIN wire : wire[i].frame.type = "EXEC_EXIT" =>
        \/ wire[i].frame.val = status /\ child = "reaped"
        \/ wire[i].frame.val = TimedOut /\ kill # "none"

\* The shell never outlives run_one_exec, whichever return it takes: write
\* error, wait error, timeout or exit (kill_on_drop, session.rs:198).
NoShellLeft == pc \in Returned => child # "running"

\* libc::kill (session.rs:270) is given the pid of a child that was already
\* reaped, and that the system may have given to another process, only when
\* the command was over and all its output sent: the exit frame was on its way.
StrayKillOnlyAtTheEnd ==
    kill = "stray" =>
        /\ child = "reaped"
        /\ \A s \in Srcs : reader[s] = "err" \/ \A n \in 1..made[s] : Delivered(s, n)

IsResult(e) == e.frame.type \in {"EXEC_EXIT", "POLICY_DENIED"}

\* One result per request, as its last frame: a client that sends several
\* EXEC_SHELL on a session tells their results apart by counting them.  The one
\* exception is a timer that fires while the TLS flush of the exit frame is
\* pending (session.rs:259, 274): the 124 frame then follows a whole result.
SingleResult ==
    \A i \in DOMAIN wire : IsResult(wire[i]) /\ Whole(wire[i]) /\ i < Len(wire) =>
        Tls /\ kill = "stray" /\ wire[i + 1].frame = Exit(TimedOut)

\* "shell-like execution ... with auditable events" (README.md:13): every command
\* that was started leaves an event under the target sao::audit.
EveryExecAudited == pc \in Returned /\ child # "none" => audit # "none"

\* The timeout bounds an execution: the only way never to return is a peer that
\* takes no more data while one of the two untimed frames is written.
ExecEnds == <>(pc \in Returned) \/ <>[](pc \in {"denied", "late"})

\* A reader task left behind by a timeout or an error ends as soon as its pipe
\* is closed or delivers anything more: the receiver is gone.
ReadersStop ==
    \A s \in Srcs :
        (/\ pc \in Returned /\ child # "none"
         /\ holds[s] = {} \/ taken[s] < made[s]) ~> (reader[s] \in Done)

(***************************************************************************)
(* What a client can decode: the frames before the first one that was cut. *)
(***************************************************************************)
Intact     == {i \in DOMAIN wire : \A j \in 1..i : Whole(wire[j])}
Decodable  == [i \in Intact |-> wire[i].frame]
MoreToCome == pc \notin Returned /\ Intact = DOMAIN wire

StreamTypes == {StreamType(s) : s \in Srcs}
SrcNamed(t) == CHOOSE s \in Srcs : StreamType(s) = t

Contract == INSTANCE SaoContract WITH
    Streams   <- StreamTypes,
    Flushes   <- Tls,
    written   <- [t \in StreamTypes |-> made[SrcNamed(t)]],
    lost      <- {StreamType(s) : s \in {r \in Srcs : reader[r] = "err"}},
    got       <- Decodable,
    open      <- MoreToCome

\* run_one_exec keeps its promise, through every interleaving, timeout and error:
\* what a client can decode of an execution is the output in order, then at most
\* one result, the shell's code only behind all of the output, and nothing after
\* it but, over TLS, the 124 of a timer that fired while the flush of the result
\* was pending (session.rs:169-279).
KeepsContract == Contract!ContractSpec

=============================================================================
