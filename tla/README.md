# sao: TLA+ models and proofs

`sao` lets an agent run shell commands on a server: `sao run HOST -- cmd`
connects over TLS, checks the server's key against a pin, authenticates with an
Ed25519 key and has `sao-server` run `bash -lc cmd`, streaming its output back.
This directory holds the models of that path, the TLC configurations that check
them and the proofs TLAPS checks.

    tlc -config ExecSafety.cfg MCExec        # any run of PROJECT.json
    tlapm SaoExecProofs.tla                  # the proofs; likewise every *Proofs.tla

## Inventory

| Part | State | Operations | Interacts with |
|---|---|---|---|
| remote execution (`session.rs`, `run_one_exec`) | child process, two pipes, two reader tasks, an unbounded channel, the frame being written, the timer | policy check, spawn, recv/write loop, wait, result, timeout and kill | its session, the shell, tokio, the client |
| policy (`policy.rs`) | deny patterns | `check_shell` | called before every execution |
| server session (`session.rs`, `run_session`) | keys loaded, nonce, session id, identity | challenge, authentication, request loop | authorized_keys, execution, peer |
| authentication (`authorized_keys.rs`, `auth_message.rs`) | the key file | load, `find_key`, `signing_bytes`, verify | session, client |
| client session (`main.rs`, `run_session`) | connection, exit status | answer, request, print, exit | server session |
| pin management (`main.rs`, `connect.rs`) | map loaded from known_hosts, key offered | resolve, probe, prompt, save, connect, replace | known_hosts, TLS |
| known_hosts (`known_hosts.rs`) | the file, shared by all processes of the user | load, insert, save | pin management, `trust add` |
| frame codec (`codec.rs`, `frame.rs`) | the byte stream, a limit at each end | `read_frame`, `write_frame` | both sessions |
| agent key file (`agent_key.rs`) | private key and .pub | load or create | client session |
| start-up (`sao-server/main.rs`, `tls_util.rs`, `config.rs`) | config, certificate pair, listeners | `init`, generate pair, accept | everything on the server |

What is hard here: an execution has five actors (session task, two readers,
timer, shell with what it leaves behind) and can be dropped at each of its
awaits, in the middle of a frame too; a client has no timer and no way to find
the next frame again; `authorized_keys` and `known_hosts` change while somebody
holds a copy; two `sao` processes rewrite `known_hosts` with no lock, two first
runs make the agent key, an `init` and a starting server use the same four
files; every file is truncated and then written, and a process may end in
between. What makes the parts correct: output complete, in order and followed by one truthful result; no
shell left behind; every execution and every `sao run` ends; only the holder of
a listed key who signed this session's challenge runs commands; no TLS session
over a key nobody accepted; every sound frame arrives as it was written; one
agent key per user and one pin per server, whatever is interrupted; the policy
of the configuration in force. The hazards, line by line, are in `PROJECT.json`.

## Modules

* `SaoExec` is `run_one_exec`. `pc` is where the session task is: `check`,
  `recv`, `stream` (in `write_frame` of a chunk), `wait`, `exit` (writing the
  result), `denied` and `late` (the two frames written outside the timeout),
  `ok` and `err` (returned). A frame is a number of cells, the points where
  `write_all` can be suspended; `wire` holds what was handed to the transport,
  cut frames included. Each reader has its pipe (`made`, `taken`), `holds` says
  who keeps the write ends open. `Timeout` is the whole `Err(_)` arm up to the
  124 frame: it cuts the current write, kills and begins the late frame.
  `DropChild` (kill_on_drop) is part of every return.
* `SaoRun` extends it with the server's session and the client, which reads
  `wire` frame by frame; behind a cut frame it takes the following bytes for
  the rest of the body (`Garbled`), or waits. What it gives to `write_all` is
  `printed`; what has left the process is `seen`. stderr is unbuffered, stdout
  line-buffered: after a chunk the buffer may hold it, its tail or nothing
  (`Out`), and every end but a kill flushes it and ignores an error (`Ends`,
  which notes one in `lost`).
* `SaoSession` has several sessions at once, one task each, against peers that
  may send any frame in any state and replay signatures, and an administrator
  who edits `authorized_keys`. An execution is one step there.
* `SaoTrust` has several `sao` processes over one `known_hosts`, which is its
  text: pieces of names, ports, fingerprints and newlines, one cell each. The two
  reads of the file are kept apart as in the code: `Resolve` loads it before
  probe and prompt and saves that map, `Merge` (mismatch path and `trust add`)
  loads it again just before saving. `fs::write` is `SaveTruncates` and
  `SaveWrites`, or `SaveCut` when it fails or is killed after some cells. A write
  over another's longer text leaves the rest of it (`over`), which may begin in
  the middle of a line; `load` reads what it finds, so behind an overlap
  `www.ex 443 K` can become `ex 443 K`. `past` notes such a `tail`, a `cut` save,
  and a cut save over another's text (`mixed`).
* `SaoContract` is what an execution promises the client: the chunks of each
  stream in order, then one result, the shell's code only behind all output,
  nothing after but, over TLS, one more 124. It knows no task, pipe, channel, child or timer. `SaoExec`
  implements it (`KeepsContract`): `got` is the frames before the first cut
  one, `open` whether `run_one_exec` has not returned and nothing was cut yet,
  `written` the chunks made, `lost` the streams whose reader failed. A timeout
  is an `Answer(124)`, a cut frame `Breaks`, and everything between two frames
  a stutter.
* `SaoFrame` is `FrameCodec` with its real numbers: header bytes, big-endian
  length, a limit at each end. `sent` are the frames on the wire, each with its
  place in the byte stream; a payload that was read is the positions it came
  from. `AbandonWrite` leaves any part of a frame behind; the reader then parses
  whatever bytes come next, so a header cut after seven bytes yields a length
  made of the next frame's magic. `ForeignHeader` sends what the codec's tests
  send. `write_all` and `read_exact` are one step each: a reader waits for all
  of its bytes, so partial arrival changes nothing. The transport loses nothing.
* `SaoKeyFile` is `load_or_create_signing_key` with several processes over
  `agent.ed25519` and its `.pub`: the look at the file, the reading or the two
  steps of `fs::write`, the two steps for `.pub`, the return.
* `SaoBoot` is `sao-server init [--force]` and the start of the server up to the
  bound port. `proc[p].pc` is the step a process is at, or the file it writes;
  `After` is the order of the writes. A step that needs a readable certificate
  or key is enabled only with one; otherwise the process can only end, as with
  `?`. `past` notes what excuses a bad state: a race of two generating
  processes, an init overlapping another process, `--force`, a truncated file.
* `SaoExecProofs`, `SaoRunProofs`, `SaoSessionProofs`, `SaoTrustProofs`,
  `SaoFrameProofs`, `SaoKeyFileProofs` and `SaoBootProofs` hold the theorems about
  the module each is named for; `SaoWireProofs` has those about what a client can
  decode of an execution, `SaoContract` among them. `MC*` give the constants values.

Data is abstracted to what properties tell apart: a chunk is its number, a shell
line a sequence of words, a key, nonce or fingerprint a model value, a signature
the key and the bytes it was made over, a file that does not parse a marker.
Formatting, base64 and JSON appear only where they can fail. A configuration is
"saved by init" or "default", the two that differ in the deny patterns and in
`auto_generate_self_signed`; a certificate and a key are the pair they belong to.

## Runs

| Run | Checks | Instance |
|---|---|---|
| exec_safety | type, complete and ordered output, truthful exit, no shell left, stray kill only after all output, one result; the contract is implemented; the execution returns unless the peer stalls an untimed frame; readers stop | two chunks per stream, TLS; 470 thousand states |
| exec_audit | **violated**: every command that ran left an audit event | one chunk |
| run_safety | the user sees a prefix of each stream; exit 0 is real; a denied line never runs | two chunks, one body cell; 3.2 million states |
| run_live | the client ends, or both ends wait behind a cut frame | one chunk, body of three cells; 236 thousand states |
| run_mutual_wait | **violated**: the two never wait for each other after an answer | the same |
| session_safety | only the signer of this session's challenge, with a listed key, runs anything; a refusal is final; a session whose peer left is closed | two sessions, two keys, two nonces; 1.4 million states |
| frame_codec | frames arrive as written, none is refused without cause, no more is allocated than the limit | limits 10 and 2^20 at either end, lengths around both and around each byte of the length, one cut after 11 different bytes, two frames; 95 thousand states |
| key_file | one identity unless two calls created at once; an undisturbed call leaves both files right; an unusable file only by an interrupted write; a key once settled stays | three processes, three keys; 36 thousand states |
| boot | one pin for ever; a broken pair only by an interrupted key write; deny patterns in force; the administrator's keys kept; up to the exceptions in `past` | two processes, three pairs; 360 thousand states |
| trust_safety | no pin and no session for a key nobody accepted, but for what an overlap of two saves leaves; the confirmed key is the one used | two processes, two hosts (one's name the end of the other's), two keys, questions on a terminal, kills anywhere, saves cut after none, two or five cells; 1.5 million states |
| trust_alone | pins are kept until a save fails, commands end | one process at a time, three spellings, all modes, saves cut after any cell; 205 thousand states |
| trust_lost | **violated**: pins are kept with two processes | two processes, no save cut in the counterexample |

Why these bounds are enough: two chunks per stream give a chunk in the pipe, one
in the channel and one being written, and every order of two of a stream; one
body cell already lets a frame be cut, and with three the 124 frame (two cells)
can be too short to fill the gap. Two sessions and two nonces give equal and
different nonces; two processes give every overlap of load and save, and two
hosts a pin that can be lost by a save of the other, or turned into a pin of the
other when one name is the end of the other. A save cut after none, two or five
cells leaves nothing, ends inside its first line, or (of both hosts, nine cells)
inside its second.
In `trust_safety` a user is always asked: `--accept-new` takes the same steps
without the question, and a batch run saves nothing. `VIEW Seen` leaves out the
histories that only `FileIsLedger`, which this run does not check, depends on: no
action looks at them. Two frames put one behind
whatever the first did to the stream; a length needs at most one case on each
side of a limit or of a power of 256. With three client processes two can race
while the third comes after; with three pairs a server generates once more after
each of two others. Symmetry permutes processes, keys, pairs and fingerprints in
`key_file`, `boot` and two of the trust runs, which check no liveness.

Deadlock is not checked: an execution, a client and a session stop when they are
done, and what must not stop is stated as a liveness property.

**Fairness.** Weak fairness of the session task, of readers that have something
to read and of the timer: tokio polls ready tasks and due timers. None for the
shell (it may run for ever), for pipes kept open by others, or for the
transport in `exec_safety`, because whether cells are accepted is up to the peer.
In `run_live` the peer is the real client, which reads whenever it can, so the
transport is fair there. In `session_safety` only what the server does by itself
is fair, never that a peer sends. In `trust_alone` the steps of a command are
fair, the user's answer to a prompt and the network's answer included. In `frame_codec` only the reader is
fair: `FramesArrive` asks nothing of the writer. Invariants do not depend on
fairness, so runs that check both use the fair specification.

## What the violated runs show

* `run_mutual_wait`: the timeout cuts a stream frame (`session.rs:264`) and the
  124 frame is written into it (`274`). The client then fails on the JSON or
  waits for ever. `ClientEnds` says this is the only way a run does not end.
* `exec_audit`: an error between spawn and result leaves no audit event.
* `trust_lost`: `save` rewrites the file from a map loaded earlier, so a pin
  saved meanwhile is lost although no save failed; the README calls the operation
  "Append".

More behaviours are written into the passing properties as exceptions: under TLS a second result can follow an exit frame whose flush was pending
(`SingleResult`), and `libc::kill` can be given the pid of a reaped child
(`StrayKillOnlyAtTheEnd`: only when all output had been sent). A read error on
a pipe passes for its end (`OutputComplete`, `SuccessIsReal`). stdout of the
client is flushed last in `process::exit`, which drops the error, so a tail
without a newline can be missing behind an exit status 0 (`SuccessIsReal`). A
save of `known_hosts` that fails after the truncation, on a full disk say, loses
all pins, in a single process that nobody kills (`FileIsLedger`). Two saves that
overlap can leave the end of one host's name as a host of its own, pinned to the
other's key, and a session then runs over it without a question
(`PinsAccepted`, `SessionKeyAccepted`); if one of them was also cut, the text of
both can meet in the middle of a name, and the properties promise nothing.
The same holds for start-up and keys: an interrupted first call can leave an
empty key file that blocks every later one (`UnusableOnlyIfTorn`), an
interrupted write of the TLS key a pair no start accepts (`BrokenOnlyIfTorn`),
and an init that overlaps a start, or is forced and interrupted, a server
without deny patterns (`PolicyInForce`). The last case needs an empty YAML
document to be read as all defaults; where it is an error instead, the process
ends there, which the model allows as well.

## Proofs

Every invariant and every action property the passing runs check is proved, and
so is the refinement of `SaoContract`, for every value of the constants the
assumptions allow. What remains with TLC is liveness: fairness is out of the
prover's reach.

The assumptions ask of a constant no more than that it is of its kind, that
marks for "none" are not values, and:

* `TrustAssumption`: some name can be typed, a name stands for a host,
  `HostOrder` names no host twice, a host has a name and a port, and the end of a
  host's name is a host too (so `Hosts` is all that a file can come to name; names
  of any lengths are allowed);
* `BootAssumption`: an absent and an empty file differ from each other and from
  every content;
* `FrameAssumption`: a limit has four bytes (`max_payload_len` is a `u32`).

The bounds that keep TLC's instances small (`MaxChunks`, `MaxFrames` and so on)
are any natural numbers there, so the theorems hold for runs of any length.

### Execution (`SaoExecProofs`)

The invariants of `exec_safety` are not inductive alone. `ExecInv` adds where
each thing is at each point of the code:

* `AtPoint`: what frame is being written and in what state the child is, per `pc`;
* `BeforeSpawn`: nothing has happened yet before the spawn;
* `ReaderInv`: what a reader took is never more than what was written, and a
  reader at end of file took everything from a pipe nobody holds;
* `ChunkPath`: until the timeout a chunk a reader took is in the channel, in the
  frame being written, or whole on the wire, and no later one overtakes it;
* `Drained`: from `wait` on both readers have stopped and all they saw is sent;
* `NoResultYet`: no whole result is on the wire while one can still be written,
  but for an exit frame whose flush the timer cut;
* `StrayReaped`: a stray kill happens only after the child was reaped.

The argument: chunks move along `ChunkPath` and never leave it, `Drained` makes
the path end on the wire when the exit frame begins, and after that nothing is
produced, since a drained pipe has no holder. `Invariance` has one step per
action; each theorem follows from it by projection.

### What a client decodes (`SaoWireProofs`, `SaoRunProofs`)

`ExecInv` says that nothing is lost. The contract also promises that nothing is
sent twice and nothing is sent after the result, so `WireInv` adds `Once` (a chunk
is in one place only), `SentSoFar`, `ResultsLast`, `ExitSettled` (the shell's code
is on the wire only behind all output, and the state it reports is final) and
`Refused`. A step of `SaoExec` does at most one thing to the pipes, one to `pc`
and the wire, and one to the chunks on their way (`StepKinds`), and the
invariants are proved from these kinds rather than action by action.

`Refinement` then maps each kind to the contract: a frame that was written whole
is `Delivers` or an `Answer`, a frame cut is `Breaks`, a write of the command and
a failing reader are the contract's own, and everything else leaves the mapped
state as it is. The mapping counts stream frames on the wire (`Cardinality`);
the proof counts them by a bijection with the chunks they carry.

The client of `SaoRun` only reads the wire. `RunInv` says that what it has read
is whole (`AllRead`), that what it printed of a stream is what those entries
carry (`ShownSoFar`), that the user has seen no more than was printed, and all
of stderr (`SeenSoFar`), that a client that ended left nothing in its buffer
unless it was killed or its flush failed (`Flushed`), and that an exit status it
returned rests on facts that do not change any more (`Ended`). Every step of `SaoRun` is a step of `SaoExec` or
leaves its variables alone (`RunIsExec`), so `WireInv` carries over.

### Sessions (`SaoSessionProofs`)

`SessionInv` adds `OutAtPoint` (what a session sent, and whether it is
authenticated, tells where it is), `LoadedWasSeen` (the keys a session loaded
were in the file since its accept) and `SigBound` (a signature's bytes name the
session it was made for; this is where `signing_bytes` must contain the session
id). The frames that end or continue a session go through one lemma, `SendKeeps`.

### Pins (`SaoTrustProofs`)

A pin comes into the file only from a process's map, and into a map only from the
file or from a decision of that process: `TrustInv` says that the file
(`TextSound`), every map (`MapVouched`) and every key in hand (`KeyVouched`) hold
keys that are vouched for, and that past its question a process has the answer in
its map (`AnswerKept`).

What the text of the file satisfies depends on what happened to it. While no save
was written over another's, every line of it is a line of one map, and pins an
accepted key (`Exact`): a cut save only loses lines, or leaves a line that does
not load. Behind a whole save that left a tail, lines may begin anywhere, so only
a statement about places in the text is inductive (`Weak`): wherever the text of
a host stands in front of a key, the key was accepted for a host whose name ends
in it. It survives because a save ends with a newline, which is part of no name,
so no name is read across the seam. Behind a cut save that left a tail there is
no newline at the seam, and nothing is claimed.

`LedgerHolds` is for a user of one command at a time (`Alone`); `trust_lost`
shows that two processes do lose pins. Its invariant (`LedgerInv`) says that,
unless a save was cut, the file reads as the ledger outside a save, and that the
map to be written is the ledger with the new pin. It needs that loading a saved
map gives the map back: `EntriesUpTo` is a recursive function over the hosts,
followed line by line.

### Frames (`SaoFrameProofs`)

`Layout` says that the frames lie one behind the other and cover the stream, so
a byte belongs to exactly one frame (`ByteFrom`). `InStep` says that while every
frame so far is sound the reader stands at the start of the next one or behind
its header, and has returned no more frames than were sent. `LengthRoundTrip` is
the arithmetic of the four big-endian bytes. `Faithful` is not inductive without
`InStep`: a reader out of step can come to stand anywhere.
`GivenUp` is the safety half of `FramesArrive`: a reader that reports an error or
the end of the stream was not at a sound frame (`NoneRefused`). Of `FramesArrive`
that leaves to TLC only that a fair reader goes on reading.

### Agent key (`SaoKeyFileProofs`)

`KeyFileInv` adds `OneKey` (without a race one call creates, while there is no
key, and every key held is the one in the file) and `Undisturbed` (a call nobody
overlapped is the only one under way, and the files are as it left them).

### Start-up (`SaoBootProofs`)

Each action is first restated process by process and file by file (`Begun`,
`Written`, ...), then shown to keep `BootInv`, whose parts are about the order in
which files come into being: `CertFirst` (no key without a certificate, no pin
without both), `OnePair` (without a race one process writes one pair, and pins and
loaded certificates are that pair), `KeyMatches` (then the key matches, unless
its write goes on or was cut off) and `SavedFirst` (an init that nobody overlaps
saves the configuration before there is a pair, so what loaded the defaults
finds none and cannot serve). `AdminKept` needs only that a process comes to
write the stub where the file was absent.

Every inductive invariant was checked by TLC on the instance of its run before it
was proved.

## Not modelled

Cryptography, X.509, SPKI hashing, TLS itself (the key a peer presents is all that is seen),
the YAML text of the configuration, logging other than the audit event of an execution, the text
formats of the key files, memory growth of the unbounded channel. A port and a
fingerprint in `SaoTrust` are one cell each and blanks are none: a line cut inside
one of them does not load, as one cut in front of it; and a line that goes on
behind its fingerprint, which only a cut save over another's text leaves, does not
load in the model, while the code takes it when a blank stands there (no property
says anything of such a file). A frame header is one cell in `SaoExec` and
`SaoRun`: cuts inside its nine bytes are in `SaoFrame` only. Of the server process: an `accept` that fails and takes all
sessions with it, and the plaintext listener, which serves the same sessions. Of
the files of `SaoKeyFile` and `SaoBoot`: their removal by hand, and a power
failure that loses completed writes. The `.sao` layout of `init`, where defaults
name other files than the ones it writes, is the case of `SaoBoot` in which a
start with defaults fails. The transport of `SaoFrame` neither loses bytes nor
resets the connection.

## Plan

1. Done: all modules of the list above, their runs, and the proofs of every
   safety property and of the refinement.
2. Next: the safety half of `ClientEnds`, as `NoneRefused` is that of
   `FramesArrive`: when client and server both wait, a frame was cut. It is an
   invariant to be proved from `RunInv`.
3. `SaoContract` itself: that its own properties (one result, code behind all
   output) follow from the contract alone, for a client that knows nothing else.
