------------------------------ MODULE SaoTrust ------------------------------
(***************************************************************************)
(* The client's trust in TLS keys: ~/.sao/known_hosts (sao-core/src/       *)
(* known_hosts.rs), shared without a lock by every `sao trust add` and     *)
(* `sao run` of a user, and the pin management of `sao run`                *)
(* (connect_with_pin_management and resolve_tls_pin of                     *)
(* sao-client/src/main.rs over connect.rs).                                *)
(*                                                                         *)
(* The file is its text, cut into cells: the pieces of the host names, the *)
(* ports, the fingerprints and the ends of the lines.  fs::write opens     *)
(* with O_TRUNC, then writes from offset 0: two steps, between which       *)
(* others may look at the file or write to it, and the second may stop     *)
(* anywhere.  So what one writer leaves of another's longer file begins    *)
(* inside a line, and the end of a host's name is read as a host.          *)
(*                                                                         *)
(* A port and a fingerprint are one cell each: a line cut inside one is    *)
(* refused like a line cut before it.  Blanks are left out: a line that    *)
(* goes on behind its fingerprint, which only a cut save over another's    *)
(* text leaves ("mixed" below), is refused here, while load takes it if a  *)
(* blank stands there.  So is the comment line that heads every save: all  *)
(* writers put the same bytes there.  A missing file loads like an empty   *)
(* one.                                                                    *)
(***************************************************************************)
EXTENDS Integers, Sequences

CONSTANTS
    Tokens,       \* pieces of host names, and ports
    HostOrder,    \* the normalised hosts, <<text with the port last, "lower">>, in the
                  \* order save sorts them
    Names,        \* what a user may type: <<text, "lower" or "mixed" case>>
    Fps,          \* SPKI fingerprints
    Procs,        \* processes of one user, each running one command at a time
    Modes,        \* of `sao run`: "tty", "accept_new" (--accept-new) or "batch" (neither)
    Cuts          \* bound: the cells after which a write may stop short

Hosts == {HostOrder[i] : i \in DOMAIN HostOrder}
NoPin == "no_pin"
NL    == "newline"
Junk  == "junk"
Pins  == [Hosts -> Fps \cup {NoPin}]
Cells == Tokens \cup Fps \cup {NL, Junk}

\* Hosts are all the file can come to name: what is left of a host's name is one.
ASSUME TrustAssumption ==
    /\ HostOrder \in Seq(Seq(Tokens) \X {"lower"})
    /\ \A h \in Hosts : Len(h[1]) >= 2
    /\ \A h \in Hosts : \A k \in 2..(Len(h[1]) - 1) :
          <<SubSeq(h[1], k, Len(h[1])), "lower">> \in Hosts
    /\ \A i, j \in DOMAIN HostOrder : HostOrder[i] = HostOrder[j] => i = j
    /\ Names # {} /\ \A n \in Names : <<n[1], "lower">> \in Hosts
    /\ Tokens \cap (Fps \cup {NL}) = {}
    /\ Fps \cap {NL, Junk, NoPin} = {}
    /\ Modes \subseteq {"accept_new", "tty", "batch"} /\ Cuts \subseteq Nat

VARIABLES
    file,       \* the text of known_hosts
    cert,       \* the key each host's server presents now
    proc,       \* the processes
    accepted,   \* history: host and key pairs some user command or answer accepted
    ledger,     \* history: per host the pin last reported as saved
    past        \* history: a save was "cut" off, a whole one left the "tail" of another's
                \* text behind its own, a cut one did: "mixed"

trustVars == <<file, cert, proc, accepted, ledger, past>>

Idle == [pc |-> "idle", cmd |-> "run", name |-> CHOOSE n \in Names : TRUE, mode |-> "batch",
         stage |-> "first", kh |-> [h \in Hosts |-> NoPin], fp |-> NoPin, asked |-> FALSE]

(***************************************************************************)
(* known_hosts.rs                                                          *)
(***************************************************************************)
normalize_host(n) == <<n[1], "lower">>

\* the text of host h stands in front of the fingerprint at j
Before(h, f, j) ==
    /\ f[j] \in Fps /\ Len(h[1]) < j
    /\ \A k \in 1..Len(h[1]) : f[j - Len(h[1]) + k - 1] = h[1][k]

StartsLine(f, i) == 1 < i => f[i - 1] = NL
EndsLine(f, j)   == f[j] # NL /\ (j < Len(f) => f[j + 1] = NL)

\* the line that ends at j pins host h to the fingerprint there
Reads(h, f, j) == Before(h, f, j) /\ StartsLine(f, j - Len(h[1])) /\ EndsLine(f, j)

\* a line that is not empty, and not host, port and fingerprint
LoadFails(f) == \E j \in DOMAIN f : EndsLine(f, j) /\ ~\E h \in Hosts : Reads(h, f, j)

\* k.pins.insert per line: the last line of a host wins
load(f) ==
    [h \in Hosts |->
        LET at == {j \in DOMAIN f : Reads(h, f, j)}
        IN  IF at = {} THEN NoPin
            ELSE f[CHOOSE i \in at : \A j \in at : j =< i]]

pin_hex(kh, n) == kh[normalize_host(n)]

\* mutant: the name is not normalised
MutInsertHex(kh, n, fp) == [h \in Hosts \cup {n} |-> IF h = n THEN fp ELSE kh[h]]

insert_hex(kh, n, fp) == [kh EXCEPT ![normalize_host(n)] = fp]

Entry(h, fp) == h[1] \o <<fp, NL>>

\* the lines of the first n hosts, those that are pinned
EntriesUpTo(kh) ==
    LET upTo[n \in 0..Len(HostOrder)] ==
            IF n = 0 THEN <<>>
            ELSE IF kh[HostOrder[n]] = NoPin THEN upTo[n - 1]
            ELSE upTo[n - 1] \o Entry(HostOrder[n], kh[HostOrder[n]])
    IN  upTo

\* mutant: every line gets the fingerprint of the first key
MutContent(kh) ==
    LET first == HostOrder[CHOOSE n \in DOMAIN HostOrder :
                     \A k \in 1..n : kh[HostOrder[k]] # NoPin <=> k = n]
    IN  EntriesUpTo([h \in Hosts |-> IF kh[h] = NoPin THEN NoPin ELSE kh[first]])[Len(HostOrder)]

\* what save writes, in sorted order
content(kh) == EntriesUpTo(kh)[Len(HostOrder)]

\* written from offset 0 over what another process wrote since the truncation
over(new, old) == new \o SubSeq(old, Len(new) + 1, Len(old))

TrustInit ==
    /\ \/ file \in {<<>>, <<Junk>>} /\ accepted = {}
       \/ \E h \in Hosts, fp \in Fps : file = Entry(h, fp) /\ accepted = {<<h, fp>>}
    /\ cert \in [Hosts -> Fps]
    /\ proc = [p \in Procs |-> Idle]
    /\ ledger = load(file)
    /\ past = {}

(***************************************************************************)
(* The steps of a process.  Become replaces its local state.               *)
(***************************************************************************)
At(p, pc)  == proc[p].pc = pc
Host(p)    == normalize_host(proc[p].name)
Become(p, new) == proc' = [proc EXCEPT ![p] = new]
Goto(p, pc) == Become(p, [proc[p] EXCEPT !.pc = pc])
Exit(p)     == Become(p, Idle)

Accepts(p, n, fp) == accepted' = accepted \cup {<<normalize_host(n), fp>>}

TrustAdd(p, n, fp) ==
    /\ At(p, "idle")
    /\ Become(p, [Idle EXCEPT !.pc = "merge", !.cmd = "add", !.name = n, !.fp = fp])
    /\ Accepts(p, n, fp)
    /\ UNCHANGED <<file, cert, ledger, past>>

\* a fingerprint that is not 64 hex digits: insert_hex fails after the load
TrustAddRejected(p) ==
    /\ At(p, "merge") /\ proc[p].cmd = "add"
    /\ Exit(p)
    /\ UNCHANGED <<file, cert, accepted, ledger, past>>

Run(p, n, mode) ==
    /\ At(p, "idle")
    /\ Become(p, [Idle EXCEPT !.pc = "resolve", !.name = n, !.mode = mode])
    /\ UNCHANGED <<file, cert, accepted, ledger, past>>

\* resolve_tls_pin: the loaded map is kept while the probe and the prompt go on
Resolve(p) ==
    /\ At(p, "resolve") /\ ~LoadFails(file)
    /\ LET pin == pin_hex(load(file), proc[p].name)
       IN  Become(p, IF pin = NoPin THEN [proc[p] EXCEPT !.kh = load(file), !.pc = "probe"]
                                    ELSE [proc[p] EXCEPT !.fp = pin, !.pc = "connect"])
    /\ UNCHANGED <<file, cert, accepted, ledger, past>>

LoadError(p) ==
    /\ proc[p].pc \in {"resolve", "merge"} /\ LoadFails(file)
    /\ Exit(p)
    /\ UNCHANGED <<file, cert, accepted, ledger, past>>

\* after the decision to trust fp: the first time the map loaded before the
\* probe is amended, on a mismatch the file is read again
Trusts(p, fp) ==
    /\ Become(p, IF proc[p].stage = "first"
                 THEN [proc[p] EXCEPT !.fp = fp, !.kh = insert_hex(@, proc[p].name, fp),
                                      !.pc = "truncate"]
                 ELSE [proc[p] EXCEPT !.fp = fp, !.pc = "merge"])
    /\ Accepts(p, proc[p].name, fp)

Probe(p) ==
    /\ At(p, "probe")
    /\ LET fp == cert[Host(p)]
       IN  \/ proc[p].mode = "accept_new" /\ Trusts(p, fp)
           \/ /\ proc[p].mode = "tty"
              /\ Become(p, [proc[p] EXCEPT !.fp = fp, !.pc = "prompt", !.asked = TRUE])
              /\ UNCHANGED accepted
           \/ proc[p].mode = "batch" /\ Exit(p) /\ UNCHANGED accepted
    /\ UNCHANGED <<file, cert, ledger, past>>

Yes(p) ==
    /\ At(p, "prompt")
    /\ Trusts(p, proc[p].fp)
    /\ UNCHANGED <<file, cert, ledger, past>>

Declines(p, next) ==
    /\ At(p, "prompt")
    /\ IF next = "exit" THEN Exit(p) ELSE Goto(p, next)
    /\ UNCHANGED <<file, cert, accepted, ledger, past>>

MutNo(p) == Declines(p, "connect")       \* mutant: the answer does not return

No(p) == Declines(p, "exit")

\* KnownHosts::load and insert_hex, before save
Merge(p) ==
    /\ At(p, "merge") /\ ~LoadFails(file)
    /\ Become(p, [proc[p] EXCEPT !.kh = insert_hex(load(file), proc[p].name, proc[p].fp),
                                 !.pc = "truncate"])
    /\ UNCHANGED <<file, cert, accepted, ledger, past>>

SaveTruncates(p) ==
    /\ At(p, "truncate")
    /\ file' = <<>>
    /\ Goto(p, "write")
    /\ UNCHANGED <<cert, accepted, ledger, past>>

\* what is left behind the first n cells of c is the text of another process
Behind(c, n) ==
    IF n = 0 \/ Len(file) =< n THEN {} ELSE IF n = Len(c) THEN {"tail"} ELSE {"mixed"}

\* the first n cells of c reach the file
Writes(c, n) == file' = over(SubSeq(c, 1, n), file)

Saves(p, c) ==
    /\ At(p, "write")
    /\ Writes(c, Len(c))
    /\ past' = past \cup Behind(c, Len(c))
    /\ ledger' = insert_hex(ledger, proc[p].name, proc[p].fp)
    /\ IF proc[p].cmd = "add" THEN Exit(p) ELSE Goto(p, "connect")
    /\ UNCHANGED <<cert, accepted>>

\* mutant: only the new line is written
MutSaveWrites(p) == Saves(p, Entry(Host(p), proc[p].fp))

SaveWrites(p) == Saves(p, content(proc[p].kh))

\* fs::write fails (a full disk) or the process is killed in it, n cells written:
\* the command ends with the error, and nothing is reported as saved
SaveCut(p, n) ==
    /\ At(p, "write") /\ n =< Len(content(proc[p].kh))
    /\ Writes(content(proc[p].kh), n)
    /\ past' = past \cup {"cut"} \cup Behind(content(proc[p].kh), n)
    /\ Exit(p)
    /\ UNCHANGED <<cert, accepted, ledger>>

Connected(p, fp) == Become(p, [proc[p] EXCEPT !.pc = "session", !.fp = fp])

\* mutant: the pin is not compared when the replacement was just confirmed
MutConnectPinned(p) ==
    /\ At(p, "connect") /\ (cert[Host(p)] = proc[p].fp \/ proc[p].stage = "again")
    /\ Connected(p, cert[Host(p)])
    /\ UNCHANGED <<file, cert, accepted, ledger, past>>

ConnectPinned(p) ==
    /\ At(p, "connect") /\ cert[Host(p)] = proc[p].fp
    /\ Connected(p, cert[Host(p)])
    /\ UNCHANGED <<file, cert, accepted, ledger, past>>

Mismatch(p, again) ==
    /\ At(p, "connect") /\ cert[Host(p)] # proc[p].fp
    /\ IF proc[p].stage = "first" \/ again
       THEN Become(p, [proc[p] EXCEPT !.stage = "again", !.pc = "probe", !.asked = FALSE,
                                      !.kh = Idle.kh, !.fp = NoPin])
       ELSE Exit(p)
    /\ UNCHANGED <<file, cert, accepted, ledger, past>>

MutPinMismatch(p) == Mismatch(p, TRUE)      \* mutant: start over at every mismatch

PinMismatch(p) == Mismatch(p, FALSE)

\* TCP or TLS failure
Unreachable(p) ==
    /\ proc[p].pc \in {"probe", "connect"}
    /\ Exit(p)
    /\ UNCHANGED <<file, cert, accepted, ledger, past>>

SessionOver(p) ==
    /\ At(p, "session")
    /\ Exit(p)
    /\ UNCHANGED <<file, cert, accepted, ledger, past>>

\* killed, or a file or a directory cannot be opened, outside the write of a save
Crash(p) ==
    /\ proc[p].pc \notin {"idle", "write"}
    /\ Exit(p)
    /\ UNCHANGED <<file, cert, accepted, ledger, past>>

\* The server of host h starts with another certificate.
NewCert(h, fp) ==
    /\ cert' = [cert EXCEPT ![h] = fp]
    /\ UNCHANGED <<file, proc, accepted, ledger, past>>

Works(p) ==
    \/ Resolve(p) \/ LoadError(p) \/ Probe(p) \/ Yes(p) \/ No(p) \/ Merge(p)
    \/ SaveTruncates(p) \/ SaveWrites(p) \/ ConnectPinned(p) \/ PinMismatch(p)

Starts(p) ==
    \/ \E n \in Names, fp \in Fps : TrustAdd(p, n, fp)
    \/ \E n \in Names, mode \in Modes : Run(p, n, mode)

TrustNext ==
    \/ \E p \in Procs : Starts(p) \/ Works(p) \/ TrustAddRejected(p) \/ Unreachable(p)
                          \/ SessionOver(p) \/ Crash(p)
                          \/ \E n \in Cuts : SaveCut(p, n)
    \/ \E h \in Hosts, fp \in Fps : NewCert(h, fp)

TrustSpec == TrustInit /\ [][TrustNext]_trustVars

FairTrustSpec == TrustSpec /\ \A p \in Procs : WF_trustVars(Works(p))
-----------------------------------------------------------------------------
(***************************************************************************)
(* Properties                                                              *)
(***************************************************************************)

\* The file, the servers and the processes stay within their types.
TrustTypeOK ==
    /\ file \in Seq(Cells)
    /\ cert \in [Hosts -> Fps]
    /\ proc \in [Procs ->
         [pc : {"idle", "resolve", "probe", "prompt", "merge", "truncate", "write", "connect",
                "session"},
          cmd : {"run", "add"}, name : Names, mode : {"accept_new", "tty", "batch"},
          stage : {"first", "again"}, kh : Pins, fp : Fps \cup {NoPin}, asked : BOOLEAN]]
    /\ accepted \subseteq Hosts \X Fps
    /\ ledger \in Pins
    /\ past \subseteq {"cut", "tail", "mixed"}

Suffix(h, g) ==
    /\ Len(h[1]) =< Len(g[1])
    /\ \A k \in 1..Len(h[1]) : h[1][k] = g[1][Len(g[1]) - Len(h[1]) + k]

\* Key fp was accepted for host h; or, once a save has left the tail of another's
\* text behind it, for a host whose name h is the end of.  Behind a cut save the
\* text of two may meet in the middle of a name, and nothing is said.
Vouched(h, fp) ==
    \/ <<h, fp>> \in accepted
    \/ "tail" \in past /\ \E g \in Hosts : Suffix(h, g) /\ <<g, fp>> \in accepted
    \/ "mixed" \in past

\* Whatever processes do to the file at once, and wherever they fail or die, it
\* pins a host to no key but one accepted for it, unless two saves overlapped;
\* and then to none but one accepted for a longer name (known_hosts.rs:21-72).
PinsAccepted == \A h \in Hosts : load(file)[h] # NoPin => Vouched(h, load(file)[h])

\* A session runs only over such a key, even if the certificate changes between
\* the probe and the connection (connect.rs:30-36).
SessionKeyAccepted == \A p \in Procs : At(p, "session") => Vouched(Host(p), proc[p].fp)

\* If the user was asked, the session runs over the very key the last question
\* showed, and the process knows that key under the name the user typed.
ConfirmedKeyIsUsed ==
    \A p \in Procs : At(p, "session") /\ proc[p].asked =>
        pin_hex(proc[p].kh, proc[p].name) = proc[p].fp

Quiet == \A p \in Procs : ~At(p, "write")

\* Each host is pinned to the key last reported as pinned: `sao trust add` is to
\* "Append pin to ~/.sao/known_hosts" (README.md:79), so it and the first
\* connection to one host leave the pins of the others alone.  A save that fails
\* after the truncation has lost them: from then on nothing is said.
FileIsLedger == Quiet /\ "cut" \notin past => load(file) = ledger

\* Every command gets through: it ends or reaches its session after at most two
\* rounds of probing, however often the server's key changes (main.rs:130-170).
CommandEnds ==
    \A p \in Procs : (proc[p].pc # "idle") ~> (proc[p].pc \in {"idle", "session"})

=============================================================================
