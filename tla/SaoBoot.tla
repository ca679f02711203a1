------------------------------ MODULE SaoBoot ------------------------------
(***************************************************************************)
(* sao-server init [--force] and the start of sao-server (main.rs,         *)
(* tls_util.rs, ServerConfig in config.rs) on the files of /etc/sao: the   *)
(* configuration, the TLS certificate, its key and authorized_keys.        *)
(*                                                                         *)
(* Processes share the files without a lock.  fs::write truncates a file   *)
(* and then writes it; a process ends anywhere, killed or by the `?` of an *)
(* operation that failed.  Where a step below needs something of a file    *)
(* and does not find it, the process can only end.                         *)
(*                                                                         *)
(* The layout is the installed one, where the default configuration names  *)
(* the same files as the one init saves.  A certificate and a key are      *)
(* known by the pair they were generated as.  Nobody removes a file.       *)
(***************************************************************************)

CONSTANTS
    Procs,    \* sao-server processes, init or serving
    Pairs,    \* bound: certificate and key pairs that get generated
    Absent, Empty

ASSUME BootAssumption ==
    /\ {Absent, Empty} \cap (Pairs \cup {"init", "stub", "admin"}) = {}
    /\ Absent # Empty

Files == {"conf", "cert", "key", "ak"}

VARIABLES
    file,      \* content of each file
    proc,      \* what each process is at (the file it writes, by name), whether
               \* that file is truncated, init or start, its configuration
               \* ("init": saved by init), the pair and the certificate in hand
    generated, \* pairs generated so far
    pins,      \* history: fingerprints printed or served
    past       \* history: what happened that no code guards against

bootVars == <<file, proc, generated, pins, past>>

\* two processes wrote a pair at once; an init overlapped another init or a
\* start; some init was given --force; a file was left truncated
Events == {"race", "overlap", "force"} \cup Files

NoProc == [pc |-> "idle", half |-> FALSE, kind |-> "start", cfg |-> "default",
           pair |-> Absent, leaf |-> Absent]

BootInit ==
    /\ file = [f \in Files |-> Absent]
    /\ proc = [p \in Procs |-> NoProc]
    /\ generated = {} /\ pins = {} /\ past = {}

At(p, from)       == proc[p].pc = from
Goes(p, to)       == proc' = [proc EXCEPT ![p] = IF to = "idle" THEN NoProc ELSE [@ EXCEPT !.pc = to]]
Booting(p)        == proc[p].pc \notin {"idle", "serving"}
InPair(p)         == proc[p].pc \in {"cert", "key"}
Note(event, when) == past' = IF when THEN past \cup {event} ELSE past

(***************************************************************************)
(* cmd_init up to cfg.save, run_server up to the loaded configuration.     *)
(***************************************************************************)
Begins(p, at, what, c) ==
    /\ At(p, "idle")
    /\ proc' = [proc EXCEPT ![p].pc = at, ![p].kind = what, ![p].cfg = c]
    /\ UNCHANGED <<file, generated, pins>>

RunsInit(p, force) ==
    /\ Begins(p, "conf", "init", "init")
    /\ past' = past \cup (IF force THEN {"force"} ELSE {})
                    \cup (IF \E q \in Procs : Booting(q) THEN {"overlap"} ELSE {})

MutInit(p, force) == RunsInit(p, force)         \* mutant: an existing file is ignored

Init(p, force) == RunsInit(p, force) /\ (file["conf"] = Absent \/ force)

\* what ServerConfig::load or default() gives; an empty document is an error,
\* on which the process ends, or a mapping all of whose fields are defaults
Loaded(conf) == IF conf = "init" THEN "init" ELSE "default"

Start(p) ==
    /\ Begins(p, "ensure", "start", Loaded(file["conf"]))
    /\ Note("overlap", \E q \in Procs : Booting(q) /\ proc[q].kind = "init")

(***************************************************************************)
(* ensure_self_signed_pem                                                  *)
(***************************************************************************)
MutAutoGenerate(c) == TRUE             \* mutant: defaults generate, too

auto_generate_self_signed(c) == c = "init"

MutPairThere == file["cert"] # Absent \/ file["key"] # Absent     \* mutant: || for &&

PairThere == file["cert"] # Absent /\ file["key"] # Absent

PairFound(p) ==
    /\ At(p, "ensure") /\ PairThere
    /\ Goes(p, "print")
    /\ UNCHANGED <<file, generated, pins, past>>

Generates(p, k) ==
    /\ At(p, "ensure") /\ auto_generate_self_signed(proc[p].cfg)
    /\ k \notin generated
    /\ generated' = generated \cup {k}
    /\ proc' = [proc EXCEPT ![p].pc = "cert", ![p].pair = k]
    /\ Note("race", \E q \in Procs : InPair(q))
    /\ UNCHANGED <<file, pins>>

MutGenerate(p, k) ==                   \* mutant: init renews what is there
    Generates(p, k) /\ (~PairThere \/ proc[p].kind = "init")

Generate(p, k) == Generates(p, k) /\ ~PairThere

(***************************************************************************)
(* fs::write of the file a process is at, and where it goes from there.    *)
(***************************************************************************)
Text(p, f) == CASE f = "conf" -> "init" [] f = "ak" -> "stub" [] OTHER -> proc[p].pair

After(f) == CASE f = "conf" -> "ensure" [] f = "cert" -> "key"
              [] f = "key" -> "print" [] f = "ak" -> "idle"

Truncate(p) ==
    /\ proc[p].pc \in Files /\ ~proc[p].half
    /\ file' = [file EXCEPT ![proc[p].pc] = Empty]
    /\ proc' = [proc EXCEPT ![p].half = TRUE]
    /\ UNCHANGED <<generated, pins, past>>

Write(p) ==
    /\ proc[p].pc \in Files /\ proc[p].half
    /\ file' = [file EXCEPT ![proc[p].pc] = Text(p, proc[p].pc)]
    /\ proc' = [proc EXCEPT ![p] = IF proc[p].pc = "ak" THEN NoProc ELSE
                                       [proc[p] EXCEPT !.pc = After(proc[p].pc), !.half = FALSE]]
    /\ UNCHANGED <<generated, pins, past>>

(***************************************************************************)
(* The fingerprint is printed from one reading of the certificate; a start *)
(* loads it from another, then the key, which with_single_cert compares,   *)
(* and binds the port.                                                     *)
(***************************************************************************)
print_spki_fingerprint(p) ==
    /\ At(p, "print") /\ file["cert"] \in Pairs
    /\ Goes(p, IF proc[p].kind = "init" THEN "stub" ELSE "certs")
    /\ pins' = pins \cup {file["cert"]}
    /\ UNCHANGED <<file, generated, past>>

LoadCerts(p) ==
    /\ At(p, "certs") /\ file["cert"] \in Pairs
    /\ proc' = [proc EXCEPT ![p].pc = "pkcs8", ![p].leaf = file["cert"]]
    /\ UNCHANGED <<file, generated, pins, past>>

LoadKey(p) ==
    /\ At(p, "pkcs8") /\ file["key"] = proc[p].leaf
    /\ Goes(p, "bind")
    /\ UNCHANGED <<file, generated, pins, past>>

Bind(p) ==
    /\ At(p, "bind") /\ \A q \in Procs : ~At(q, "serving")
    /\ Goes(p, "serving")
    /\ pins' = pins \cup {proc[p].leaf}
    /\ UNCHANGED <<file, generated, past>>

(***************************************************************************)
(* The end of cmd_init: the authorized_keys stub, unless there is a file.  *)
(***************************************************************************)
StubUnless(p, there) ==
    /\ At(p, "stub")
    /\ Goes(p, IF there THEN "idle" ELSE "ak")
    /\ UNCHANGED <<file, generated, pins, past>>

MutStub(p) == StubUnless(p, FALSE)          \* mutant: the stub is always written

Stub(p) == StubUnless(p, file["ak"] # Absent)

Ends(p) ==
    /\ ~At(p, "idle") /\ Goes(p, "idle")
    /\ Note(proc[p].pc, proc[p].half)
    /\ UNCHANGED <<file, generated, pins>>

EditsKeys ==
    /\ file' = [file EXCEPT !["ak"] = "admin"]
    /\ UNCHANGED <<proc, generated, pins, past>>

BootNext ==
    \/ \E p \in Procs :
        \/ Start(p) \/ \E force \in BOOLEAN : Init(p, force)
        \/ PairFound(p) \/ \E k \in Pairs : Generate(p, k)
        \/ Truncate(p) \/ Write(p)
        \/ print_spki_fingerprint(p) \/ LoadCerts(p) \/ LoadKey(p) \/ Bind(p)
        \/ Stub(p) \/ Ends(p)
    \/ EditsKeys

BootSpec == BootInit /\ [][BootNext]_bootVars
-----------------------------------------------------------------------------
(***************************************************************************)
(* Properties                                                              *)
(***************************************************************************)

\* Files and processes stay within their types: only a process configured to
\* generates a pair, only a start with a certificate in hand serves.
BootTypeOK ==
    /\ file["conf"] \in {Absent, Empty, "init"}
    /\ file["ak"] \in {Absent, Empty, "stub", "admin"}
    /\ {file["cert"], file["key"]} \subseteq Pairs \cup {Absent, Empty}
    /\ \A p \in Procs :
        /\ proc[p].pc \in Files \cup {"idle", "ensure", "print", "certs", "pkcs8",
                                      "bind", "serving", "stub"}
        /\ proc[p].half => proc[p].pc \in Files
        /\ InPair(p) => proc[p].pair \in Pairs /\ proc[p].cfg = "init"
        /\ proc[p].pc \in {"pkcs8", "bind", "serving"} =>
               proc[p].leaf \in Pairs /\ proc[p].kind = "start"
    /\ pins \cup generated \subseteq Pairs /\ past \subseteq Events

\* The key clients pin is made once: through restarts, repeated and forced inits
\* and processes that end anywhere, every fingerprint printed or served is the
\* same, unless two processes generated at once (tls_util.rs:15, 36-42, 57).
OnePin == "race" \notin past => \A a, b \in pins : a = b

Broken ==
    /\ PairThere /\ \A p \in Procs : ~InPair(p)
    /\ file["cert"] \notin Pairs \/ file["key"] # file["cert"]

\* A certificate and key that do not belong together, and that every later start
\* refuses (tls_util.rs:15, 78-81), are left behind only by a process that ended
\* inside the write of the key, or by a race: no other interruption leaves such
\* a pair, whatever became of the configuration.
BrokenOnlyIfTorn == Broken => past \cap {"key", "race"} # {}

\* A server runs without the deny patterns of the configuration only when that
\* was truncated by an init --force that did not finish, or when an init
\* overlapped the start or another init: a first init that was interrupted never
\* leads there (main.rs:88-93, tls_util.rs:18).
PolicyInForce ==
    \A p \in Procs : At(p, "serving") /\ proc[p].cfg = "default" =>
        "overlap" \in past \/ {"force", "conf"} \subseteq past

Kept == file["ak"] = "admin" /\ \A p \in Procs : ~At(p, "ak")

\* What the administrator entered in authorized_keys survives every later init,
\* --force included; only an init that looked before the file was there, and
\* writes its stub late, can wipe it (main.rs:64-72).
AdminKeysKept == [][Kept => Kept']_bootVars

=============================================================================
