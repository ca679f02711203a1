----------------------------- MODULE SaoBootProofs -----------------------------
(***************************************************************************)
(* What sao-server init and the start of sao-server keep of the files of   *)
(* /etc/sao, for any number of processes and generated pairs.              *)
(*                                                                         *)
(* The properties speak about pins and processes that serve; they rest on  *)
(* the order in which files come into being.  A certificate is there       *)
(* before its key (CertFirst); without a race one process writes one pair  *)
(* (OnePair, KeyMatches); and an init that nobody overlaps saves the       *)
(* configuration before there is a pair (SavedFirst).                      *)
(***************************************************************************)
EXTENDS SaoBoot, TLAPS

Places == Files \cup {"idle", "ensure", "print", "certs", "pkcs8", "bind", "serving", "stub"}
Proc == [pc : Places,
         half : BOOLEAN, kind : {"init", "start"}, cfg : {"init", "default"},
         pair : Pairs \cup {Absent}, leaf : Pairs \cup {Absent}]

AllContents == Pairs \cup {Absent, Empty, "init", "stub", "admin"}
Contents(f) == CASE f = "conf" -> {Absent, Empty, "init"}
                 [] f = "ak"   -> {Absent, Empty, "stub", "admin"}
                 [] OTHER      -> Pairs \cup {Absent, Empty}

Sorts ==
    /\ proc \in [Procs -> Proc]
    /\ file \in [Files -> AllContents]
    /\ \A f \in Files : file[f] \in Contents(f)
    /\ pins \subseteq Pairs /\ generated \subseteq Pairs /\ past \subseteq Events

\* Where a process is says what it is and holds.
Holds ==
    \A p \in Procs :
        /\ proc[p].half => proc[p].pc \in Files
        /\ InPair(p) => proc[p].pair \in Pairs /\ proc[p].cfg = "init"
        /\ proc[p].pc \in {"pkcs8", "bind", "serving"} => proc[p].leaf \in Pairs
        /\ proc[p].pc \in {"certs", "pkcs8", "bind", "serving"} => proc[p].kind = "start"
        /\ proc[p].pc \in {"conf", "stub", "ak"} => proc[p].kind = "init"
        /\ proc[p].kind = "init" => proc[p].cfg = "init"

Typed == Sorts /\ Holds

\* The certificate is written before the key, and no file disappears again.
CertFirst ==
    /\ file["key"] # Absent => file["cert"] # Absent
    /\ \A p \in Procs : At(p, "key") => file["cert"] # Absent
    /\ \A p \in Procs : proc[p].pc \in {"print", "certs", "pkcs8", "bind", "serving"} => PairThere
    /\ pins # {} => PairThere

\* While no two processes generate at once, one pair is written, pinned and used.
OnePair ==
    "race" \notin past =>
        /\ \A p, q \in Procs : InPair(p) /\ InPair(q) => p = q
        /\ \A p \in Procs : At(p, "cert") => file["key"] = Absent
        /\ \A p \in Procs : At(p, "key") =>
              /\ file["cert"] = proc[p].pair
              /\ file["key"] = IF proc[p].half THEN Empty ELSE Absent
        /\ file["key"] # Absent => file["cert"] \in Pairs
        /\ \A k \in pins : k = file["cert"]
        /\ \A p \in Procs : proc[p].pc \in {"pkcs8", "bind", "serving"} => proc[p].leaf = file["cert"]

\* Then the key matches, but for a write of it that goes on or was cut off.
KeyMatches ==
    "race" \notin past /\ "key" \notin past /\ file["key"] # Absent =>
        file["key"] = file["cert"] \/ \E p \in Procs : At(p, "key")

Orderly == "overlap" \notin past /\ ~({"force", "conf"} \subseteq past)
Made    == file["cert"] # Absent \/ file["key"] # Absent

\* An init has the files to itself, so a pair is only there with the saved
\* configuration, and what loaded the defaults finds no pair.
SavedFirst ==
    Orderly =>
        /\ \A p, q \in Procs : proc[p].kind = "init" /\ Booting(p) /\ Booting(q) => p = q
        /\ \A p \in Procs : At(p, "conf") /\ ~proc[p].half => file["conf"] = Absent \/ "force" \in past
        /\ Made => file["conf"] = "init" \/ ("force" \in past /\ \E p \in Procs : At(p, "conf") /\ proc[p].half)
        /\ \A p \in Procs : Booting(p) /\ proc[p].cfg = "init" /\ ~At(p, "conf") => file["conf"] = "init"
        /\ \A p \in Procs : ~At(p, "idle") /\ proc[p].cfg = "default" =>
              At(p, "ensure") /\ file["conf"] # "init" /\ ~Made

BootInv == Typed /\ CertFirst /\ OnePair /\ KeyMatches /\ SavedFirst
(***************************************************************************)
(* What an action does, process by process and file by file.               *)
(***************************************************************************)
Others(p) == proc' \in [Procs -> Proc] /\ \A q \in Procs : q # p => proc'[q] = proc[q]

Keeps(p) ==
    /\ proc'[p].kind = proc[p].kind /\ proc'[p].cfg = proc[p].cfg
    /\ proc'[p].pair = proc[p].pair /\ proc'[p].leaf = proc[p].leaf

Moves(p, to) == Others(p) /\ Keeps(p) /\ proc'[p].pc = to /\ proc'[p].half = proc[p].half
Leaves(p)    == Others(p) /\ proc'[p] = NoProc

Sets(f, c) == file' \in [Files -> AllContents] /\ file'[f] = c /\ \A g \in Files : g # f => file'[g] = file[g]

LEMMA NoProcIs ==
    /\ NoProc \in Proc /\ NoProc.pc = "idle" /\ NoProc.half = FALSE /\ NoProc.kind = "start"
    /\ NoProc.cfg = "default" /\ NoProc.pair = Absent /\ NoProc.leaf = Absent
  BY DEF NoProc, Proc, Places

LEMMA MovesOne ==
    ASSUME proc \in [Procs -> Proc], NEW p \in Procs, NEW r \in Proc, proc' = [proc EXCEPT ![p] = r]
    PROVE  Others(p) /\ proc'[p] = r
  BY DEF Others

LEMMA WritesOne ==
    ASSUME file \in [Files -> AllContents], NEW f \in Files, NEW c \in AllContents,
           file' = [file EXCEPT ![f] = c]
    PROVE  Sets(f, c)
  BY DEF Sets

LEMMA GoesEffect ==
    ASSUME Sorts, NEW p \in Procs, NEW to \in Places, Goes(p, to)
    PROVE  /\ to = "idle" => Leaves(p)
           /\ to # "idle" => Moves(p, to)
           /\ Others(p)
<1>1. proc \in [Procs -> Proc] /\ proc[p] \in Proc
  BY DEF Sorts
<1>2. CASE to = "idle"
  <2>1. proc' = [proc EXCEPT ![p] = NoProc]
    BY <1>2 DEF Goes
  <2> QED BY <1>1, <1>2, <2>1, NoProcIs, MovesOne DEF Leaves
<1>3. CASE to # "idle"
  <2> DEFINE r == [proc[p] EXCEPT !.pc = to]
  <2>1. proc' = [proc EXCEPT ![p] = r] /\ r \in Proc
    BY <1>1, <1>3 DEF Goes, Proc
  <2>2. /\ r.pc = to /\ r.half = proc[p].half /\ r.kind = proc[p].kind /\ r.cfg = proc[p].cfg
        /\ r.pair = proc[p].pair /\ r.leaf = proc[p].leaf
    BY <1>1 DEF Proc
  <2> HIDE DEF r
  <2> QED BY <1>1, <1>3, <2>1, <2>2, MovesOne DEF Moves, Keeps
<1> QED BY <1>2, <1>3 DEF Leaves

Begun(p, at, what, c) ==
    /\ Others(p) /\ At(p, "idle") /\ proc'[p].pc = at /\ ~proc'[p].half
    /\ proc'[p].kind = what /\ proc'[p].cfg = c
    /\ proc'[p].pair = proc[p].pair /\ proc'[p].leaf = proc[p].leaf
    /\ UNCHANGED <<file, generated, pins>>

LEMMA BeginsEffect ==
    ASSUME Typed, NEW p \in Procs, NEW at \in Places, NEW what \in {"init", "start"},
           NEW c \in {"init", "default"}, Begins(p, at, what, c)
    PROVE  Begun(p, at, what, c)
<1> DEFINE r == [proc[p] EXCEPT !.pc = at, !.kind = what, !.cfg = c]
<1>1. proc \in [Procs -> Proc] /\ proc[p] \in Proc /\ ~proc[p].half
  BY DEF Typed, Sorts, Holds, Begins, At, Files
<1>2. proc' = [proc EXCEPT ![p] = r] /\ r \in Proc
  BY <1>1 DEF Begins, Proc
<1>3. /\ r.pc = at /\ ~r.half /\ r.kind = what /\ r.cfg = c
      /\ r.pair = proc[p].pair /\ r.leaf = proc[p].leaf
  BY <1>1 DEF Proc
<1> HIDE DEF r
<1> QED BY <1>1, <1>2, <1>3, MovesOne DEF Begun, Begins

Generated(p, k) ==
    /\ Others(p) /\ At(p, "ensure") /\ ~proc[p].half /\ proc[p].cfg = "init" /\ ~PairThere
    /\ proc'[p].pc = "cert" /\ ~proc'[p].half /\ proc'[p].kind = proc[p].kind
    /\ proc'[p].cfg = "init" /\ proc'[p].pair = k /\ proc'[p].leaf = proc[p].leaf
    /\ UNCHANGED <<file, pins>> /\ generated' = generated \cup {k}
    /\ past' = IF \E q \in Procs : InPair(q) THEN past \cup {"race"} ELSE past

LEMMA GenerateEffect ==
    ASSUME Typed, NEW p \in Procs, NEW k \in Pairs, Generate(p, k)
    PROVE  Generated(p, k)
<1> DEFINE r == [proc[p] EXCEPT !.pc = "cert", !.pair = k]
<1>1. proc \in [Procs -> Proc] /\ proc[p] \in Proc /\ ~proc[p].half /\ proc[p].cfg = "init"
  BY DEF Typed, Sorts, Holds, Generate, Generates, At, Files, auto_generate_self_signed
<1>2. proc' = [proc EXCEPT ![p] = r]
  BY <1>1 DEF Generate, Generates, Proc
<1>3. r \in Proc /\ r.pc = "cert" /\ ~r.half /\ r.kind = proc[p].kind /\ r.cfg = "init"
      /\ r.pair = k /\ r.leaf = proc[p].leaf
  BY <1>1 DEF Proc, Places, Files
<1> HIDE DEF r
<1> QED BY <1>1, <1>2, <1>3, MovesOne DEF Generated, Generate, Generates, Note

Truncated(p) ==
    /\ Others(p) /\ Keeps(p) /\ proc[p].pc \in Files /\ ~proc[p].half /\ proc'[p].half
    /\ proc'[p].pc = proc[p].pc
    /\ Sets(proc[p].pc, Empty) /\ UNCHANGED <<generated, pins, past>>

LEMMA TruncateEffect ==
    ASSUME Sorts, NEW p \in Procs, Truncate(p)
    PROVE  Truncated(p)
<1> DEFINE r == [proc[p] EXCEPT !.half = TRUE]
<1>1. proc \in [Procs -> Proc] /\ proc[p] \in Proc /\ file \in [Files -> AllContents]
  BY DEF Sorts
<1>2. proc' = [proc EXCEPT ![p] = r] /\ r \in Proc
  BY <1>1 DEF Truncate, Proc
<1>3. /\ r.half /\ r.pc = proc[p].pc /\ r.kind = proc[p].kind /\ r.cfg = proc[p].cfg
      /\ r.pair = proc[p].pair /\ r.leaf = proc[p].leaf
  BY <1>1 DEF Proc
<1> HIDE DEF r
<1>4. Sets(proc[p].pc, Empty)
  BY <1>1, WritesOne DEF Truncate, AllContents
<1> QED BY <1>1, <1>2, <1>3, <1>4, MovesOne DEF Truncated, Truncate, Keeps

Written(p) ==
    /\ Others(p) /\ proc[p].pc \in Files /\ proc[p].half /\ ~proc'[p].half
    /\ proc[p].pc = "ak" => proc'[p] = NoProc
    /\ proc[p].pc # "ak" => Keeps(p) /\ proc'[p].pc = After(proc[p].pc)
    /\ Sets(proc[p].pc, Text(p, proc[p].pc)) /\ UNCHANGED <<generated, pins, past>>

LEMMA WriteEffect ==
    ASSUME Sorts, NEW p \in Procs, Write(p)
    PROVE  Written(p)
<1>1. /\ proc \in [Procs -> Proc] /\ proc[p] \in Proc /\ file \in [Files -> AllContents]
      /\ proc[p].pc \in Files
  BY DEF Sorts, Write
<1>2. Text(p, proc[p].pc) \in AllContents
  BY <1>1 DEF Text, AllContents, Proc
<1>3. Sets(proc[p].pc, Text(p, proc[p].pc))
  BY <1>1, <1>2, WritesOne DEF Write
<1>4. CASE proc[p].pc = "ak"
  <2>1. proc' = [proc EXCEPT ![p] = NoProc]
    BY <1>4 DEF Write
  <2> QED BY <1>1, <1>3, <1>4, <2>1, NoProcIs, MovesOne DEF Written, Write
<1>5. CASE proc[p].pc # "ak"
  <2> DEFINE r == [proc[p] EXCEPT !.pc = After(proc[p].pc), !.half = FALSE]
  <2>1. proc' = [proc EXCEPT ![p] = r]
    BY <1>1, <1>5 DEF Write, Proc
  <2>2. After(proc[p].pc) \in Places
    BY <1>1, <1>5 DEF After, Places, Files
  <2>3. /\ r \in Proc /\ r.pc = After(proc[p].pc) /\ ~r.half /\ r.kind = proc[p].kind
        /\ r.cfg = proc[p].cfg /\ r.pair = proc[p].pair /\ r.leaf = proc[p].leaf
    BY <1>1, <2>2 DEF Proc
  <2> HIDE DEF r
  <2> QED BY <1>1, <1>3, <1>5, <2>1, <2>3, MovesOne DEF Written, Write, Keeps
<1> QED BY <1>4, <1>5

CertsLoaded(p) ==
    /\ Others(p) /\ At(p, "certs") /\ file["cert"] \in Pairs
    /\ proc'[p].pc = "pkcs8" /\ proc'[p].half = proc[p].half /\ proc'[p].kind = proc[p].kind
    /\ proc'[p].cfg = proc[p].cfg /\ proc'[p].pair = proc[p].pair /\ proc'[p].leaf = file["cert"]
    /\ UNCHANGED <<file, generated, pins, past>>

LEMMA LoadCertsEffect ==
    ASSUME Sorts, NEW p \in Procs, LoadCerts(p)
    PROVE  CertsLoaded(p)
<1> DEFINE r == [proc[p] EXCEPT !.pc = "pkcs8", !.leaf = file["cert"]]
<1>1. proc \in [Procs -> Proc] /\ proc[p] \in Proc
  BY DEF Sorts
<1>2. proc' = [proc EXCEPT ![p] = r]
  BY <1>1 DEF LoadCerts, Proc
<1>3. /\ r \in Proc /\ r.pc = "pkcs8" /\ r.half = proc[p].half /\ r.kind = proc[p].kind
      /\ r.cfg = proc[p].cfg /\ r.pair = proc[p].pair /\ r.leaf = file["cert"]
  BY <1>1 DEF Proc, Places, LoadCerts
<1> HIDE DEF r
<1> QED BY <1>1, <1>2, <1>3, MovesOne DEF CertsLoaded, LoadCerts

LEMMA StartStep ==
    ASSUME BootInv, NEW p \in Procs, Start(p)
    PROVE  BootInv'
<1>1. /\ Begun(p, "ensure", "start", Loaded(file["conf"]))
      /\ past' = IF \E q \in Procs : Booting(q) /\ proc[q].kind = "init" THEN past \cup {"overlap"} ELSE past
  BY BeginsEffect DEF Start, Loaded, Places, Note, BootInv
<1>2. Sorts'
  BY <1>1 DEF BootInv, Typed, Sorts, Events, Others, Begun
<1>3. Holds'
  BY <1>1 DEF BootInv, Typed, Holds, InPair, Others, Begun
<1>4. CertFirst'
  BY <1>1 DEF BootInv, CertFirst, PairThere, At, Others, Begun
<1>5. OnePair'
  BY <1>1 DEF BootInv, OnePair, At, InPair, Others, Begun
<1>6. KeyMatches'
  BY <1>1 DEF BootInv, KeyMatches, At, Others, Begun
<1>7. SavedFirst'
  BY <1>1 DEF BootInv, Typed, Holds, SavedFirst, Orderly, Made, At, Booting, Others, Begun, Loaded
<1> QED BY <1>2, <1>3, <1>4, <1>5, <1>6, <1>7 DEF BootInv, Typed

LEMMA InitStep ==
    ASSUME BootInv, NEW p \in Procs, NEW force \in BOOLEAN, Init(p, force)
    PROVE  BootInv'
<1>1. /\ Begun(p, "conf", "init", "init")
      /\ (file["conf"] = Absent \/ force)
      /\ past' = past \cup (IF force THEN {"force"} ELSE {})
                    \cup (IF \E q \in Procs : Booting(q) THEN {"overlap"} ELSE {})
  BY BeginsEffect DEF Init, RunsInit, Places, Files, BootInv
<1>2. Sorts'
  BY <1>1 DEF BootInv, Typed, Sorts, Events, Others, Begun
<1>3. Holds'
  BY <1>1 DEF BootInv, Typed, Holds, InPair, Others, Begun
<1>4. CertFirst'
  BY <1>1 DEF BootInv, CertFirst, PairThere, At, Others, Begun
<1>5. OnePair'
  BY <1>1 DEF BootInv, OnePair, At, InPair, Others, Begun
<1>6. KeyMatches'
  BY <1>1 DEF BootInv, KeyMatches, At, Others, Begun
<1>7. SavedFirst'
  BY <1>1 DEF BootInv, SavedFirst, Orderly, Made, At, Booting, Others, Begun
<1> QED BY <1>2, <1>3, <1>4, <1>5, <1>6, <1>7 DEF BootInv, Typed

LEMMA FoundStep ==
    ASSUME BootInv, NEW p \in Procs, PairFound(p)
    PROVE  BootInv'
<1>1. /\ Moves(p, "print")
      /\ At(p, "ensure") /\ PairThere
      /\ UNCHANGED <<file, generated, pins, past>>
  BY GoesEffect DEF PairFound, Places, BootInv, Typed
<1>2. Sorts'
  BY <1>1 DEF BootInv, Typed, Sorts, Others, Moves
<1>3. Holds'
  BY <1>1 DEF BootInv, Typed, Holds, At, InPair, Others, Files, Moves, Keeps
<1>4. CertFirst'
  BY <1>1 DEF BootInv, CertFirst, PairThere, Moves
<1>5. OnePair'
  BY <1>1 DEF BootInv, OnePair, At, InPair, Others, Moves
<1>6. KeyMatches'
  BY <1>1 DEF BootInv, KeyMatches, At, Others, Moves
<1>7. SavedFirst'
  BY <1>1 DEF BootInv, SavedFirst, Orderly, Made, PairThere, At, Booting, Others, Moves, Keeps
<1> QED BY <1>2, <1>3, <1>4, <1>5, <1>6, <1>7 DEF BootInv, Typed

LEMMA GenerateStep ==
    ASSUME BootInv, NEW p \in Procs, NEW k \in Pairs, Generate(p, k)
    PROVE  BootInv'
<1>1. /\ Generated(p, k)
  BY GenerateEffect DEF BootInv
<1>2. Sorts'
  BY <1>1 DEF BootInv, Typed, Sorts, Events, Others, Generated
<1>3. Holds'
  BY <1>1 DEF BootInv, Typed, Holds, InPair, Others, Generated
<1>4. CertFirst'
  BY <1>1 DEF BootInv, CertFirst, At, Others, Generated
<1>5. OnePair'
  BY <1>1 DEF BootInv, CertFirst, OnePair, PairThere, At, InPair, Others, Generated
<1>6. KeyMatches'
  BY <1>1 DEF BootInv, KeyMatches, At, Others, Generated
<1>7. SavedFirst'
  BY <1>1 DEF BootInv, SavedFirst, Orderly, At, Booting, Others, Generated
<1> QED BY <1>2, <1>3, <1>4, <1>5, <1>6, <1>7 DEF BootInv, Typed

LEMMA TruncateStep ==
    ASSUME BootInv, NEW p \in Procs, Truncate(p)
    PROVE  BootInv'
<1>1. /\ Truncated(p)
  BY TruncateEffect DEF BootInv, Typed
<1>2. Sorts'
  BY <1>1 DEF BootInv, Typed, Sorts, Contents, Others, Truncated, Sets
<1>3. Holds'
  BY <1>1 DEF BootInv, Typed, Holds, InPair, Others, Truncated, Keeps
<1>4. CertFirst'
  BY <1>1, BootAssumption DEF BootInv, CertFirst, PairThere, At, Others, Files, Truncated, Sets
<1>5. OnePair'
  BY <1>1
     DEF BootInv, Typed, Holds, CertFirst, OnePair, PairThere, At, InPair, Others, Files,
         Truncated, Keeps, Sets
<1>6. KeyMatches'
  BY <1>1 DEF BootInv, OnePair, KeyMatches, At, Others, Files, Truncated, Sets
<1>7. SavedFirst'
  BY <1>1, BootAssumption
     DEF BootInv, Typed, Holds, SavedFirst, Orderly, Made, At, InPair, Booting, Others, Files,
         Truncated, Keeps, Sets
<1> QED BY <1>2, <1>3, <1>4, <1>5, <1>6, <1>7 DEF BootInv, Typed

LEMMA WriteStep ==
    ASSUME BootInv, NEW p \in Procs, Write(p)
    PROVE  BootInv'
<1>1. /\ Written(p)
  BY WriteEffect DEF BootInv, Typed
<1>2. Sorts'
  BY <1>1 DEF BootInv, Typed, Sorts, Holds, Contents, InPair, Others, Files, Written, Sets, Text
<1>3. Holds'
  BY <1>1, NoProcIs DEF BootInv, Typed, Holds, InPair, Others, Files, Written, Keeps, After
<1>4. CertFirst'
  BY <1>1, NoProcIs, BootAssumption
     DEF BootInv, Typed, Holds, CertFirst, PairThere, At, InPair, Others, Files, Written, Sets,
         Text, After
<1>5. OnePair'
  BY <1>1, NoProcIs
     DEF BootInv, Typed, Holds, CertFirst, OnePair, PairThere, At, InPair, Others, Files,
         Written, Keeps, Sets, Text, After
<1>6. KeyMatches'
  BY <1>1 DEF BootInv, OnePair, KeyMatches, At, Others, Files, Written, Sets, Text
<1>7. SavedFirst'
  BY <1>1, NoProcIs
     DEF BootInv, Typed, Holds, SavedFirst, Orderly, At, InPair, Booting, Others, Files, Written,
         Keeps, Sets, Text, After
<1> QED BY <1>2, <1>3, <1>4, <1>5, <1>6, <1>7 DEF BootInv, Typed

LEMMA PrintStep ==
    ASSUME BootInv, NEW p \in Procs, print_spki_fingerprint(p)
    PROVE  BootInv'
<1>1. /\ At(p, "print") /\ file["cert"] \in Pairs
      /\ Moves(p, IF proc[p].kind = "init" THEN "stub" ELSE "certs")
      /\ pins' = pins \cup {file["cert"]} /\ UNCHANGED <<file, generated, past>>
  BY GoesEffect DEF print_spki_fingerprint, Places, BootInv, Typed
<1>2. Sorts'
  BY <1>1 DEF BootInv, Typed, Sorts, Others, Moves
<1>3. Holds'
  BY <1>1 DEF BootInv, Typed, Holds, At, InPair, Others, Files, Moves, Keeps, Proc
<1>4. CertFirst'
  BY <1>1 DEF BootInv, CertFirst, PairThere, At, Moves
<1>5. OnePair'
  BY <1>1 DEF BootInv, OnePair, At, InPair, Others, Moves
<1>6. KeyMatches'
  BY <1>1 DEF BootInv, KeyMatches, At, Others, Moves
<1>7. SavedFirst'
  BY <1>1 DEF BootInv, SavedFirst, Orderly, Made, At, Booting, Others, Moves, Keeps
<1> QED BY <1>2, <1>3, <1>4, <1>5, <1>6, <1>7 DEF BootInv, Typed

LEMMA LoadCertsStep ==
    ASSUME BootInv, NEW p \in Procs, LoadCerts(p)
    PROVE  BootInv'
<1>1. /\ CertsLoaded(p)
  BY LoadCertsEffect DEF BootInv, Typed
<1>2. Sorts'
  BY <1>1 DEF BootInv, Typed, Sorts, Others, CertsLoaded
<1>3. Holds'
  BY <1>1 DEF BootInv, Typed, Holds, At, InPair, Others, Files, CertsLoaded
<1>4. CertFirst'
  BY <1>1 DEF BootInv, CertFirst, PairThere, At, CertsLoaded
<1>5. OnePair'
  BY <1>1 DEF BootInv, OnePair, At, InPair, Others, CertsLoaded
<1>6. KeyMatches'
  BY <1>1 DEF BootInv, KeyMatches, At, Others, CertsLoaded
<1>7. SavedFirst'
  BY <1>1 DEF BootInv, SavedFirst, Orderly, Made, At, Booting, Others, CertsLoaded
<1> QED BY <1>2, <1>3, <1>4, <1>5, <1>6, <1>7 DEF BootInv, Typed

LEMMA LoadKeyStep ==
    ASSUME BootInv, NEW p \in Procs, LoadKey(p)
    PROVE  BootInv'
<1>1. /\ At(p, "pkcs8") /\ Moves(p, "bind")
      /\ UNCHANGED <<file, generated, pins, past>>
  BY GoesEffect DEF LoadKey, Places, BootInv, Typed
<1>2. Sorts'
  BY <1>1 DEF BootInv, Typed, Sorts, Others, Moves
<1>3. Holds'
  BY <1>1 DEF BootInv, Typed, Holds, At, InPair, Others, Files, Moves, Keeps
<1>4. CertFirst'
  BY <1>1 DEF BootInv, CertFirst, PairThere, At, Moves
<1>5. OnePair'
  BY <1>1 DEF BootInv, OnePair, At, InPair, Others, Moves, Keeps
<1>6. KeyMatches'
  BY <1>1 DEF BootInv, KeyMatches, At, Others, Moves
<1>7. SavedFirst'
  BY <1>1 DEF BootInv, SavedFirst, Orderly, Made, At, Booting, Others, Moves, Keeps
<1> QED BY <1>2, <1>3, <1>4, <1>5, <1>6, <1>7 DEF BootInv, Typed

LEMMA BindStep ==
    ASSUME BootInv, NEW p \in Procs, Bind(p)
    PROVE  BootInv'
<1>1. /\ At(p, "bind") /\ Moves(p, "serving")
      /\ pins' = pins \cup {proc[p].leaf} /\ UNCHANGED <<file, generated, past>>
  BY GoesEffect DEF Bind, Places, BootInv, Typed
<1>2. Sorts'
  BY <1>1 DEF BootInv, Typed, Sorts, Holds, At, Others, Moves
<1>3. Holds'
  BY <1>1 DEF BootInv, Typed, Holds, At, InPair, Others, Files, Moves, Keeps
<1>4. CertFirst'
  BY <1>1 DEF BootInv, CertFirst, PairThere, At, Moves
<1>5. OnePair'
  BY <1>1 DEF BootInv, OnePair, At, InPair, Others, Moves, Keeps
<1>6. KeyMatches'
  BY <1>1 DEF BootInv, KeyMatches, At, Others, Moves
<1>7. SavedFirst'
  BY <1>1 DEF BootInv, SavedFirst, Orderly, Made, At, Booting, Others, Moves, Keeps
<1> QED BY <1>2, <1>3, <1>4, <1>5, <1>6, <1>7 DEF BootInv, Typed

LEMMA StubStep ==
    ASSUME BootInv, NEW p \in Procs, Stub(p)
    PROVE  BootInv'
<1>1. /\ At(p, "stub") /\ (Moves(p, "ak") \/ Leaves(p))
      /\ UNCHANGED <<file, generated, pins, past>>
  BY GoesEffect DEF Stub, StubUnless, Places, Files, BootInv, Typed
<1>2. Sorts'
  BY <1>1 DEF BootInv, Typed, Sorts, Others, Moves, Leaves
<1>3. Holds'
  BY <1>1, NoProcIs DEF BootInv, Typed, Holds, At, InPair, Others, Files, Moves, Keeps, Leaves
<1>4. CertFirst'
  BY <1>1, NoProcIs DEF BootInv, CertFirst, PairThere, At, Others, Moves, Leaves
<1>5. OnePair'
  BY <1>1, NoProcIs DEF BootInv, OnePair, At, InPair, Others, Moves, Leaves
<1>6. KeyMatches'
  BY <1>1 DEF BootInv, KeyMatches, At, Others, Moves, Leaves
<1>7. SavedFirst'
  BY <1>1, NoProcIs
     DEF BootInv, Typed, Holds, SavedFirst, Orderly, At, Booting, Others, Moves, Keeps, Leaves
<1> QED BY <1>2, <1>3, <1>4, <1>5, <1>6, <1>7 DEF BootInv, Typed

LEMMA EndsStep ==
    ASSUME BootInv, NEW p \in Procs, Ends(p)
    PROVE  BootInv'
<1>1. /\ ~At(p, "idle") /\ Leaves(p)
      /\ past' = IF proc[p].half THEN past \cup {proc[p].pc} ELSE past
      /\ UNCHANGED <<file, generated, pins>>
  BY GoesEffect DEF Ends, Note, Places, BootInv, Typed
<1>2. Sorts'
  BY <1>1 DEF BootInv, Typed, Sorts, Holds, Events, Others, Leaves
<1>3. Holds'
  BY <1>1, NoProcIs DEF BootInv, Typed, Holds, InPair, Others, Leaves
<1>4. CertFirst'
  BY <1>1, NoProcIs DEF BootInv, CertFirst, PairThere, At, Others, Leaves
<1>5. OnePair'
  BY <1>1, NoProcIs DEF BootInv, OnePair, At, InPair, Others, Leaves
<1>6. KeyMatches'
  BY <1>1 DEF BootInv, OnePair, KeyMatches, At, Others, Leaves
<1>7. SavedFirst'
  BY <1>1, NoProcIs DEF BootInv, SavedFirst, Orderly, Made, At, Booting, Others, Leaves
<1> QED BY <1>2, <1>3, <1>4, <1>5, <1>6, <1>7 DEF BootInv, Typed

LEMMA EditStep == ASSUME BootInv, EditsKeys PROVE BootInv'
<1>1. Sets("ak", "admin") /\ UNCHANGED <<proc, generated, pins, past>>
  BY WritesOne DEF EditsKeys, BootInv, Typed, Sorts, AllContents, Files
<1>2. Typed'
  BY <1>1 DEF BootInv, Typed, Sorts, Holds, Contents, Sets, InPair
<1>3. (CertFirst /\ OnePair /\ KeyMatches /\ SavedFirst)'
  BY <1>1 DEF BootInv, CertFirst, OnePair, KeyMatches, SavedFirst, Orderly, Made,
              PairThere, At, InPair, Booting, Sets, Files
<1> QED BY <1>2, <1>3 DEF BootInv

LEMMA RestStep == ASSUME BootInv, UNCHANGED bootVars PROVE BootInv'
  BY DEF bootVars, BootInv, Typed, Sorts, Holds, CertFirst, OnePair, KeyMatches, SavedFirst,
         Orderly, Made, PairThere, At, InPair, Booting

LEMMA FirstState == BootInit => BootInv
<1> SUFFICES ASSUME BootInit PROVE BootInv
  OBVIOUS
<1>1. proc \in [Procs -> Proc] /\ \A p \in Procs : proc[p] = NoProc
  BY NoProcIs DEF BootInit
<1>2. file \in [Files -> AllContents] /\ \A f \in Files : file[f] = Absent
  BY DEF BootInit, AllContents
<1>3. Typed
  BY <1>1, <1>2, NoProcIs DEF BootInit, Typed, Sorts, Holds, Contents, InPair, Files
<1>4. CertFirst /\ OnePair /\ KeyMatches
  BY <1>1, <1>2, NoProcIs DEF BootInit, CertFirst, OnePair, KeyMatches, At, InPair, Files
<1>5. SavedFirst
  BY <1>1, <1>2, NoProcIs DEF BootInit, SavedFirst, Made, At, Booting, Files
<1> QED BY <1>3, <1>4, <1>5 DEF BootInv

\* The invariant of init and start: every action of every process keeps it
\* (main.rs:42-105, tls_util.rs:14-83).
THEOREM BootInvariance == BootSpec => []BootInv
<1>1. BootInit => BootInv
  BY FirstState
<1>2. BootInv /\ [BootNext]_bootVars => BootInv'
  <2> SUFFICES ASSUME BootInv, [BootNext]_bootVars PROVE BootInv'
    OBVIOUS
  <2>1. CASE UNCHANGED bootVars
    BY <2>1, RestStep
  <2>2. CASE EditsKeys
    BY <2>2, EditStep
  <2>3. ASSUME NEW p \in Procs, Start(p) \/ PairFound(p) \/ Truncate(p) \/ Write(p)
        PROVE  BootInv'
    BY <2>3, StartStep, FoundStep, TruncateStep, WriteStep
  <2>4. ASSUME NEW p \in Procs,
               print_spki_fingerprint(p) \/ LoadCerts(p) \/ LoadKey(p) \/ Bind(p) \/ Stub(p) \/ Ends(p)
        PROVE  BootInv'
    BY <2>4, PrintStep, LoadCertsStep, LoadKeyStep, BindStep, StubStep, EndsStep
  <2>5. ASSUME NEW p \in Procs, NEW force \in BOOLEAN, Init(p, force) PROVE BootInv'
    BY <2>5, InitStep
  <2>6. ASSUME NEW p \in Procs, NEW k \in Pairs, Generate(p, k) PROVE BootInv'
    BY <2>6, GenerateStep
  <2> QED BY <2>1, <2>2, <2>3, <2>4, <2>5, <2>6 DEF BootNext
<1> QED BY <1>1, <1>2, PTL DEF BootSpec

\* Files and processes stay within their types: only a process configured to
\* generates a pair, only a start with a certificate in hand serves
\* (tls_util.rs:15-42, 78-81, main.rs:97-103).
THEOREM TypeCorrect == BootSpec => []BootTypeOK
<1>1. BootInv => BootTypeOK
  <2> SUFFICES ASSUME BootInv PROVE BootTypeOK
    OBVIOUS
  <2>1. /\ file["conf"] \in {Absent, Empty, "init"}
        /\ file["ak"] \in {Absent, Empty, "stub", "admin"}
        /\ {file["cert"], file["key"]} \subseteq Pairs \cup {Absent, Empty}
    BY DEF BootInv, Typed, Sorts, Contents, Files
  <2>2. \A p \in Procs : proc[p] \in Proc
    BY DEF BootInv, Typed, Sorts
  <2>3. \A p \in Procs :
          /\ proc[p].pc \in Files \cup {"idle", "ensure", "print", "certs", "pkcs8",
                                        "bind", "serving", "stub"}
          /\ proc[p].half => proc[p].pc \in Files
          /\ InPair(p) => proc[p].pair \in Pairs /\ proc[p].cfg = "init"
          /\ proc[p].pc \in {"pkcs8", "bind", "serving"} =>
                 proc[p].leaf \in Pairs /\ proc[p].kind = "start"
    BY <2>2 DEF BootInv, Typed, Holds, Proc, Places
  <2>4. pins \cup generated \subseteq Pairs /\ past \subseteq Events
    BY DEF BootInv, Typed, Sorts
  <2> QED BY <2>1, <2>3, <2>4 DEF BootTypeOK
<1> QED BY <1>1, BootInvariance, PTL

\* The key clients pin is made once: every fingerprint printed or served is that
\* of the one certificate on disk, whatever restarts, repeated and forced inits
\* and processes that end anywhere do, unless two processes generated at once
\* (tls_util.rs:15, 33-42, 55-57).
THEOREM PinnedOnce == BootSpec => []OnePin
<1>1. BootInv => OnePin
  BY DEF BootInv, OnePair, OnePin
<1> QED BY <1>1, BootInvariance, PTL

\* A certificate and a key that do not belong together are left behind only by
\* a process that ended inside the write of the key, or by a race
\* (tls_util.rs:15, 41-42, 78-81).
THEOREM TornOnly == BootSpec => []BrokenOnlyIfTorn
<1>1. BootInv => BrokenOnlyIfTorn
  BY DEF BootInv, OnePair, KeyMatches, BrokenOnlyIfTorn, Broken, PairThere, InPair, At
<1> QED BY <1>1, BootInvariance, PTL

\* A server runs without the deny patterns only after an init --force was cut
\* off in the write of the configuration, or an init overlapped another process
\* (main.rs:46-58, 88-93, tls_util.rs:18).
THEOREM PolicyServed == BootSpec => []PolicyInForce
<1>1. BootInv => PolicyInForce
  BY DEF BootInv, SavedFirst, Orderly, PolicyInForce, At
<1> QED BY <1>1, BootInvariance, PTL

\* A step of a process writes authorized_keys only where that process is at it,
\* and comes there only where the file was absent.
LEMMA KeysStep ==
    ASSUME BootInv, Kept, BootNext
    PROVE  Kept'
<1> USE BootAssumption
<1>1. CASE EditsKeys
  <2>1. Sets("ak", "admin") /\ UNCHANGED proc
    BY <1>1, WritesOne DEF EditsKeys, BootInv, Typed, Sorts, AllContents, Files
  <2> QED BY <2>1 DEF Kept, Sets, At
<1>2. ASSUME NEW p \in Procs, Start(p) PROVE Kept'
  <2>1. Begun(p, "ensure", "start", Loaded(file["conf"]))
    BY <1>2, BeginsEffect DEF Start, Loaded, Places, BootInv
  <2> QED BY <2>1 DEF Kept, Begun, Others, At
<1>3. ASSUME NEW p \in Procs, NEW force \in BOOLEAN, Init(p, force) PROVE Kept'
  <2>1. Begun(p, "conf", "init", "init")
    BY <1>3, BeginsEffect DEF Init, RunsInit, Places, Files, BootInv
  <2> QED BY <2>1 DEF Kept, Begun, Others, At
<1>4. ASSUME NEW p \in Procs, NEW k \in Pairs, Generate(p, k) PROVE Kept'
  BY <1>4, GenerateEffect DEF BootInv, Kept, Generated, Others, At
<1>5. ASSUME NEW p \in Procs, Truncate(p) PROVE Kept'
  BY <1>5, TruncateEffect DEF BootInv, Typed, Kept, Truncated, Sets, Others, At, Files
<1>6. ASSUME NEW p \in Procs, Write(p) PROVE Kept'
  BY <1>6, WriteEffect DEF BootInv, Typed, Kept, Written, After, Sets, Others, At, Files
<1>7. ASSUME NEW p \in Procs, LoadCerts(p) PROVE Kept'
  BY <1>7, LoadCertsEffect DEF BootInv, Typed, Kept, CertsLoaded, Others, At
<1>8. ASSUME NEW p \in Procs, NEW to \in Places \ {"ak"}, Goes(p, to), UNCHANGED file PROVE Kept'
  BY <1>8, GoesEffect, NoProcIs DEF BootInv, Typed, Kept, Moves, Leaves, Others, At
<1>9. ASSUME NEW p \in Procs, PairFound(p) \/ print_spki_fingerprint(p) \/ LoadKey(p) \/ Bind(p)
                              \/ Ends(p)
      PROVE  Kept'
  BY <1>8, <1>9 DEF PairFound, print_spki_fingerprint, LoadKey, Bind, Ends, Places, Files
<1>10. ASSUME NEW p \in Procs, Stub(p) PROVE Kept'
  BY <1>8, <1>10 DEF Kept, Stub, StubUnless, Places, Files
<1> QED BY <1>1, <1>2, <1>3, <1>4, <1>5, <1>6, <1>7, <1>9, <1>10 DEF BootNext

\* What the administrator entered in authorized_keys survives every later init,
\* --force included, once no process is at the stub (main.rs:64-72).
THEOREM AdminKept == BootSpec => AdminKeysKept
<1>1. BootInv /\ [BootNext]_bootVars => [Kept => Kept']_bootVars
  BY KeysStep
<1> QED BY <1>1, BootInvariance, PTL DEF BootSpec, AdminKeysKept
=============================================================================
