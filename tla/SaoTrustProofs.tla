--------------------------- MODULE SaoTrustProofs ---------------------------
(***************************************************************************)
(* The invariants of SaoTrust hold for any hosts, names, keys, processes   *)
(* and points at which a write may stop.                                   *)
(*                                                                         *)
(* A host's pin reaches the file only through the map of some process, and *)
(* a map's pin is either read from the file or the key that process was    *)
(* told to trust.  What a write leaves in the file is the beginning of a   *)
(* map's text and, behind it, the rest of another's.  While no rest was    *)
(* left, each line of the file is a line of some map (Exact).  After that  *)
(* a weaker fact survives (Weak): what stands before a key, from wherever  *)
(* one starts to read, is the end of a name the key was accepted for; a    *)
(* whole text ends with a newline, and no name is read across it.          *)
(*                                                                         *)
(* What a user of one command at a time relies on, that the file holds     *)
(* every pin reported as saved, needs more: the map about to be written is *)
(* the ledger with the new pin, and writing a map and loading it gives the *)
(* map back.                                                               *)
(***************************************************************************)
EXTENDS SaoTrust, SequenceTheorems, FiniteSetTheorems, WellFoundedInduction, TLAPS

Text == Seq(Cells)

\* the key was accepted as Vouched asks
VouchedIn(h, fp, acc, ps) ==
    \/ <<h, fp>> \in acc
    \/ "tail" \in ps /\ \E g \in Hosts : Suffix(h, g) /\ <<g, fp>> \in acc
    \/ "mixed" \in ps

\* what a line pins was accepted for its host
Exact(f, acc) == \A h \in Hosts : \A j \in DOMAIN f : Reads(h, f, j) => <<h, f[j]>> \in acc

\* wherever a host's text stands before a key, a name that ends in it was accepted
Weak(f, acc) ==
    \A h \in Hosts : \A j \in DOMAIN f :
        Before(h, f, j) => \E g \in Hosts : Suffix(h, g) /\ <<g, f[j]>> \in acc

TextSound(f, acc, ps) ==
    /\ "mixed" \notin ps => Weak(f, acc)
    /\ "mixed" \notin ps /\ "tail" \notin ps => Exact(f, acc)

Decided(st) == st.pc \in {"merge", "truncate", "write", "connect", "session"}

\* the pins a process knows, and the key it was told to trust
MapVouched(st, acc, ps) ==
    \A h \in Hosts : st.kh[h] # NoPin => VouchedIn(h, st.kh[h], acc, ps)

KeyVouched(st, acc, ps) == Decided(st) => VouchedIn(normalize_host(st.name), st.fp, acc, ps)

\* the key a question showed is what the process knows for the host, once saved
AnswerKept(st) ==
    /\ st.pc = "resolve" => ~st.asked
    /\ st.pc = "prompt" => st.fp \in Fps
    /\ st.asked /\ Decided(st) /\ st.pc # "merge" => st.kh[normalize_host(st.name)] = st.fp

Sound(st, acc, ps) == MapVouched(st, acc, ps) /\ KeyVouched(st, acc, ps) /\ AnswerKept(st)

TrustInv ==
    /\ TrustTypeOK
    /\ TextSound(file, accepted, past)
    /\ \A p \in Procs : Sound(proc[p], accepted, past)

\* for a user of one command at a time: the map to be written is the ledger with
\* the new pin, and but for the write under way the file is the ledger
MapIsLedger(st, led) ==
    /\ st.pc \in {"truncate", "write"} => st.kh = insert_hex(led, st.name, st.fp)
    /\ st.pc \in {"probe", "prompt"} /\ st.stage = "first" => st.kh = led

Ledgered ==
    /\ \A p \in Procs : MapIsLedger(proc[p], ledger)
    /\ IF Quiet THEN load(file) = ledger ELSE file = <<>>

\* as long as no save was cut off
LedgerInv == "cut" \notin past => Ledgered

-----------------------------------------------------------------------------
(***************************************************************************)
(* Lemmas about numbers, and about the operators of known_hosts.rs.        *)
(***************************************************************************)

\* A nonempty set of naturals has a least element: the intervals 1..m are
\* finite, and strict inclusion among finite sets is well-founded.
LEMMA Least ==
  ASSUME NEW S \in SUBSET Nat, S # {}
  PROVE  \E m \in S : \A k \in S : m =< k
<1> DEFINE T == {1..m : m \in S}
<1>1. T \subseteq FiniteSubsetsOf(Nat)
  <2>1. ASSUME NEW m \in S PROVE 1..m \in SUBSET Nat /\ IsFiniteSet(1..m)
    BY FS_Interval, m \in Nat
  <2> QED BY <2>1 DEF FiniteSubsetsOf
<1>2. PICK x \in T : \A y \in T : <<y, x>> \notin StrictSubsetOrdering(Nat)
  <2>1. T # {} OBVIOUS
  <2> HIDE DEF T
  <2> QED BY <1>1, <2>1, WFMin, FS_StrictSubsetOrderingWellFounded
<1>3. PICK m \in S : x = 1..m
  OBVIOUS
<1>4. ASSUME NEW k \in S, k < m PROVE FALSE
  <2>1. m \in 1..m /\ m \notin 1..k
    BY <1>4
  <2>2. 1..k \in SUBSET Nat /\ 1..m \in SUBSET Nat /\ 1..k \subseteq 1..m /\ 1..k # 1..m
    BY <1>4, <2>1
  <2>3. 1..k \in T
    OBVIOUS
  <2>4. <<1..k, 1..m>> \notin StrictSubsetOrdering(Nat)
    BY <1>2, <1>3, <2>3
  <2> QED BY <2>2, <2>4, Zenon DEF StrictSubsetOrdering
<1> QED BY <1>4

\* A nonempty set of positions of a sequence has a last one: load's CHOOSE is
\* well defined.
LEMMA Greatest ==
  ASSUME NEW n \in Nat, NEW S \in SUBSET (1..n), S # {}
  PROVE  \E m \in S : \A k \in S : k =< m
<1> DEFINE T == {n - k : k \in S}
<1>1. T \in SUBSET Nat
  OBVIOUS
<1>2. T # {}
  OBVIOUS
<1>3. PICK t \in T : \A u \in T : t =< u
  <2> HIDE DEF T
  <2> QED BY <1>1, <1>2, Least
<1>4. PICK m \in S : t = n - m
  OBVIOUS
<1>5. ASSUME NEW k \in S PROVE n - m =< n - k
  BY <1>3, <1>4
<1>6. ASSUME NEW k \in S PROVE k =< m
  BY <1>5, <1>6
<1> QED BY <1>6

\* A nonempty text ends with its last line, and a fingerprint ends a line.
Closed(c) ==
    /\ c # <<>> => c[Len(c)] = NL
    /\ \A j \in DOMAIN c : c[j] \in Fps => j < Len(c) /\ c[j + 1] = NL

\* A name that is typed stands for a host; a host is the text of its name, of at
\* least two pieces, none of them a fingerprint or the end of a line.
LEMMA Constants ==
  /\ \A n \in Names : normalize_host(n) \in Hosts
  /\ NoPin \notin Fps /\ NL \notin Fps /\ Junk \notin Fps
  /\ Len(HostOrder) \in Nat /\ DOMAIN HostOrder = 1..Len(HostOrder)
  /\ \A i \in 1..Len(HostOrder) : HostOrder[i] \in Hosts
  /\ \A h \in Hosts : /\ h = <<h[1], "lower">> /\ h[1] \in Seq(Tokens)
                      /\ Len(h[1]) \in Nat /\ Len(h[1]) >= 2
                      /\ \A k \in 1..Len(h[1]) : h[1][k] \in Cells \ (Fps \cup {NL})
<1>1. Len(HostOrder) \in Nat /\ DOMAIN HostOrder = 1..Len(HostOrder)
  BY TrustAssumption
<1>2. \A h \in Hosts : h \in Seq(Tokens) \X {"lower"}
  BY TrustAssumption DEF Hosts
<1>3. ASSUME NEW h \in Hosts
      PROVE  /\ h = <<h[1], "lower">> /\ h[1] \in Seq(Tokens)
             /\ Len(h[1]) \in Nat /\ Len(h[1]) >= 2
             /\ \A k \in 1..Len(h[1]) : h[1][k] \in Cells \ (Fps \cup {NL})
  <2>1. h = <<h[1], "lower">> /\ h[1] \in Seq(Tokens)
    BY <1>2
  <2>2. Len(h[1]) \in Nat /\ Len(h[1]) >= 2
    BY <2>1, TrustAssumption
  <2>3. ASSUME NEW k \in 1..Len(h[1]) PROVE h[1][k] \in Tokens
    BY <2>1, ElementOfSeq
  <2>4. Tokens \subseteq Cells \ (Fps \cup {NL})
    BY TrustAssumption DEF Cells
  <2> QED BY <2>1, <2>2, <2>3, <2>4
<1>4. \A i \in 1..Len(HostOrder) : HostOrder[i] \in Hosts
  BY <1>1 DEF Hosts
<1>5. NoPin \notin Fps /\ NL \notin Fps /\ Junk \notin Fps
  BY TrustAssumption
<1>6. \A n \in Names : normalize_host(n) \in Hosts
  BY TrustAssumption DEF normalize_host
<1> QED BY <1>1, <1>3, <1>4, <1>5, <1>6

\* A text is a sequence of cells.
LEMMA TextElements ==
  ASSUME NEW f \in Text
  PROVE  Len(f) \in Nat /\ DOMAIN f = 1..Len(f) /\ \A j \in 1..Len(f) : f[j] \in Cells
BY DEF Text

\* Where a line pins host g, a host whose text stands there is the end of g:
\* beyond the start of the line there is a newline.
LEMMA SuffixRead ==
  ASSUME NEW f, NEW j \in Nat, NEW g \in Hosts, NEW h \in Hosts, Reads(g, f, j), Before(h, f, j)
  PROVE  Suffix(h, g)
<1> DEFINE m == Len(h[1])
           n == Len(g[1])
<1>1. m \in Nat /\ n \in Nat /\ m < j /\ n < j
  BY Constants DEF Reads, Before
<1>2. \A k \in 1..m : f[j - m + k - 1] = h[1][k]
  BY DEF Before
<1>3. \A k \in 1..n : f[j - n + k - 1] = g[1][k]
  BY DEF Reads, Before
<1>4. 1 < j - n => f[j - n - 1] = NL
  BY DEF Reads, StartsLine
<1>5. \A k \in 1..m : h[1][k] # NL
  BY Constants
<1> HIDE DEF m, n
<1>6. m =< n
  <2> SUFFICES ASSUME n < m PROVE FALSE
    BY <1>1
  <2>1. m - n \in 1..m /\ 1 < j - n /\ j - m + (m - n) - 1 = j - n - 1
    BY <1>1
  <2>2. f[j - n - 1] = h[1][m - n]
    BY <1>2, <2>1
  <2> QED BY <1>4, <1>5, <2>1, <2>2
<1>7. ASSUME NEW k \in 1..m PROVE h[1][k] = g[1][n - m + k]
  <2>1. n - m + k \in 1..n /\ j - n + (n - m + k) - 1 = j - m + k - 1
    BY <1>1, <1>6
  <2>2. f[j - m + k - 1] = g[1][n - m + k]
    BY <1>3, <2>1
  <2> QED BY <1>2, <2>2
<1> QED BY <1>6, <1>7 DEF Suffix, m, n

\* A line pins one host only.
LEMMA OneReading ==
  ASSUME NEW f, NEW j \in Nat, NEW g \in Hosts, NEW h \in Hosts, Reads(g, f, j), Reads(h, f, j)
  PROVE  g = h
<1>1. Suffix(h, g) /\ Suffix(g, h)
  BY SuffixRead DEF Reads
<1>2. /\ g = <<g[1], "lower">> /\ h = <<h[1], "lower">>
      /\ g[1] \in Seq(Tokens) /\ h[1] \in Seq(Tokens) /\ Len(g[1]) \in Nat /\ Len(h[1]) \in Nat
  BY Constants
<1>3. Len(g[1]) = Len(h[1])
  BY <1>1, <1>2 DEF Suffix
<1>4. ASSUME NEW k \in 1..Len(h[1]) PROVE h[1][k] = g[1][k]
  <2>1. h[1][k] = g[1][Len(g[1]) - Len(h[1]) + k]
    BY <1>1 DEF Suffix
  <2>2. Len(g[1]) - Len(h[1]) + k = k
    BY <1>2, <1>3
  <2> QED BY <2>1, <2>2
<1>5. g[1] = h[1]
  BY <1>2, <1>3, <1>4, SeqEqual
<1> QED BY <1>2, <1>5

\* The end of an end is an end.
LEMMA SuffixOrder ==
  /\ \A h \in Hosts : Suffix(h, h)
  /\ \A f, g, h \in Hosts : Suffix(f, g) /\ Suffix(g, h) => Suffix(f, h)
<1>1. ASSUME NEW h \in Hosts PROVE Suffix(h, h)
  BY Constants DEF Suffix
<1>2. ASSUME NEW f \in Hosts, NEW g \in Hosts, NEW h \in Hosts, Suffix(f, g), Suffix(g, h)
      PROVE  Suffix(f, h)
  <2> DEFINE l == Len(f[1])
             m == Len(g[1])
             n == Len(h[1])
  <2>1. l \in Nat /\ m \in Nat /\ n \in Nat
    BY Constants
  <2>2. l =< m /\ \A k \in 1..l : f[1][k] = g[1][m - l + k]
    BY <1>2 DEF Suffix
  <2>3. m =< n /\ \A k \in 1..m : g[1][k] = h[1][n - m + k]
    BY <1>2 DEF Suffix
  <2> HIDE DEF l, m, n
  <2>4. ASSUME NEW k \in 1..l PROVE f[1][k] = h[1][n - l + k]
    <3>1. m - l + k \in 1..m /\ n - m + (m - l + k) = n - l + k
      BY <2>1, <2>2, <2>3
    <3> QED BY <2>2, <2>3, <3>1
  <2>5. l =< n
    BY <2>1, <2>2, <2>3
  <2> QED BY <2>4, <2>5 DEF Suffix, l, m, n
<1> QED BY <1>1, <1>2

\* What load returns for a host is NoPin if no line names it, or the fingerprint
\* of such a line.
LEMMA LoadReads ==
  ASSUME NEW f \in Text, NEW h \in Hosts
  PROVE  /\ load(f)[h] # NoPin => \E j \in DOMAIN f : Reads(h, f, j) /\ f[j] = load(f)[h]
         /\ (\E j \in DOMAIN f : Reads(h, f, j)) => load(f)[h] # NoPin
<1> DEFINE at == {j \in DOMAIN f : Reads(h, f, j)}
<1> DEFINE last == CHOOSE i \in at : \A j \in at : j =< i
<1>1. load(f)[h] = IF at = {} THEN NoPin ELSE f[last]
  BY DEF load
<1>2. ASSUME at # {} PROVE last \in at
  <2>1. DOMAIN f = 1..Len(f) /\ Len(f) \in Nat
    BY TextElements
  <2>2. \E i \in at : \A j \in at : j =< i
    BY <1>2, <2>1, Greatest
  <2> QED BY <2>2
<1>3. ASSUME at # {} PROVE f[last] # NoPin
  BY <1>2, <1>3, Constants DEF Reads, Before
<1> QED BY <1>1, <1>2, <1>3

\* load returns a map of pins.
LEMMA LoadTyped == ASSUME NEW f \in Text PROVE load(f) \in Pins
<1>1. ASSUME NEW h \in Hosts PROVE load(f)[h] \in Fps \cup {NoPin}
  BY LoadReads DEF Reads, Before
<1>2. load(f) = [h \in Hosts |-> load(f)[h]]
  BY DEF load
<1> QED BY <1>1, <1>2 DEF Pins

\* insert_hex sets the pin of the normalised host and leaves the others alone.
LEMMA InsertHex ==
  ASSUME NEW kh \in Pins, NEW n \in Names, NEW fp \in Fps \cup {NoPin}
  PROVE  /\ insert_hex(kh, n, fp) \in Pins
         /\ insert_hex(kh, n, fp)[normalize_host(n)] = fp
         /\ \A h \in Hosts : h # normalize_host(n) => insert_hex(kh, n, fp)[h] = kh[h]
BY Constants DEF insert_hex, Pins

\* Two texts, one behind the other.
LEMMA ConcatCells ==
  ASSUME NEW s \in Text, NEW t \in Text
  PROVE  /\ s \o t \in Text /\ Len(s \o t) = Len(s) + Len(t)
         /\ \A i \in 1..Len(s) : (s \o t)[i] = s[i]
         /\ \A i \in 1..Len(t) : (s \o t)[Len(s) + i] = t[i]
<1>1. s \in Seq(Cells) /\ t \in Seq(Cells) /\ Len(s) \in Nat /\ Len(t) \in Nat
  BY TextElements DEF Text
<1>2. /\ s \o t \in Seq(Cells)
      /\ Len(s \o t) = Len(s) + Len(t)
      /\ \A i \in 1 .. Len(s) + Len(t) :
            (s \o t)[i] = IF i <= Len(s) THEN s[i] ELSE t[i - Len(s)]
  BY <1>1, ConcatProperties
<1> DEFINE u == s \o t
<1> HIDE DEF u
<1>3. ASSUME NEW i \in 1..Len(t) PROVE u[Len(s) + i] = t[i]
  <2>1. /\ Len(s) + i \in 1..(Len(s) + Len(t)) /\ ~(Len(s) + i <= Len(s))
        /\ Len(s) + i - Len(s) = i
    BY <1>1
  <2> QED BY <1>2, <2>1 DEF u
<1>4. ASSUME NEW i \in 1..Len(s) PROVE u[i] = s[i]
  <2>1. i \in 1..(Len(s) + Len(t)) /\ i <= Len(s)
    BY <1>1
  <2> QED BY <1>2, <2>1 DEF u
<1> QED BY <1>2, <1>3, <1>4 DEF Text, u

\* The cells of a line: the host's text, the fingerprint, the end.
LEMMA EntryCells ==
  ASSUME NEW h \in Hosts, NEW fp \in Fps
  PROVE  /\ Entry(h, fp) \in Text /\ Len(Entry(h, fp)) = Len(h[1]) + 2
         /\ \A k \in 1..Len(h[1]) : Entry(h, fp)[k] = h[1][k]
         /\ Entry(h, fp)[Len(h[1]) + 1] = fp /\ Entry(h, fp)[Len(h[1]) + 2] = NL
<1> DEFINE end == <<fp, NL>>
<1>1. h[1] \in Text /\ Len(h[1]) \in Nat
  <2>1. h[1] \in Seq(Tokens) /\ Len(h[1]) \in Nat
    BY Constants
  <2>2. Tokens \subseteq Cells
    BY DEF Cells
  <2> QED BY <2>1, <2>2 DEF Text
<1>2. end \in Text /\ Len(end) = 2 /\ end[1] = fp /\ end[2] = NL
  <2>1. fp \in Cells /\ NL \in Cells
    BY DEF Cells
  <2> QED BY <2>1 DEF Text
<1>3. Entry(h, fp) = h[1] \o end
  BY DEF Entry
<1> HIDE DEF end
<1>4. /\ Entry(h, fp) \in Text /\ Len(Entry(h, fp)) = Len(h[1]) + 2
      /\ \A i \in 1..Len(h[1]) : Entry(h, fp)[i] = h[1][i]
      /\ \A i \in 1..2 : Entry(h, fp)[Len(h[1]) + i] = end[i]
  <2>1. h[1] \o end \in Text /\ Len(h[1] \o end) = Len(h[1]) + Len(end)
    BY <1>1, <1>2, ConcatCells
  <2>2. \A i \in 1..Len(h[1]) : (h[1] \o end)[i] = h[1][i]
    BY <1>1, <1>2, ConcatCells
  <2>3. \A i \in 1..Len(end) : (h[1] \o end)[Len(h[1]) + i] = end[i]
    BY <1>1, <1>2, ConcatCells
  <2> QED BY <1>2, <1>3, <2>1, <2>2, <2>3, Zenon
<1> QED BY <1>2, <1>4

\* d is c with the line of h behind it: m cells of c, n of the name, the
\* fingerprint at e.
Extends(d, c, h, fp, m, n, e) ==
    /\ Len(c) = m /\ Len(h[1]) = n /\ e = m + n + 1 /\ Len(d) = m + n + 2
    /\ \A k \in 1..m : d[k] = c[k]
    /\ \A k \in 1..n : d[m + k] = h[1][k]
    /\ d[e] = fp /\ d[e + 1] = NL

\* A line behind a closed text: the lines before it stay what they were, and the
\* new one is read.
LEMMA AddCells ==
  ASSUME NEW c \in Text, Closed(c), NEW h \in Hosts, NEW fp \in Fps, NEW d \in Text,
         NEW m \in Nat, NEW n \in Nat, NEW e \in Nat, Extends(d, c, h, fp, m, n, e)
  PROVE  /\ Closed(d) /\ Reads(h, d, e)
         /\ \A j \in DOMAIN d : d[j] \in Fps /\ j # e => j \in DOMAIN c
         /\ \A j \in DOMAIN c : j \in DOMAIN d /\ d[j] = c[j]
         /\ \A g \in Hosts, j \in DOMAIN c : Reads(g, c, j) => Reads(g, d, j)
<1> USE DEF Extends
<1>1. \A k \in 1..n : h[1][k] \notin Fps /\ h[1][k] # NL
  BY Constants
<1>2. NL \notin Fps
  BY Constants
<1>3. DOMAIN d = 1..(m + n + 2) /\ DOMAIN c = 1..m
  BY TextElements
<1>4. /\ m > 0 => c[m] = NL
      /\ \A j \in 1..m : c[j] \in Fps => j < m /\ c[j + 1] = NL
  <2>1. m > 0 => c # <<>>
    OBVIOUS
  <2> QED BY <1>3, <2>1 DEF Closed
<1>5. \A j \in 1..m : j \in 1..(m + n + 2) /\ d[j] = c[j]
  OBVIOUS
<1>6. \A k \in 1..n : m + k \in 1..(m + n + 2) /\ d[m + k] = h[1][k]
  OBVIOUS
<1>7. e \in 1..(m + n + 2) /\ d[e] = fp
  OBVIOUS
<1>8. e + 1 \in 1..(m + n + 2) /\ d[e + 1] = NL /\ e + 1 = Len(d)
  <2>1. e + 1 = m + n + 2
    OBVIOUS
  <2> QED BY <2>1
<1>9. ASSUME NEW j \in 1..(m + n + 2)
       PROVE  j \in 1..m \/ (\E k \in 1..n : j = m + k) \/ j = e \/ j = e + 1
  <2>1. CASE j > m /\ j - m =< n
    BY <2>1, j - m \in 1..n, j = m + (j - m)
  <2>2. CASE j =< m
    BY <2>2
  <2>3. CASE j > m /\ j - m > n
    BY <2>3
  <2> QED BY <2>1, <2>2, <2>3
<1>10. ASSUME NEW j \in 1..(m + n + 2), d[j] \in Fps, j # e PROVE j \in 1..m
  <2>1. CASE j = e + 1
    BY <1>2, <1>8, <1>10, <2>1
  <2>2. ASSUME NEW k \in 1..n, j = m + k PROVE FALSE
    BY <1>1, <1>6, <1>10, <2>2
  <2> QED BY <1>9, <1>10, <2>1, <2>2
<1>11. Closed(d)
  <2>1. d[Len(d)] = NL
    BY <1>8
  <2>2. ASSUME NEW j \in DOMAIN d, d[j] \in Fps PROVE j < Len(d) /\ d[j + 1] = NL
    <3>1. CASE j = e
      BY <1>8, <3>1
    <3>2. CASE j # e
      <4>1. j \in 1..m /\ d[j] = c[j]
        BY <1>3, <1>5, <1>10, <2>2, <3>2
      <4>2. j < m /\ c[j + 1] = NL
        BY <1>4, <2>2, <4>1
      <4>3. j + 1 \in 1..m /\ j < Len(d)
        BY <1>3, <4>1, <4>2
      <4> QED BY <1>5, <4>2, <4>3
    <3> QED BY <3>1, <3>2
  <2> QED BY <2>1, <2>2 DEF Closed
<1>12. Reads(h, d, e)
  <2>1. e - n = m + 1
    OBVIOUS
  <2>2. ASSUME NEW k \in 1..n PROVE d[e - n + k - 1] = h[1][k]
    <3>1. e - n + k - 1 = m + k
      OBVIOUS
    <3> QED BY <1>6, <3>1
  <2>3. n < e
    OBVIOUS
  <2>4. 1 < m + 1 => d[m + 1 - 1] = NL
    <3> SUFFICES ASSUME m > 0 PROVE d[m + 1 - 1] = NL
      OBVIOUS
    <3>1. m + 1 - 1 = m /\ m \in 1..m
      OBVIOUS
    <3> QED BY <1>4, <1>5, <3>1
  <2>5. d[e] # NL /\ d[e + 1] = NL
    BY <1>2, <1>7, <1>8
  <2> QED BY <1>7, <2>1, <2>2, <2>3, <2>4, <2>5 DEF Reads, Before, StartsLine, EndsLine
<1>13. ASSUME NEW g \in Hosts, NEW j \in 1..m, Reads(g, c, j) PROVE Reads(g, d, j)
  <2> DEFINE l == Len(g[1])
  <2>1. /\ c[j] \in Fps /\ l < j /\ \A k \in 1..l : c[j - l + k - 1] = g[1][k]
        /\ 1 < j - l => c[j - l - 1] = NL
    BY <1>13 DEF Reads, Before, StartsLine
  <2>2. l \in Nat
    BY Constants
  <2> HIDE DEF l
  <2>3. d[j] = c[j] /\ d[j] # NL
    BY <1>2, <1>5, <2>1
  <2>4. j < m /\ d[j + 1] = NL
    <3>1. j < m /\ c[j + 1] = NL
      BY <1>4, <2>1
    <3>2. j + 1 \in 1..m
      BY <3>1
    <3> QED BY <1>5, <3>1, <3>2
  <2>5. ASSUME NEW k \in 1..l PROVE d[j - l + k - 1] = g[1][k]
    <3>1. j - l + k - 1 \in 1..m
      BY <2>1, <2>2
    <3> QED BY <1>5, <2>1, <3>1
  <2>6. ASSUME 1 < j - l PROVE d[j - l - 1] = NL
    <3>1. j - l - 1 \in 1..m
      BY <2>2, <2>6
    <3> QED BY <1>5, <2>1, <2>6, <3>1
  <2> QED BY <2>1, <2>3, <2>4, <2>5, <2>6 DEF Reads, Before, StartsLine, EndsLine, l
<1> QED BY <1>3, <1>5, <1>7, <1>10, <1>11, <1>12, <1>13

\* A line added to whole lines is read back, and the text ends with a newline again.
LEMMA AddEntry ==
  ASSUME NEW c \in Text, Closed(c), NEW h \in Hosts, NEW fp \in Fps
  PROVE  \E d \in Text : \E e \in DOMAIN d :
            /\ d = c \o Entry(h, fp) /\ Closed(d) /\ d[e] = fp /\ Reads(h, d, e)
            /\ \A j \in DOMAIN d : d[j] \in Fps /\ j # e => j \in DOMAIN c
            /\ \A j \in DOMAIN c : j \in DOMAIN d /\ d[j] = c[j]
            /\ \A g \in Hosts, j \in DOMAIN c : Reads(g, c, j) => Reads(g, d, j)
<1>1. PICK m \in Nat, n \in Nat : Len(c) = m /\ Len(h[1]) = n
  BY Constants, TextElements
<1>2. PICK x \in Text :
         /\ x = Entry(h, fp) /\ Len(x) = n + 2 /\ x[n + 1] = fp /\ x[n + 2] = NL
         /\ \A k \in 1..n : x[k] = h[1][k]
  BY <1>1, EntryCells
<1>3. PICK d \in Text :
         /\ d = c \o x /\ Len(d) = m + (n + 2)
         /\ \A k \in 1..m : d[k] = c[k]
         /\ \A k \in 1..(n + 2) : d[m + k] = x[k]
  <2>1. c \o x \in Text /\ Len(c \o x) = Len(c) + Len(x)
    BY ConcatCells
  <2>2. \A k \in 1..Len(c) : (c \o x)[k] = c[k]
    BY ConcatCells
  <2>3. \A k \in 1..Len(x) : (c \o x)[Len(c) + k] = x[k]
    BY ConcatCells
  <2> QED BY <1>1, <1>2, <2>1, <2>2, <2>3, Zenon
<1> DEFINE e == m + n + 1
<1>4. d = c \o Entry(h, fp)
  BY <1>2, <1>3
<1>5. /\ m + (n + 2) = m + n + 2 /\ m + (n + 1) = e /\ m + (n + 2) = e + 1 /\ e \in Nat
      /\ n + 1 \in 1..(n + 2) /\ n + 2 \in 1..(n + 2) /\ \A k \in 1..n : k \in 1..(n + 2)
      /\ e \in 1..(m + (n + 2))
  OBVIOUS
<1>6. d[e] = fp /\ d[e + 1] = NL /\ \A k \in 1..n : d[m + k] = h[1][k]
  <2> HIDE DEF e
  <2> QED BY <1>2, <1>3, <1>5, Zenon
<1>7. e \in DOMAIN d
  BY <1>3, <1>5, TextElements
<1>8. /\ Closed(d) /\ Reads(h, d, e)
      /\ \A j \in DOMAIN d : d[j] \in Fps /\ j # e => j \in DOMAIN c
      /\ \A j \in DOMAIN c : j \in DOMAIN d /\ d[j] = c[j]
      /\ \A g \in Hosts, j \in DOMAIN c : Reads(g, c, j) => Reads(g, d, j)
  <2>1. Len(d) = m + n + 2 /\ e = m + n + 1 /\ e \in Nat
    BY <1>3, <1>5
  <2>2. Len(c) = m /\ Len(h[1]) = n /\ \A k \in 1..m : d[k] = c[k]
    BY <1>1, <1>3
  <2> HIDE DEF e
  <2>3. Extends(d, c, h, fp, m, n, e)
    BY <1>6, <2>1, <2>2 DEF Extends
  <2> QED BY <2>1, <2>3, AddCells
<1> QED BY <1>4, <1>6, <1>7, <1>8, Zenon

\* The recursion over the hosts is well defined: a least n without a function
\* up to n would have one, that of n - 1 with one more value.
LEMMA EntriesUpToDef ==
  ASSUME NEW kh
  PROVE  EntriesUpTo(kh) =
            [n \in 0..Len(HostOrder) |->
                IF n = 0 THEN <<>>
                ELSE IF kh[HostOrder[n]] = NoPin THEN EntriesUpTo(kh)[n - 1]
                ELSE EntriesUpTo(kh)[n - 1] \o Entry(HostOrder[n], kh[HostOrder[n]])]
<1> DEFINE Next(s, n) ==
      IF kh[HostOrder[n]] = NoPin THEN s ELSE s \o Entry(HostOrder[n], kh[HostOrder[n]])
<1> DEFINE Upto(f, m) == f = [n \in 0..m |-> IF n = 0 THEN <<>> ELSE Next(f[n - 1], n)]
<1> DEFINE Bad == {m \in Nat : ~\E f : Upto(f, m)}
<1>1. Bad = {}
  <2> SUFFICES ASSUME Bad # {} PROVE FALSE
    OBVIOUS
  <2>1. PICK m \in Bad : \A k \in Bad : m =< k
    <3>1. Bad \in SUBSET Nat
      OBVIOUS
    <3> HIDE DEF Bad
    <3> QED BY <3>1, Least
  <2>2. m # 0
    <3>1. Upto([n \in 0..0 |-> <<>>], 0)
      OBVIOUS
    <3> QED BY <3>1
  <2>3. m - 1 \in Nat /\ m - 1 \notin Bad
    <3>1. m \in Nat
      OBVIOUS
    <3> HIDE DEF Bad
    <3> QED BY <2>1, <2>2, <3>1
  <2>4. PICK f : Upto(f, m - 1)
    BY <2>3
  <2> DEFINE g == [n \in 0..m |-> IF n = m THEN Next(f[m - 1], m) ELSE f[n]]
  <2>5. ASSUME NEW n \in 0..m PROVE g[n] = IF n = 0 THEN <<>> ELSE Next(g[n - 1], n)
    <3> HIDE DEF Next
    <3> QED BY <2>2, <2>4, m \in Nat
  <2>6. Upto(g, m)
    <3>1. g = [n \in 0..m |-> g[n]]
      OBVIOUS
    <3> HIDE DEF g, Next
    <3> QED BY <2>5, <3>1
  <2> QED BY <2>6
<1>2. \E f : Upto(f, Len(HostOrder))
  BY <1>1, Constants
<1>3. EntriesUpTo(kh) = CHOOSE f : Upto(f, Len(HostOrder))
  BY DEF EntriesUpTo
<1>4. Upto(EntriesUpTo(kh), Len(HostOrder))
  BY <1>2, <1>3
<1> QED BY <1>4

\* c is the text of the pins of kh, for the first n hosts: each has its line, and
\* no fingerprint stands anywhere else.
TextOf(c, kh, n) ==
    /\ c \in Text /\ Closed(c)
    /\ \A j \in DOMAIN c : c[j] \in Fps => \E h \in Hosts : Reads(h, c, j) /\ kh[h] = c[j]
    /\ \A k \in 1..n : kh[HostOrder[k]] # NoPin =>
          \E j \in DOMAIN c : Reads(HostOrder[k], c, j) /\ c[j] = kh[HostOrder[k]]

\* One more host.
LEMMA TextGrows ==
  ASSUME NEW kh \in Pins, NEW n \in 1..Len(HostOrder), NEW c, TextOf(c, kh, n - 1),
         NEW d, d = IF kh[HostOrder[n]] = NoPin THEN c
                    ELSE c \o Entry(HostOrder[n], kh[HostOrder[n]])
  PROVE  TextOf(d, kh, n)
<1> DEFINE h == HostOrder[n]
<1>1. h \in Hosts /\ kh[h] \in Fps \cup {NoPin}
  BY Constants DEF Pins
<1>2. \A k \in 1..n : k \in 1..(n - 1) \/ k = n
  BY Constants
<1>3. CASE kh[h] = NoPin
  <2>1. d = c
    BY <1>3
  <2> QED BY <1>2, <1>3, <2>1 DEF TextOf
<1>4. CASE kh[h] # NoPin
  <2>1. c \in Text /\ Closed(c) /\ kh[h] \in Fps
    BY <1>1, <1>4 DEF TextOf
  <2>2. d = c \o Entry(h, kh[h])
    BY <1>4
  <2> HIDE DEF h
  <2>3. PICK e \in DOMAIN d :
           /\ d \in Text /\ Closed(d) /\ d[e] = kh[h] /\ Reads(h, d, e)
           /\ \A j \in DOMAIN d : d[j] \in Fps /\ j # e => j \in DOMAIN c
           /\ \A j \in DOMAIN c : j \in DOMAIN d /\ d[j] = c[j]
           /\ \A g \in Hosts, j \in DOMAIN c : Reads(g, c, j) => Reads(g, d, j)
    <3>1. PICK x \in Text : \E e \in DOMAIN x :
             /\ x = c \o Entry(h, kh[h]) /\ Closed(x) /\ x[e] = kh[h] /\ Reads(h, x, e)
             /\ \A j \in DOMAIN x : x[j] \in Fps /\ j # e => j \in DOMAIN c
             /\ \A j \in DOMAIN c : j \in DOMAIN x /\ x[j] = c[j]
             /\ \A g \in Hosts, j \in DOMAIN c : Reads(g, c, j) => Reads(g, x, j)
      BY <1>1, <2>1, AddEntry
    <3>2. d = x
      BY <2>2, <3>1
    <3> QED BY <3>1, <3>2, Zenon
  <2>4. ASSUME NEW j \in DOMAIN d, d[j] \in Fps
        PROVE  \E g \in Hosts : Reads(g, d, j) /\ kh[g] = d[j]
    <3>1. CASE j = e
      BY <1>1, <2>3, <3>1
    <3>2. CASE j # e
      <4>1. j \in DOMAIN c /\ c[j] = d[j]
        BY <2>3, <2>4, <3>2
      <4>2. PICK g \in Hosts : Reads(g, c, j) /\ kh[g] = c[j]
        BY <2>4, <4>1 DEF TextOf
      <4> QED BY <2>3, <4>1, <4>2
    <3> QED BY <3>1, <3>2
  <2>5. ASSUME NEW k \in 1..n, kh[HostOrder[k]] # NoPin
        PROVE  \E j \in DOMAIN d : Reads(HostOrder[k], d, j) /\ d[j] = kh[HostOrder[k]]
    <3>1. CASE k = n
      BY <2>3, <3>1 DEF h
    <3>2. CASE k \in 1..(n - 1)
      <4>1. PICK j \in DOMAIN c : Reads(HostOrder[k], c, j) /\ c[j] = kh[HostOrder[k]]
        BY <2>5, <3>2 DEF TextOf
      <4>2. HostOrder[k] \in Hosts
        BY Constants
      <4> QED BY <2>3, <4>1, <4>2
    <3> QED BY <1>2, <3>1, <3>2
  <2> QED BY <2>3, <2>4, <2>5 DEF TextOf
<1> QED BY <1>3, <1>4

\* What save writes is the text of the map.
LEMMA ContentText == ASSUME NEW kh \in Pins PROVE TextOf(content(kh), kh, Len(HostOrder))
<1> DEFINE up == EntriesUpTo(kh)
<1> DEFINE Bad == {n \in 0..Len(HostOrder) : ~TextOf(up[n], kh, n)}
<1>1. TextOf(up[0], kh, 0)
  <2>1. up[0] = <<>>
    <3>1. 0 \in 0..Len(HostOrder)
      BY Constants
    <3> QED BY <3>1, EntriesUpToDef
  <2>2. <<>> \in Text /\ Closed(<<>>)
    BY DEF Text, Closed
  <2>3. DOMAIN <<>> = {} /\ 1..0 = {}
    OBVIOUS
  <2> QED BY <2>1, <2>2, <2>3 DEF TextOf
<1>2. ASSUME NEW n \in 1..Len(HostOrder), TextOf(up[n - 1], kh, n - 1)
      PROVE  TextOf(up[n], kh, n)
  <2>1. up[n] = IF kh[HostOrder[n]] = NoPin THEN up[n - 1]
                ELSE up[n - 1] \o Entry(HostOrder[n], kh[HostOrder[n]])
    <3>1. n \in 0..Len(HostOrder) /\ n # 0
      BY Constants
    <3> QED BY <3>1, EntriesUpToDef
  <2> HIDE DEF up
  <2> QED BY <1>2, <2>1, TextGrows
<1> HIDE DEF up
<1>3. Bad = {}
  <2> SUFFICES ASSUME Bad # {} PROVE FALSE
    OBVIOUS
  <2>1. Bad \in SUBSET Nat
    OBVIOUS
  <2>2. PICK m \in Bad : \A k \in Bad : m =< k
    <3> HIDE DEF Bad
    <3> QED BY <2>1, Least
  <2>3. m \in 0..Len(HostOrder) /\ ~TextOf(up[m], kh, m)
    OBVIOUS
  <2>4. m # 0
    BY <1>1, <2>3
  <2>5. m - 1 \in 0..Len(HostOrder) /\ m - 1 \notin Bad
    <3> HIDE DEF Bad
    <3> QED BY <2>2, <2>3, <2>4, Constants
  <2>6. TextOf(up[m - 1], kh, m - 1) /\ m \in 1..Len(HostOrder)
    BY <2>3, <2>4, <2>5, Constants
  <2> QED BY <1>2, <2>3, <2>6
<1>4. TextOf(up[Len(HostOrder)], kh, Len(HostOrder))
  BY <1>3, Constants
<1> QED BY <1>4 DEF content, up

\* Saving a map and loading it gives the map back.
LEMMA LoadContent == ASSUME NEW kh \in Pins PROVE load(content(kh)) = kh
<1> DEFINE c == content(kh)
<1>1. TextOf(c, kh, Len(HostOrder))
  BY ContentText
<1> HIDE DEF c
<1>2. c \in Text /\ DOMAIN c \subseteq Nat
  BY <1>1, TextElements DEF TextOf
<1>3. ASSUME NEW h \in Hosts PROVE load(c)[h] = kh[h]
  <2>1. CASE load(c)[h] # NoPin
    <3>1. PICK j \in DOMAIN c : Reads(h, c, j) /\ c[j] = load(c)[h]
      BY <1>2, <2>1, LoadReads
    <3>2. c[j] \in Fps
      BY <3>1 DEF Reads, Before
    <3>3. PICK g \in Hosts : Reads(g, c, j) /\ kh[g] = c[j]
      BY <1>1, <3>2 DEF TextOf
    <3>4. g = h
      BY <1>2, <3>1, <3>3, OneReading
    <3> QED BY <3>1, <3>3, <3>4
  <2>2. CASE load(c)[h] = NoPin
    <3> SUFFICES ASSUME kh[h] # NoPin PROVE FALSE
      BY <2>2
    <3>1. PICK k \in 1..Len(HostOrder) : HostOrder[k] = h
      BY Constants DEF Hosts
    <3>2. \E j \in DOMAIN c : Reads(h, c, j)
      BY <1>1, <3>1 DEF TextOf
    <3> QED BY <1>2, <2>2, <3>2, LoadReads
  <2> QED BY <2>1, <2>2
<1>4. load(c) \in Pins
  BY <1>2, LoadTyped
<1> QED BY <1>3, <1>4 DEF Pins, c

\* A text written over another: the first n cells, then what the other had there.
LEMMA OverCells ==
  ASSUME NEW c \in Text, NEW n \in 0..Len(c), NEW old \in Text
  PROVE  \E w \in Text :
            /\ w = over(SubSeq(c, 1, n), old)
            /\ Len(w) = IF n < Len(old) THEN Len(old) ELSE n
            /\ \A j \in 1..n : w[j] = c[j]
            /\ \A j \in (n + 1)..Len(old) : w[j] = old[j]
<1>1. PICK l \in Nat, m \in Nat : Len(c) = l /\ Len(old) = m
  BY TextElements
<1>2. n \in Nat /\ n =< l
  BY <1>1
<1>3. PICK new \in Text : new = SubSeq(c, 1, n) /\ Len(new) = n /\ \A j \in 1..n : new[j] = c[j]
  <2>1. \A i \in 1..n : c[i] \in Cells
    BY <1>1, <1>2, TextElements
  <2>2. SubSeq(c, 1, n) \in Seq(Cells)
    BY <1>1, <1>2, <2>1, SubSeqProperties DEF Text
  <2>3. Len(SubSeq(c, 1, n)) = n /\ \A j \in 1..n : SubSeq(c, 1, n)[j] = c[j]
    BY <1>1, <1>2 DEF Text
  <2> QED BY <2>2, <2>3 DEF Text
<1>4. PICK rest \in Text : /\ rest = SubSeq(old, n + 1, m)
                           /\ Len(rest) = IF n < m THEN m - n ELSE 0
                           /\ \A j \in 1..(m - n) : rest[j] = old[n + j]
  <2>1. SubSeq(old, n + 1, m) \in Seq(Cells)
    BY <1>1, <1>2 DEF Text
  <2>2. Len(SubSeq(old, n + 1, m)) = IF n < m THEN m - n ELSE 0
    BY <1>1, <1>2 DEF Text
  <2>3. \A j \in 1..(m - n) : SubSeq(old, n + 1, m)[j] = old[n + j]
    BY <1>1, <1>2 DEF Text
  <2> QED BY <2>1, <2>2, <2>3 DEF Text
<1>5. over(SubSeq(c, 1, n), old) = new \o rest
  BY <1>1, <1>3, <1>4 DEF over
<1>6. PICK w \in Text : /\ w = new \o rest /\ Len(w) = Len(new) + Len(rest)
                        /\ \A i \in 1..Len(new) : w[i] = new[i]
                        /\ \A i \in 1..Len(rest) : w[Len(new) + i] = rest[i]
  <2>1. new \o rest \in Text /\ Len(new \o rest) = Len(new) + Len(rest)
    BY ConcatCells
  <2>2. \A i \in 1..Len(new) : (new \o rest)[i] = new[i]
    BY ConcatCells
  <2>3. \A i \in 1..Len(rest) : (new \o rest)[Len(new) + i] = rest[i]
    BY ConcatCells
  <2> QED BY <2>1, <2>2, <2>3, Zenon
<1>7. w = over(SubSeq(c, 1, n), old)
  BY <1>5, <1>6
<1>8. Len(w) = IF n < m THEN m ELSE n
  BY <1>2, <1>3, <1>4, <1>6
<1>9. \A j \in 1..n : w[j] = c[j]
  BY <1>3, <1>6
<1>10. ASSUME NEW j \in (n + 1)..m PROVE w[j] = old[j]
  <2>1. j - n \in 1..(m - n) /\ n < m /\ n + (j - n) = j
    BY <1>2
  <2>2. Len(rest) = m - n
    BY <1>4, <2>1
  <2>3. w[n + (j - n)] = rest[j - n]
    BY <1>3, <1>6, <2>1, <2>2
  <2>4. rest[j - n] = old[n + (j - n)]
    BY <1>4, <2>1
  <2> QED BY <2>1, <2>3, <2>4
<1> QED BY <1>1, <1>7, <1>8, <1>9, <1>10

\* Over a truncated file, nothing is left of what was there.
LEMMA OverEmpty == ASSUME NEW c \in Text PROVE over(SubSeq(c, 1, Len(c)), <<>>) = c
<1>1. Len(c) \in Nat /\ Len(c) \in 0..Len(c) /\ <<>> \in Text /\ Len(<<>>) = 0
  BY TextElements DEF Text
<1>2. PICK w \in Text : /\ w = over(SubSeq(c, 1, Len(c)), <<>>)
                        /\ Len(w) = IF Len(c) < Len(<<>>) THEN Len(<<>>) ELSE Len(c)
                        /\ \A j \in 1..Len(c) : w[j] = c[j]
  <2> DEFINE none == <<>>
  <2>1. none \in Text
    BY <1>1
  <2> HIDE DEF none
  <2>2. \E w \in Text : /\ w = over(SubSeq(c, 1, Len(c)), none)
                        /\ Len(w) = IF Len(c) < Len(none) THEN Len(none) ELSE Len(c)
                        /\ \A j \in 1..Len(c) : w[j] = c[j]
    BY <1>1, <2>1, OverCells
  <2> QED BY <2>2 DEF none
<1>3. Len(w) = Len(c)
  BY <1>1, <1>2
<1>4. w = c
  BY <1>2, <1>3, SeqEqual DEF Text
<1> QED BY <1>2, <1>4

\* A key that is vouched for, by what happened to the file.
LEMMA VouchedExactly ==
  ASSUME NEW h \in Hosts, NEW fp, NEW acc, NEW ps, VouchedIn(h, fp, acc, ps), "mixed" \notin ps
  PROVE  /\ \E g \in Hosts : Suffix(h, g) /\ <<g, fp>> \in acc
         /\ "tail" \notin ps => <<h, fp>> \in acc
BY SuffixOrder DEF VouchedIn

\* The text of a map that is vouched for is sound.
LEMMA ContentSound ==
  ASSUME NEW kh \in Pins, NEW acc, NEW ps,
         \A h \in Hosts : kh[h] # NoPin => VouchedIn(h, kh[h], acc, ps)
  PROVE  TextSound(content(kh), acc, ps)
<1> DEFINE c == content(kh)
<1>1. TextOf(c, kh, Len(HostOrder))
  BY ContentText
<1> HIDE DEF c
<1>2. DOMAIN c \subseteq Nat
  BY <1>1, TextElements DEF TextOf
<1>3. ASSUME NEW j \in DOMAIN c, c[j] \in Fps
      PROVE  \E g \in Hosts : /\ Reads(g, c, j) /\ kh[g] = c[j] /\ VouchedIn(g, c[j], acc, ps)
  <2>1. PICK g \in Hosts : Reads(g, c, j) /\ kh[g] = c[j]
    BY <1>1, <1>3 DEF TextOf
  <2>2. kh[g] # NoPin
    BY <1>3, <2>1, Constants
  <2>3. VouchedIn(g, kh[g], acc, ps)
    BY <2>2
  <2> QED BY <2>1, <2>3
<1>4. ASSUME "mixed" \notin ps PROVE Weak(c, acc)
  <2> SUFFICES ASSUME NEW h \in Hosts, NEW j \in DOMAIN c, Before(h, c, j)
               PROVE  \E f \in Hosts : Suffix(h, f) /\ <<f, c[j]>> \in acc
    BY DEF Weak
  <2>1. PICK g \in Hosts : Reads(g, c, j) /\ VouchedIn(g, c[j], acc, ps)
    BY <1>3 DEF Before
  <2>2. Suffix(h, g)
    BY <1>2, <2>1, SuffixRead
  <2>3. PICK f \in Hosts : Suffix(g, f) /\ <<f, c[j]>> \in acc
    BY <1>4, <2>1, VouchedExactly
  <2> QED BY <2>2, <2>3, SuffixOrder
<1>5. ASSUME "mixed" \notin ps, "tail" \notin ps PROVE Exact(c, acc)
  <2> SUFFICES ASSUME NEW h \in Hosts, NEW j \in DOMAIN c, Reads(h, c, j)
               PROVE  <<h, c[j]>> \in acc
    BY DEF Exact
  <2>1. PICK g \in Hosts : Reads(g, c, j) /\ VouchedIn(g, c[j], acc, ps)
    BY <1>3 DEF Reads, Before
  <2>2. g = h
    BY <1>2, <2>1, OneReading
  <2> QED BY <1>5, <2>1, <2>2, VouchedExactly
<1> QED BY <1>4, <1>5 DEF TextSound, c

Same(f, g, i, j) == \A k \in i..j : f[k] = g[k]

\* Where two texts agree up to a key, the same names stand before it.
LEMMA BeforeAgrees ==
  ASSUME NEW f, NEW g, NEW h \in Hosts, NEW j \in Nat, Before(h, f, j),
         Same(f, g, j - Len(h[1]), j)
  PROVE  Before(h, g, j) /\ g[j] = f[j]
<1>1. PICK n \in Nat : Len(h[1]) = n /\ n >= 2
  BY Constants
<1>2. f[j] \in Fps /\ n < j /\ \A k \in 1..n : f[j - n + k - 1] = h[1][k]
  BY <1>1 DEF Before
<1>3. j \in (j - n)..j
  BY <1>1, <1>2
<1>4. ASSUME NEW k \in 1..n PROVE j - n + k - 1 \in (j - n)..j
  BY <1>1, <1>2
<1>5. g[j] = f[j]
  BY <1>1, <1>3 DEF Same
<1>6. ASSUME NEW k \in 1..n PROVE g[j - n + k - 1] = h[1][k]
  BY <1>1, <1>2, <1>4 DEF Same
<1> QED BY <1>1, <1>2, <1>5, <1>6 DEF Before

\* A text cut off is sound: a key that is there is there in full, on its line.
LEMMA PrefixSound ==
  ASSUME NEW c \in Text, Closed(c), NEW w \in Text, Len(w) =< Len(c),
         \A j \in 1..Len(w) : w[j] = c[j], NEW acc, NEW ps, TextSound(c, acc, ps)
  PROVE  TextSound(w, acc, ps)
<1>1. PICK m \in Nat, n \in Nat : Len(c) = m /\ Len(w) = n /\ n =< m
  BY TextElements
<1>2. DOMAIN c = 1..m /\ DOMAIN w = 1..n /\ \A j \in 1..n : j \in 1..m /\ w[j] = c[j]
  BY <1>1, TextElements
<1>3. ASSUME NEW h \in Hosts, NEW j \in 1..n, Before(h, w, j)
      PROVE  Before(h, c, j) /\ c[j] = w[j]
  <2>1. Len(h[1]) \in Nat /\ Len(h[1]) < j
    BY <1>3, Constants DEF Before
  <2>2. Same(w, c, j - Len(h[1]), j)
    BY <1>1, <1>2, <2>1 DEF Same
  <2> QED BY <1>3, <2>2, BeforeAgrees
<1>4. ASSUME NEW h \in Hosts, NEW j \in 1..n, Reads(h, w, j) PROVE Reads(h, c, j) /\ c[j] = w[j]
  <2>1. Before(h, c, j) /\ c[j] = w[j] /\ c[j] \in Fps
    BY <1>3, <1>4 DEF Reads, Before
  <2>2. c[j] # NL
    BY <2>1, Constants
  <2>3. c[j + 1] = NL
    BY <1>2, <2>1 DEF Closed
  <2>4. PICK l \in Nat : Len(h[1]) = l /\ l < j
    BY <2>1, Constants DEF Before
  <2>5. ASSUME 1 < j - l PROVE c[j - l - 1] = NL
    <3>1. w[j - l - 1] = NL
      BY <1>4, <2>4, <2>5 DEF Reads, StartsLine
    <3>2. j - l - 1 \in 1..n
      BY <1>1, <2>4, <2>5
    <3> QED BY <1>2, <3>1, <3>2
  <2> QED BY <2>1, <2>2, <2>3, <2>4, <2>5 DEF Reads, StartsLine, EndsLine
<1>5. ASSUME Weak(c, acc) PROVE Weak(w, acc)
  <2> SUFFICES ASSUME NEW h \in Hosts, NEW j \in DOMAIN w, Before(h, w, j)
               PROVE  \E g \in Hosts : Suffix(h, g) /\ <<g, w[j]>> \in acc
    BY DEF Weak
  <2>1. Before(h, c, j) /\ c[j] = w[j] /\ j \in DOMAIN c
    BY <1>2, <1>3
  <2> QED BY <1>5, <2>1 DEF Weak
<1>6. ASSUME Exact(c, acc) PROVE Exact(w, acc)
  <2> SUFFICES ASSUME NEW h \in Hosts, NEW j \in DOMAIN w, Reads(h, w, j)
               PROVE  <<h, w[j]>> \in acc
    BY DEF Exact
  <2>1. Reads(h, c, j) /\ c[j] = w[j] /\ j \in DOMAIN c
    BY <1>2, <1>4
  <2> QED BY <1>6, <2>1 DEF Exact
<1> QED BY <1>5, <1>6 DEF TextSound

\* A whole text over a longer one: no name reaches across the newline between.
LEMMA TailWeak ==
  ASSUME NEW c \in Text, Closed(c), c # <<>>, NEW old \in Text, Len(c) < Len(old),
         NEW w \in Text, Len(w) = Len(old), \A j \in 1..Len(c) : w[j] = c[j],
         \A j \in (Len(c) + 1)..Len(old) : w[j] = old[j],
         NEW acc, Weak(c, acc), Weak(old, acc)
  PROVE  Weak(w, acc)
<1>1. PICK m \in Nat, n \in Nat : Len(c) = m /\ Len(old) = n /\ m < n
  BY TextElements
<1>2. DOMAIN c = 1..m /\ DOMAIN old = 1..n /\ DOMAIN w = 1..n
  BY <1>1, TextElements
<1>3. m > 0 /\ c[m] = NL
  <2>1. m # 0
    BY <1>1, EmptySeq DEF Text
  <2> QED BY <1>1, <2>1 DEF Closed
<1>4. (\A j \in 1..m : w[j] = c[j]) /\ \A j \in (m + 1)..n : w[j] = old[j]
  BY <1>1
<1> SUFFICES ASSUME NEW h \in Hosts, NEW j \in DOMAIN w, Before(h, w, j)
             PROVE  \E g \in Hosts : Suffix(h, g) /\ <<g, w[j]>> \in acc
  BY DEF Weak
<1>5. j \in 1..n /\ j \in Nat
  BY <1>2
<1>6. PICK l \in Nat : Len(h[1]) = l /\ l >= 2 /\ l < j
  BY Constants DEF Before
<1>7. CASE j =< m
  <2>1. Same(w, c, j - Len(h[1]), j)
    BY <1>1, <1>4, <1>5, <1>6, <1>7 DEF Same
  <2>2. Before(h, c, j) /\ c[j] = w[j]
    BY <1>5, <2>1, BeforeAgrees
  <2>3. j \in DOMAIN c
    BY <1>1, <1>2, <1>5, <1>7
  <2> QED BY <2>2, <2>3 DEF Weak
<1>8. CASE j - l > m
  <2>1. Same(w, old, j - Len(h[1]), j)
    BY <1>1, <1>4, <1>5, <1>6, <1>8 DEF Same
  <2>2. Before(h, old, j) /\ old[j] = w[j]
    BY <1>5, <2>1, BeforeAgrees
  <2> QED BY <1>2, <1>5, <2>2 DEF Weak
<1>9. CASE j > m /\ j - l =< m
  <2>1. m - (j - l) + 1 \in 1..l /\ j - l + (m - (j - l) + 1) - 1 = m
    BY <1>1, <1>5, <1>6, <1>9
  <2>2. \A k \in 1..l : w[j - l + k - 1] = h[1][k]
    BY <1>6 DEF Before
  <2>3. w[m] = h[1][m - (j - l) + 1]
    BY <2>1, <2>2
  <2>4. h[1][m - (j - l) + 1] # NL
    BY <1>6, <2>1, Constants
  <2>5. w[m] = NL
    BY <1>1, <1>3, <1>4, m \in 1..m
  <2> QED BY <2>3, <2>4, <2>5
<1>10. j =< m \/ j - l > m \/ (j > m /\ j - l =< m)
  BY <1>1, <1>5, <1>6
<1> QED BY <1>7, <1>8, <1>9, <1>10

\* Whatever part of its map's text a process writes over the file.
LEMMA WriteSound ==
  ASSUME NEW kh \in Pins, NEW acc, NEW n \in 0..Len(content(kh)),
         \A h \in Hosts : kh[h] # NoPin => VouchedIn(h, kh[h], acc, past),
         file \in Text, TextSound(file, acc, past),
         NEW more, past \subseteq more, Behind(content(kh), n) \subseteq more
  PROVE  /\ over(SubSeq(content(kh), 1, n), file) \in Text
         /\ TextSound(over(SubSeq(content(kh), 1, n), file), acc, more)
<1>1. PICK c \in Text : c = content(kh) /\ Closed(c) /\ TextSound(c, acc, past)
  BY ContentText, ContentSound DEF TextOf
<1>2. PICK w \in Text :
         /\ w = over(SubSeq(content(kh), 1, n), file)
         /\ Len(w) = IF n < Len(file) THEN Len(file) ELSE n
         /\ \A j \in 1..n : w[j] = c[j]
         /\ \A j \in (n + 1)..Len(file) : w[j] = file[j]
  <2>1. n \in 0..Len(c)
    BY <1>1
  <2>2. \E w \in Text :
         /\ w = over(SubSeq(c, 1, n), file)
         /\ Len(w) = IF n < Len(file) THEN Len(file) ELSE n
         /\ \A j \in 1..n : w[j] = c[j]
         /\ \A j \in (n + 1)..Len(file) : w[j] = file[j]
    BY <2>1, OverCells
  <2> QED BY <1>1, <2>2
<1>3. Len(c) \in Nat /\ Len(file) \in Nat /\ n \in Nat /\ n =< Len(c)
  BY <1>1, TextElements
<1>4. ASSUME NEW f, TextSound(f, acc, past) PROVE TextSound(f, acc, more)
  BY <1>4 DEF TextSound
<1>5. CASE n = 0
  <2>1. Len(w) = Len(file) /\ \A j \in 1..Len(file) : w[j] = file[j]
    BY <1>2, <1>3, <1>5
  <2>2. w = file
    BY <2>1, SeqEqual DEF Text
  <2> QED BY <1>2, <1>4, <2>2
<1>6. CASE Len(file) =< n
  <2>1. Len(w) = n
    BY <1>2, <1>3, <1>6
  <2>2. TextSound(w, acc, past)
    BY <1>1, <1>2, <1>3, <2>1, PrefixSound
  <2> QED BY <1>2, <1>4, <2>2
<1>7. CASE n # 0 /\ n < Len(file) /\ n = Len(c)
  <2>1. "tail" \in more
    BY <1>1, <1>3, <1>7 DEF Behind
  <2>2. ASSUME "mixed" \notin more PROVE Weak(w, acc)
    <3>1. Weak(c, acc) /\ Weak(file, acc)
      BY <1>1, <2>2 DEF TextSound
    <3>2. c # <<>>
      BY <1>7
    <3>3. Len(w) = Len(file)
      BY <1>2, <1>3, <1>7
    <3> QED BY <1>1, <1>2, <1>7, <3>1, <3>2, <3>3, TailWeak
  <2> QED BY <1>2, <2>1, <2>2 DEF TextSound
<1>8. CASE n # 0 /\ n < Len(file) /\ n # Len(c)
  <2>1. "mixed" \in more
    BY <1>1, <1>3, <1>8 DEF Behind
  <2> QED BY <1>2, <2>1 DEF TextSound
<1> QED BY <1>3, <1>5, <1>6, <1>7, <1>8
-----------------------------------------------------------------------------
(***************************************************************************)
(* Every step keeps the invariant.  A step changes one process at most:    *)
(* what has to be shown is that its new state is sound.                    *)
(***************************************************************************)
States ==
    [pc : {"idle", "resolve", "probe", "prompt", "merge", "truncate", "write", "connect",
           "session"},
     cmd : {"run", "add"}, name : Names, mode : {"accept_new", "tty", "batch"},
     stage : {"first", "again"}, kh : Pins, fp : Fps \cup {NoPin}, asked : BOOLEAN]

\* The types of the invariant, by the names used here.
LEMMA StatesTyped == TrustTypeOK => proc \in [Procs -> States] /\ file \in Text
BY DEF TrustTypeOK, States, Text

\* An idle process knows nothing and was told nothing.
LEMMA IdleSound ==
  /\ Idle \in States /\ Idle.pc = "idle" /\ Idle.stage = "first" /\ ~Idle.asked
  /\ \A h \in Hosts : Idle.kh[h] = NoPin
  /\ \A acc, ps : Sound(Idle, acc, ps)
<1>1. (CHOOSE n \in Names : TRUE) \in Names
  BY TrustAssumption
<1>2. /\ Idle \in States /\ Idle.pc = "idle" /\ Idle.stage = "first" /\ Idle.asked = FALSE
      /\ Idle.kh = [h \in Hosts |-> NoPin]
  BY <1>1 DEF Idle, States, Pins
<1> QED BY <1>2 DEF Sound, MapVouched, KeyVouched, AnswerKept, Decided

\* What is accepted stays accepted, so what was sound stays so.
LEMMA SoundKept ==
  ASSUME NEW st, NEW acc, NEW ps, NEW more, NEW later,
         acc \subseteq more, ps \subseteq later, Sound(st, acc, ps)
  PROVE  Sound(st, more, later)
<1>1. \A h, fp : VouchedIn(h, fp, acc, ps) => VouchedIn(h, fp, more, later)
  BY DEF VouchedIn
<1> QED BY <1>1 DEF Sound, MapVouched, KeyVouched

\* And so does the file.
LEMMA TextKept ==
  ASSUME NEW f, NEW acc, NEW ps, NEW more, acc \subseteq more, TextSound(f, acc, ps)
  PROVE  TextSound(f, more, ps)
<1>1. Weak(f, acc) => Weak(f, more)
  BY DEF Weak
<1>2. Exact(f, acc) => Exact(f, more)
  BY DEF Exact
<1> QED BY <1>1, <1>2 DEF TextSound

\* A map read from the file holds only pins that are vouched for.
LEMMA LoadVouched ==
  ASSUME file \in Text, TextSound(file, accepted, past)
  PROVE  \A h \in Hosts : load(file)[h] # NoPin => VouchedIn(h, load(file)[h], accepted, past)
<1> SUFFICES ASSUME NEW h \in Hosts, load(file)[h] # NoPin, "mixed" \notin past
             PROVE  VouchedIn(h, load(file)[h], accepted, past)
  BY DEF VouchedIn
<1>1. PICK j \in DOMAIN file : Reads(h, file, j) /\ file[j] = load(file)[h]
  BY LoadReads
<1>2. CASE "tail" \in past
  <2>1. \E g \in Hosts : Suffix(h, g) /\ <<g, file[j]>> \in accepted
    BY <1>1 DEF TextSound, Weak, Reads
  <2> QED BY <1>1, <1>2, <2>1 DEF VouchedIn
<1>3. CASE "tail" \notin past
  <2>1. <<h, file[j]>> \in accepted
    BY <1>1, <1>3 DEF TextSound, Exact
  <2> QED BY <1>1, <2>1 DEF VouchedIn
<1> QED BY <1>2, <1>3

\* A process moves to a sound state; acceptances only grow; the file is sound.
LEMMA ProcessMoves ==
  ASSUME TrustInv, NEW p \in Procs, NEW new \in States, Become(p, new),
         accepted \subseteq accepted', accepted' \subseteq Hosts \X Fps,
         past \subseteq past', past' \subseteq {"cut", "tail", "mixed"},
         Sound(new, accepted', past'),
         file' \in Text, TextSound(file, accepted, past)', UNCHANGED cert, ledger' \in Pins
  PROVE  TrustInv'
<1>1. TrustTypeOK'
  BY DEF TrustInv, TrustTypeOK, Become, States, Text
<1>2. ASSUME NEW q \in Procs PROVE Sound(proc[q], accepted, past)'
  <2>1. proc' = [proc EXCEPT ![p] = new] /\ proc \in [Procs -> States]
    BY StatesTyped DEF TrustInv, Become
  <2>2. CASE q = p
    BY <2>1, <2>2
  <2>3. CASE q # p
    <3>1. Sound(proc[q], accepted, past)
      BY DEF TrustInv
    <3>2. proc'[q] = proc[q]
      BY <2>1, <2>3
    <3>3. Sound(proc[q], accepted', past')
      BY <3>1, SoundKept
    <3> QED BY <3>2, <3>3
  <2> QED BY <2>2, <2>3
<1> QED BY <1>1, <1>2 DEF TrustInv

\* A process that leaves, wherever it was, leaves nothing unsound behind.
LEMMA ExitKeeps ==
  ASSUME TrustInv, NEW p \in Procs, Exit(p), UNCHANGED <<file, cert, accepted, ledger, past>>
  PROVE  TrustInv'
<1>1. /\ file' \in Text /\ TextSound(file, accepted, past)' /\ ledger' \in Pins
      /\ accepted' \subseteq Hosts \X Fps /\ past' \subseteq {"cut", "tail", "mixed"}
  BY StatesTyped DEF TrustInv, TrustTypeOK
<1> QED BY <1>1, IdleSound, ProcessMoves DEF Exit

\* The same of a step that only changes the process, or accepts a key.
LEMMA StateMoves ==
  ASSUME TrustInv, NEW p \in Procs, NEW new \in States, Become(p, new),
         Sound(new, accepted', past'),
         accepted' = accepted \/ \E h \in Hosts, fp \in Fps : accepted' = accepted \cup {<<h, fp>>},
         UNCHANGED <<file, cert, ledger, past>>
  PROVE  TrustInv'
<1>1. accepted \subseteq accepted' /\ accepted' \subseteq Hosts \X Fps
  BY DEF TrustInv, TrustTypeOK
<1>2. /\ file' \in Text /\ TextSound(file, accepted, past)' /\ ledger' \in Pins
      /\ past' \subseteq {"cut", "tail", "mixed"}
  <2>1. TextSound(file, accepted', past)
    BY <1>1, TextKept DEF TrustInv
  <2> QED BY <2>1, StatesTyped DEF TrustInv, TrustTypeOK
<1> QED BY <1>1, <1>2, ProcessMoves

\* In the first state the file's one line is accepted and all processes idle.
LEMMA InitHolds == TrustInit => TrustInv
<1> SUFFICES ASSUME TrustInit PROVE TrustInv
  OBVIOUS
<1>1. file \in Text /\ accepted \subseteq Hosts \X Fps /\ Exact(file, accepted)
      /\ Weak(file, accepted)
  <2>1. CASE file = <<>> /\ accepted = {}
    BY <2>1 DEF Text, Exact, Weak
  <2>2. CASE file = <<Junk>> /\ accepted = {}
    <3>1. DOMAIN file = {1} /\ file[1] \notin Fps
      BY <2>2, Constants
    <3>2. file \in Text
      BY <2>2 DEF Text, Cells
    <3> QED BY <2>2, <3>1, <3>2 DEF Exact, Weak, Reads, Before
  <2>3. ASSUME NEW h \in Hosts, NEW fp \in Fps, file = Entry(h, fp), accepted = {<<h, fp>>}
        PROVE  /\ file \in Text /\ accepted \subseteq Hosts \X Fps
               /\ Exact(file, accepted) /\ Weak(file, accepted)
    <3>1. <<>> \in Text /\ Closed(<<>>) /\ DOMAIN <<>> = {}
      BY DEF Text, Closed
    <3>2. PICK none \in Text : none = <<>> /\ Closed(none) /\ DOMAIN none = {}
      BY <3>1
    <3>3. PICK d \in Text : \E e \in DOMAIN d :
             /\ d = none \o Entry(h, fp) /\ Closed(d) /\ d[e] = fp /\ Reads(h, d, e)
             /\ \A j \in DOMAIN d : d[j] \in Fps /\ j # e => j \in DOMAIN none
             /\ \A j \in DOMAIN none : j \in DOMAIN d /\ d[j] = none[j]
             /\ \A g \in Hosts, j \in DOMAIN none : Reads(g, none, j) => Reads(g, d, j)
      <4>1. Closed(none)
        BY <3>2
      <4> QED BY <4>1, AddEntry
    <3>4. PICK e \in DOMAIN d :
             /\ d = none \o Entry(h, fp) /\ d[e] = fp /\ Reads(h, d, e)
             /\ \A j \in DOMAIN d : d[j] \in Fps /\ j # e => j \in DOMAIN none
      BY <3>3
    <3>5. d = file
      <4>1. Entry(h, fp) \in Seq(Cells)
        BY EntryCells DEF Text
      <4> QED BY <2>3, <3>2, <3>4, <4>1, ConcatEmptySeq
    <3>6. e \in Nat /\ \A j \in DOMAIN file : file[j] \in Fps => j = e
      BY <3>2, <3>4, <3>5, TextElements
    <3>7. ASSUME NEW g \in Hosts, NEW j \in DOMAIN file, Before(g, file, j)
          PROVE  Suffix(g, h) /\ file[j] = fp /\ j = e
      <4>1. j = e
        BY <3>6, <3>7 DEF Before
      <4>2. Reads(h, file, e) /\ file[e] = fp
        BY <3>4, <3>5
      <4> QED BY <3>6, <3>7, <4>1, <4>2, SuffixRead
    <3>8. Weak(file, accepted)
      BY <2>3, <3>7 DEF Weak
    <3>9. Exact(file, accepted)
      <4> SUFFICES ASSUME NEW g \in Hosts, NEW j \in DOMAIN file, Reads(g, file, j)
                   PROVE  <<g, file[j]>> \in accepted
        BY DEF Exact
      <4>1. j = e /\ file[j] = fp
        BY <3>7 DEF Reads
      <4>2. g = h
        BY <3>4, <3>5, <3>6, <4>1, OneReading
      <4> QED BY <2>3, <4>1, <4>2
    <3> QED BY <2>3, <3>4, <3>5, <3>8, <3>9
  <2> QED BY <2>1, <2>2, <2>3 DEF TrustInit
<1>2. proc \in [Procs -> States]
  BY IdleSound DEF TrustInit
<1>3. ledger \in Pins
  BY <1>1, LoadTyped DEF TrustInit
<1>4. TextSound(file, accepted, past) /\ past \subseteq {"cut", "tail", "mixed"}
  BY <1>1 DEF TrustInit, TextSound
<1>5. \A p \in Procs : Sound(proc[p], accepted, past)
  BY IdleSound DEF TrustInit
<1>6. cert \in [Hosts -> Fps]
  BY DEF TrustInit
<1> QED BY <1>1, <1>2, <1>3, <1>4, <1>5, <1>6 DEF TrustInv, TrustTypeOK, Text, States

USE DEF At

\* The decision to trust fp for the host a process was started for.
LEMMA TrustsKeeps ==
  ASSUME TrustInv, NEW p \in Procs, NEW fp \in Fps, Trusts(p, fp),
         UNCHANGED <<file, cert, ledger, past>>
  PROVE  TrustInv'
<1> DEFINE st == proc[p]
<1> DEFINE h == normalize_host(st.name)
<1>1. st \in States /\ Sound(st, accepted, past) /\ h \in Hosts
  BY StatesTyped, Constants DEF TrustInv, States
<1>2. accepted' = accepted \cup {<<h, fp>>} /\ VouchedIn(h, fp, accepted', past')
  BY DEF Trusts, Accepts, VouchedIn
<1> DEFINE kept == \A g, k : VouchedIn(g, k, accepted, past) => VouchedIn(g, k, accepted', past')
<1>3. kept
  BY <1>2 DEF VouchedIn
<1> DEFINE first == [st EXCEPT !.fp = fp, !.kh = insert_hex(@, st.name, fp), !.pc = "truncate"]
<1> DEFINE again == [st EXCEPT !.fp = fp, !.pc = "merge"]
<1>4. CASE st.stage = "first"
  <2>1. Become(p, first)
    BY <1>4 DEF Trusts
  <2>2. insert_hex(st.kh, st.name, fp) \in Pins
    BY <1>1, InsertHex DEF States
  <2>3. /\ first \in States /\ first.pc = "truncate" /\ first.name = st.name /\ first.fp = fp
        /\ first.kh = insert_hex(st.kh, st.name, fp)
    BY <1>1, <2>2 DEF States
  <2> HIDE DEF first
  <2>4. first.kh[h] = fp /\ \A g \in Hosts : g # h => first.kh[g] = st.kh[g]
    <3>1. st.kh \in Pins /\ st.name \in Names
      BY <1>1 DEF States
    <3> QED BY <2>3, <3>1, InsertHex
  <2>5. MapVouched(first, accepted', past')
    BY <1>1, <1>2, <1>3, <2>4 DEF Sound, MapVouched
  <2>6. Sound(first, accepted', past')
    BY <1>2, <2>3, <2>4, <2>5 DEF Sound, KeyVouched, AnswerKept
  <2> QED BY <1>1, <1>2, <2>1, <2>3, <2>6, StateMoves
<1>5. CASE st.stage # "first"
  <2>1. Become(p, again)
    BY <1>5 DEF Trusts
  <2>2. /\ again \in States /\ again.pc = "merge" /\ again.name = st.name /\ again.fp = fp
        /\ again.kh = st.kh
    BY <1>1 DEF States
  <2> HIDE DEF again
  <2>3. MapVouched(again, accepted', past')
    BY <1>1, <1>3, <2>2 DEF Sound, MapVouched
  <2>4. Sound(again, accepted', past')
    BY <1>2, <2>2, <2>3 DEF Sound, KeyVouched, AnswerKept
  <2> QED BY <1>1, <1>2, <2>1, <2>2, <2>4, StateMoves
<1> QED BY <1>4, <1>5

\* Every step of a process, of the user or of a server keeps the invariant.
LEMMA StepKeeps == TrustInv /\ [TrustNext]_trustVars => TrustInv'
<1> SUFFICES ASSUME TrustInv, [TrustNext]_trustVars PROVE TrustInv'
  OBVIOUS
<1>1. CASE UNCHANGED trustVars
  BY <1>1 DEF trustVars, TrustInv, TrustTypeOK
<1>2. ASSUME NEW p \in Procs PROVE /\ proc[p] \in States /\ Sound(proc[p], accepted, past)
                                  /\ Host(p) \in Hosts /\ proc[p].name \in Names
                                  /\ proc[p].kh \in Pins
  BY StatesTyped, Constants DEF TrustInv, States, Host
<1>3. /\ file \in Text /\ TextSound(file, accepted, past) /\ ledger \in Pins
      /\ cert \in [Hosts -> Fps] /\ accepted \subseteq Hosts \X Fps
      /\ past \subseteq {"cut", "tail", "mixed"}
  BY StatesTyped DEF TrustInv, TrustTypeOK
<1>4. ASSUME NEW p \in Procs, NEW n \in Names, NEW fp \in Fps, TrustAdd(p, n, fp)
      PROVE  TrustInv'
  <2> DEFINE new == [Idle EXCEPT !.pc = "merge", !.cmd = "add", !.name = n, !.fp = fp]
  <2>1. Become(p, new) /\ UNCHANGED <<file, cert, ledger, past>>
    BY <1>4 DEF TrustAdd
  <2>2. accepted' = accepted \cup {<<normalize_host(n), fp>>} /\ normalize_host(n) \in Hosts
    BY <1>4, Constants DEF TrustAdd, Accepts
  <2>3. /\ new \in States /\ new.pc = "merge" /\ new.name = n /\ new.fp = fp
        /\ new.kh = Idle.kh
    BY IdleSound DEF States
  <2> HIDE DEF new
  <2>4. Sound(new, accepted', past')
    <3>1. VouchedIn(normalize_host(n), fp, accepted', past')
      BY <2>2 DEF VouchedIn
    <3> QED BY <2>3, <3>1, IdleSound DEF Sound, MapVouched, KeyVouched, AnswerKept
  <2> QED BY <2>1, <2>2, <2>3, <2>4, StateMoves
<1>5. ASSUME NEW p \in Procs, NEW n \in Names, NEW mode \in Modes,
             Run(p, n, mode)
      PROVE  TrustInv'
  <2> DEFINE new == [Idle EXCEPT !.pc = "resolve", !.name = n, !.mode = mode]
  <2>1. Become(p, new) /\ UNCHANGED <<file, cert, ledger, accepted, past>>
    BY <1>5 DEF Run
  <2>2. /\ new \in States /\ new.pc = "resolve" /\ new.kh = Idle.kh /\ ~new.asked
    <3>1. mode \in {"accept_new", "tty", "batch"}
      BY TrustAssumption
    <3> QED BY <3>1, IdleSound DEF States
  <2> HIDE DEF new
  <2>3. Sound(new, accepted', past')
    BY <2>1, <2>2, IdleSound DEF Sound, MapVouched, KeyVouched, AnswerKept, Decided
  <2> QED BY <2>1, <2>2, <2>3, StateMoves
<1>6. ASSUME NEW p \in Procs, Resolve(p) PROVE TrustInv'
  <2> DEFINE pin == pin_hex(load(file), proc[p].name)
  <2> DEFINE ask == [proc[p] EXCEPT !.kh = load(file), !.pc = "probe"]
  <2> DEFINE pinned == [proc[p] EXCEPT !.fp = pin, !.pc = "connect"]
  <2>1. /\ proc[p].pc = "resolve"
        /\ Become(p, IF pin = NoPin THEN ask ELSE pinned)
        /\ UNCHANGED <<file, cert, ledger, accepted, past>>
    BY <1>6 DEF Resolve
  <2>2. load(file) \in Pins /\ \A h \in Hosts :
            load(file)[h] # NoPin => VouchedIn(h, load(file)[h], accepted, past)
    BY <1>3, LoadTyped, LoadVouched
  <2>3. pin = load(file)[Host(p)]
    BY DEF pin_hex, Host
  <2>4. pin \in Fps \cup {NoPin}
    BY <1>2, <2>2, <2>3 DEF Pins
  <2>5. CASE pin = NoPin
    <3>1. ask \in States /\ ask.pc = "probe" /\ ask.kh = load(file)
      BY <1>2, <2>2 DEF States
    <3>2. Become(p, ask)
      BY <2>1, <2>5
    <3> HIDE DEF ask
    <3>3. Sound(ask, accepted', past')
      BY <2>1, <2>2, <3>1 DEF Sound, MapVouched, KeyVouched, AnswerKept, Decided
    <3> QED BY <2>1, <3>1, <3>2, <3>3, StateMoves
  <2>6. CASE pin # NoPin
    <3>1. /\ pinned \in States /\ pinned.pc = "connect" /\ pinned.kh = proc[p].kh
          /\ pinned.fp = pin /\ pinned.name = proc[p].name /\ pinned.asked = proc[p].asked
      BY <1>2, <2>4 DEF States
    <3>2. Become(p, pinned)
      BY <2>1, <2>6
    <3>3. VouchedIn(normalize_host(proc[p].name), pin, accepted, past)
      BY <1>2, <2>2, <2>3, <2>6 DEF Host
    <3> HIDE DEF pinned, pin
    <3>4. MapVouched(pinned, accepted', past') /\ KeyVouched(pinned, accepted', past')
      BY <1>2, <2>1, <3>1, <3>3 DEF Sound, MapVouched, KeyVouched
    <3>5. AnswerKept(pinned)
      BY <1>2, <2>1, <3>1 DEF Sound, AnswerKept
    <3> QED BY <2>1, <3>1, <3>2, <3>4, <3>5, StateMoves DEF Sound
  <2> QED BY <2>5, <2>6
<1>7. ASSUME NEW p \in Procs, LoadError(p) PROVE TrustInv'
  BY <1>7, ExitKeeps DEF LoadError
<1>8. ASSUME NEW p \in Procs, Probe(p) PROVE TrustInv'
  <2> DEFINE fp == cert[Host(p)]
  <2> DEFINE new == [proc[p] EXCEPT !.fp = fp, !.pc = "prompt", !.asked = TRUE]
  <2>1. fp \in Fps
    BY <1>2, <1>3
  <2>2. UNCHANGED <<file, cert, ledger, past>>
    BY <1>8 DEF Probe
  <2>3. CASE Trusts(p, fp)
    BY <2>1, <2>2, <2>3, TrustsKeeps
  <2>4. CASE Become(p, new) /\ UNCHANGED accepted
    <3>1. new \in States /\ new.pc = "prompt" /\ new.kh = proc[p].kh /\ new.fp = fp
      BY <1>2, <2>1 DEF States
    <3> HIDE DEF new
    <3>2. Sound(new, accepted', past')
      BY <1>2, <2>1, <2>2, <2>4, <3>1 DEF Sound, MapVouched, KeyVouched, AnswerKept, Decided
    <3> QED BY <2>2, <2>4, <3>1, <3>2, StateMoves
  <2>5. CASE Exit(p) /\ UNCHANGED accepted
    BY <2>2, <2>5, ExitKeeps
  <2> QED BY <1>8, <2>3, <2>4, <2>5 DEF Probe
<1>9. ASSUME NEW p \in Procs, Yes(p) PROVE TrustInv'
  <2>1. proc[p].fp \in Fps
    BY <1>2, <1>9 DEF Yes, Sound, AnswerKept
  <2> QED BY <1>9, <2>1, TrustsKeeps DEF Yes
<1>10. ASSUME NEW p \in Procs, No(p) PROVE TrustInv'
  BY <1>10, ExitKeeps DEF No, Declines
<1>11. ASSUME NEW p \in Procs, Merge(p) PROVE TrustInv'
  <2> DEFINE kh == insert_hex(load(file), proc[p].name, proc[p].fp)
  <2> DEFINE new == [proc[p] EXCEPT !.kh = kh, !.pc = "truncate"]
  <2>1. proc[p].pc = "merge" /\ Become(p, new) /\ UNCHANGED <<file, cert, ledger, accepted, past>>
    BY <1>11 DEF Merge
  <2>2. load(file) \in Pins /\ \A h \in Hosts :
            load(file)[h] # NoPin => VouchedIn(h, load(file)[h], accepted, past)
    BY <1>3, LoadTyped, LoadVouched
  <2>3. VouchedIn(Host(p), proc[p].fp, accepted, past)
    BY <1>2, <2>1 DEF Sound, KeyVouched, Decided, Host
  <2>4. proc[p].fp \in Fps \cup {NoPin}
    BY <1>2 DEF States
  <2>5. /\ kh \in Pins /\ kh[Host(p)] = proc[p].fp
        /\ \A h \in Hosts : h # Host(p) => kh[h] = load(file)[h]
    BY <1>2, <2>2, <2>4, InsertHex DEF Host
  <2>6. /\ new \in States /\ new.pc = "truncate" /\ new.kh = kh /\ new.fp = proc[p].fp
        /\ new.name = proc[p].name
    <3> HIDE DEF kh
    <3> QED BY <1>2, <2>5 DEF States
  <2> HIDE DEF new, kh
  <2>7. MapVouched(new, accepted', past')
    BY <2>1, <2>2, <2>3, <2>5, <2>6 DEF MapVouched
  <2>8. Sound(new, accepted', past')
    BY <2>1, <2>3, <2>5, <2>6, <2>7 DEF Sound, KeyVouched, AnswerKept, Host
  <2> QED BY <2>1, <2>6, <2>8, StateMoves
<1>12. ASSUME NEW p \in Procs, SaveTruncates(p) PROVE TrustInv'
  <2> DEFINE new == [proc[p] EXCEPT !.pc = "write"]
  <2>1. /\ proc[p].pc = "truncate" /\ Become(p, new) /\ file' = <<>>
        /\ UNCHANGED <<cert, ledger, accepted, past>>
    BY <1>12 DEF SaveTruncates, Goto
  <2>2. file' \in Text /\ TextSound(file, accepted, past)'
    <3>1. <<>> \in Text /\ DOMAIN <<>> = {}
      BY DEF Text
    <3> QED BY <2>1, <3>1 DEF TextSound, Weak, Exact
  <2>3. /\ new \in States /\ new.pc = "write" /\ new.kh = proc[p].kh /\ new.fp = proc[p].fp
        /\ new.name = proc[p].name /\ new.asked = proc[p].asked
    BY <1>2 DEF States
  <2> HIDE DEF new
  <2>4. Sound(new, accepted', past')
    BY <1>2, <2>1, <2>3 DEF Sound, MapVouched, KeyVouched, AnswerKept, Decided
  <2> QED BY <1>3, <2>1, <2>2, <2>3, <2>4, ProcessMoves
<1>13. ASSUME NEW p \in Procs, SaveWrites(p) PROVE TrustInv'
  <2> DEFINE new == [proc[p] EXCEPT !.pc = "connect"]
  <2> DEFINE c == content(proc[p].kh)
  <2>1. /\ proc[p].pc = "write" /\ (Exit(p) \/ Become(p, new))
        /\ file' = over(SubSeq(c, 1, Len(c)), file)
        /\ past' = past \cup Behind(c, Len(c))
        /\ ledger' = insert_hex(ledger, proc[p].name, proc[p].fp)
        /\ UNCHANGED <<cert, accepted>>
    BY <1>13 DEF SaveWrites, Saves, Writes, Goto
  <2>2. ledger' \in Pins
    <3>1. proc[p].fp \in Fps \cup {NoPin}
      BY <1>2 DEF States
    <3> QED BY <1>2, <1>3, <2>1, <3>1, InsertHex
  <2>3. Len(c) \in 0..Len(c)
    <3>1. c \in Text
      BY <1>2, ContentText DEF TextOf
    <3> QED BY <3>1, TextElements
  <2>4. past \subseteq past' /\ past' \subseteq {"cut", "tail", "mixed"}
    BY <1>3, <2>1 DEF Behind
  <2>5. \A h \in Hosts : proc[p].kh[h] # NoPin => VouchedIn(h, proc[p].kh[h], accepted, past)
    BY <1>2 DEF Sound, MapVouched
  <2>6. file' \in Text /\ TextSound(file, accepted, past)'
    BY <1>2, <1>3, <2>1, <2>3, <2>4, <2>5, WriteSound
  <2>7. CASE Exit(p)
    BY <1>3, <2>1, <2>2, <2>4, <2>6, <2>7, IdleSound, ProcessMoves DEF Exit
  <2>8. CASE Become(p, new)
    <3>1. /\ new \in States /\ new.pc = "connect" /\ new.kh = proc[p].kh
          /\ new.fp = proc[p].fp /\ new.name = proc[p].name /\ new.asked = proc[p].asked
      BY <1>2 DEF States
    <3> HIDE DEF new
    <3>2. Sound(new, accepted, past)
      BY <1>2, <2>1, <3>1 DEF Sound, MapVouched, KeyVouched, AnswerKept, Decided
    <3>3. Sound(new, accepted', past')
      BY <2>1, <2>4, <3>2, SoundKept
    <3> QED BY <1>3, <2>1, <2>2, <2>4, <2>6, <2>8, <3>1, <3>3, ProcessMoves
  <2> QED BY <2>1, <2>7, <2>8
<1>14. ASSUME NEW p \in Procs, ConnectPinned(p) PROVE TrustInv'
  <2> DEFINE new == [proc[p] EXCEPT !.pc = "session", !.fp = cert[Host(p)]]
  <2>1. /\ proc[p].pc = "connect" /\ Become(p, new) /\ cert[Host(p)] = proc[p].fp
        /\ UNCHANGED <<file, cert, ledger, accepted, past>>
    BY <1>14 DEF ConnectPinned, Connected
  <2>2. /\ new \in States /\ new.pc = "session" /\ new.kh = proc[p].kh
        /\ new.fp = proc[p].fp /\ new.name = proc[p].name /\ new.asked = proc[p].asked
    BY <1>2, <1>3, <2>1 DEF States
  <2> HIDE DEF new
  <2>3. Sound(new, accepted', past')
    BY <1>2, <2>1, <2>2 DEF Sound, MapVouched, KeyVouched, AnswerKept, Decided
  <2> QED BY <2>1, <2>2, <2>3, StateMoves
<1>15. ASSUME NEW p \in Procs, PinMismatch(p) PROVE TrustInv'
  <2> DEFINE new == [proc[p] EXCEPT !.stage = "again", !.pc = "probe", !.asked = FALSE,
                                    !.kh = Idle.kh, !.fp = NoPin]
  <2>1. UNCHANGED <<file, cert, ledger, accepted, past>> /\ (Exit(p) \/ Become(p, new))
    BY <1>15 DEF PinMismatch, Mismatch
  <2>2. new \in States /\ new.pc = "probe" /\ new.kh = Idle.kh
    BY <1>2, IdleSound DEF States
  <2> HIDE DEF new
  <2>3. Sound(new, accepted', past')
    BY <2>2, IdleSound DEF Sound, MapVouched, KeyVouched, AnswerKept, Decided
  <2> QED BY <2>1, <2>2, <2>3, StateMoves, ExitKeeps
<1>16. ASSUME NEW p \in Procs, TrustAddRejected(p) \/ Unreachable(p) \/ SessionOver(p) \/ Crash(p)
       PROVE  TrustInv'
  BY <1>16, ExitKeeps DEF TrustAddRejected, Unreachable, SessionOver, Crash
<1>17. ASSUME NEW h \in Hosts, NEW fp \in Fps, NewCert(h, fp) PROVE TrustInv'
  <2>1. cert' \in [Hosts -> Fps] /\ UNCHANGED <<file, proc, accepted, ledger, past>>
    BY <1>3, <1>17 DEF NewCert
  <2> QED BY <2>1 DEF TrustInv, TrustTypeOK
<1>18. ASSUME NEW p \in Procs, NEW n \in Cuts, SaveCut(p, n) PROVE TrustInv'
  <2> DEFINE c == content(proc[p].kh)
  <2>1. /\ Exit(p) /\ file' = over(SubSeq(c, 1, n), file) /\ n =< Len(c)
        /\ past' = past \cup {"cut"} \cup Behind(c, n) /\ UNCHANGED <<cert, accepted, ledger>>
    BY <1>18 DEF SaveCut, Writes
  <2>2. n \in 0..Len(c)
    <3>1. c \in Text
      BY <1>2, ContentText DEF TextOf
    <3>2. n \in Nat
      BY TrustAssumption
    <3> QED BY <2>1, <3>1, <3>2, TextElements
  <2>3. /\ past \subseteq past' /\ past' \subseteq {"cut", "tail", "mixed"}
        /\ Behind(c, n) \subseteq past'
    BY <1>3, <2>1 DEF Behind
  <2>4. \A h \in Hosts : proc[p].kh[h] # NoPin => VouchedIn(h, proc[p].kh[h], accepted, past)
    BY <1>2 DEF Sound, MapVouched
  <2>5. file' \in Text /\ TextSound(file, accepted, past)'
    BY <1>2, <1>3, <2>1, <2>2, <2>3, <2>4, WriteSound
  <2> QED BY <1>3, <2>1, <2>3, <2>5, IdleSound, ProcessMoves DEF Exit
<1> QED BY <1>1, <1>4, <1>5, <1>6, <1>7, <1>8, <1>9, <1>10, <1>11, <1>12, <1>13, <1>14,
           <1>15, <1>16, <1>17, <1>18 DEF TrustNext, Starts, Works

\* The invariant holds throughout.
THEOREM TrustInvariance == TrustSpec => []TrustInv
BY InitHolds, StepKeeps, PTL DEF TrustSpec

\* The types hold throughout (known_hosts.rs, main.rs:130-245).
THEOREM TypeCorrect == TrustSpec => []TrustTypeOK
<1>1. TrustInv => TrustTypeOK
  BY DEF TrustInv
<1> QED BY <1>1, TrustInvariance, PTL

\* No line of the file pins a key nobody accepted for its host, whatever several
\* processes do to it between each other's truncations and writes and wherever
\* these stop, unless two saves overlapped; and then the key was accepted for a
\* name that ends in the host's, if the overlapping save was whole
\* (known_hosts.rs:21-72).
THEOREM OnlyAcceptedPinned == TrustSpec => []PinsAccepted
<1>1. TrustInv => PinsAccepted
  BY StatesTyped, LoadVouched DEF TrustInv, PinsAccepted, Vouched, VouchedIn
<1> QED BY <1>1, TrustInvariance, PTL

\* A session runs only over a key accepted for its host, or over one that an
\* overlapping save put there as OnlyAcceptedPinned says (connect.rs:30-36).
THEOREM OnlyAcceptedUsed == TrustSpec => []SessionKeyAccepted
<1>1. TrustInv => SessionKeyAccepted
  BY DEF TrustInv, Sound, KeyVouched, Decided, SessionKeyAccepted, Host, Vouched, VouchedIn
<1> QED BY <1>1, TrustInvariance, PTL

\* A session that was preceded by a question runs over the key the question
\* showed, known under the normalised name (main.rs:180-245).
THEOREM ConfirmedUsed == TrustSpec => []ConfirmedKeyIsUsed
<1>1. TrustInv => ConfirmedKeyIsUsed
  BY DEF TrustInv, Sound, AnswerKept, Decided, ConfirmedKeyIsUsed, pin_hex
<1> QED BY <1>1, TrustInvariance, PTL
-----------------------------------------------------------------------------
(***************************************************************************)
(* One command at a time.  It may be killed, and its save may fail.        *)
(***************************************************************************)
Alone == \A p, q \in Procs : p = q

\* A step before or after the save, of the only process.
LEMMA MapMoves ==
  ASSUME Alone, TrustInv, Ledgered, NEW p \in Procs, NEW new \in States, Become(p, new),
         UNCHANGED <<file, ledger>>, proc[p].pc # "write", new.pc # "write",
         MapIsLedger(new, ledger)
  PROVE  Ledgered'
<1>1. proc' = [proc EXCEPT ![p] = new] /\ proc \in [Procs -> States]
  BY StatesTyped DEF TrustInv, Become
<1>2. \A q \in Procs : q = p
  BY DEF Alone
<1>3. Quiet /\ Quiet'
  BY <1>1, <1>2 DEF Quiet
<1>4. \A q \in Procs : proc'[q] = new
  BY <1>1, <1>2
<1> QED BY <1>3, <1>4 DEF Ledgered

\* An end that is not one of a save.
LEMMA ExitMoves ==
  ASSUME Alone, TrustInv, Ledgered, NEW p \in Procs, Exit(p), UNCHANGED <<file, ledger>>,
         proc[p].pc # "write"
  PROVE  Ledgered'
BY IdleSound, MapMoves DEF Exit, MapIsLedger

\* The decision to trust a key, with the map as the first load left it.
LEMMA TrustsMoves ==
  ASSUME Alone, TrustInv, Ledgered, NEW p \in Procs, NEW fp \in Fps, Trusts(p, fp),
         UNCHANGED <<file, ledger>>, proc[p].pc \in {"probe", "prompt"}
  PROVE  Ledgered'
<1> DEFINE st == proc[p]
<1>1. st \in States /\ MapIsLedger(st, ledger)
  BY StatesTyped DEF TrustInv, Ledgered
<1> DEFINE first == [st EXCEPT !.fp = fp, !.kh = insert_hex(@, st.name, fp), !.pc = "truncate"]
<1> DEFINE again == [st EXCEPT !.fp = fp, !.pc = "merge"]
<1>2. CASE st.stage = "first"
  <2>1. insert_hex(st.kh, st.name, fp) \in Pins
    BY <1>1, InsertHex DEF States
  <2>2. /\ first \in States /\ first.pc = "truncate" /\ first.name = st.name /\ first.fp = fp
        /\ first.kh = insert_hex(st.kh, st.name, fp)
    BY <1>1, <2>1 DEF States
  <2>3. Become(p, first)
    BY <1>2 DEF Trusts
  <2> HIDE DEF first
  <2>4. MapIsLedger(first, ledger)
    BY <1>1, <1>2, <2>2 DEF MapIsLedger
  <2> QED BY <2>2, <2>3, <2>4, MapMoves
<1>3. CASE st.stage # "first"
  <2>1. again \in States /\ again.pc = "merge"
    BY <1>1 DEF States
  <2>2. Become(p, again)
    BY <1>3 DEF Trusts
  <2> HIDE DEF again
  <2>3. MapIsLedger(again, ledger)
    BY <2>1 DEF MapIsLedger
  <2> QED BY <2>1, <2>2, <2>3, MapMoves
<1> QED BY <1>2, <1>3

\* Each step keeps the file and the maps in line with the ledger.
LEMMA LedgerKept == Alone /\ TrustInv /\ LedgerInv /\ [TrustNext]_trustVars => LedgerInv'
<1> SUFFICES ASSUME Alone, TrustInv, LedgerInv, [TrustNext]_trustVars, "cut" \notin past'
             PROVE  Ledgered'
  BY DEF LedgerInv
<1>1. past \subseteq past'
  BY DEF TrustNext, Starts, Works, TrustAdd, Run, Resolve, LoadError, Probe, Yes, No, Declines,
         Merge, SaveTruncates, SaveWrites, Saves, SaveCut, ConnectPinned, PinMismatch, Mismatch,
         TrustAddRejected, Unreachable, SessionOver, Crash, NewCert, trustVars
<1>2. Ledgered
  BY <1>1 DEF LedgerInv
<1>3. CASE UNCHANGED trustVars
  BY <1>3, <1>2 DEF trustVars, Ledgered, Quiet
<1>4. ASSUME NEW p \in Procs
      PROVE  /\ proc[p] \in States /\ MapIsLedger(proc[p], ledger)
             /\ proc[p].kh \in Pins /\ proc[p].name \in Names
             /\ Quiet <=> proc[p].pc # "write"
  BY <1>2, StatesTyped DEF TrustInv, Ledgered, States, Quiet, Alone
<1>5. file \in Text /\ ledger \in Pins /\ cert \in [Hosts -> Fps] /\ load(file) \in Pins
  BY StatesTyped, LoadTyped DEF TrustInv, TrustTypeOK
<1>6. ASSUME NEW p \in Procs, NEW n \in Names, NEW fp \in Fps, TrustAdd(p, n, fp)
      PROVE  Ledgered'
  <2> DEFINE new == [Idle EXCEPT !.pc = "merge", !.cmd = "add", !.name = n, !.fp = fp]
  <2>1. new \in States /\ new.pc = "merge"
    BY IdleSound DEF States
  <2>2. Become(p, new) /\ UNCHANGED <<file, ledger>> /\ proc[p].pc = "idle"
    BY <1>6 DEF TrustAdd
  <2> HIDE DEF new
  <2>3. MapIsLedger(new, ledger)
    BY <2>1 DEF MapIsLedger
  <2> QED BY <1>2, <2>1, <2>2, <2>3, MapMoves
<1>7. ASSUME NEW p \in Procs, NEW n \in Names, NEW mode \in Modes,
             Run(p, n, mode)
      PROVE  Ledgered'
  <2> DEFINE new == [Idle EXCEPT !.pc = "resolve", !.name = n, !.mode = mode]
  <2>1. new \in States /\ new.pc = "resolve"
    <3>1. mode \in {"accept_new", "tty", "batch"}
      BY TrustAssumption
    <3> QED BY <3>1, IdleSound DEF States
  <2>2. Become(p, new) /\ UNCHANGED <<file, ledger>> /\ proc[p].pc = "idle"
    BY <1>7 DEF Run
  <2> HIDE DEF new
  <2>3. MapIsLedger(new, ledger)
    BY <2>1 DEF MapIsLedger
  <2> QED BY <1>2, <2>1, <2>2, <2>3, MapMoves
<1>8. ASSUME NEW p \in Procs, Resolve(p) PROVE Ledgered'
  <2> DEFINE pin == pin_hex(load(file), proc[p].name)
  <2> DEFINE ask == [proc[p] EXCEPT !.kh = load(file), !.pc = "probe"]
  <2> DEFINE pinned == [proc[p] EXCEPT !.fp = pin, !.pc = "connect"]
  <2>1. proc[p].pc = "resolve" /\ Become(p, IF pin = NoPin THEN ask ELSE pinned)
        /\ UNCHANGED <<file, ledger>>
    BY <1>8 DEF Resolve
  <2>2. load(file) = ledger
    BY <1>4, <1>2, <2>1 DEF Ledgered
  <2>3. pin \in Fps \cup {NoPin}
    <3>1. pin = load(file)[normalize_host(proc[p].name)]
      BY DEF pin_hex
    <3> QED BY <1>4, <1>5, <3>1, Constants DEF Pins
  <2>4. ask \in States /\ ask.pc = "probe" /\ ask.kh = load(file)
    BY <1>4, <1>5 DEF States
  <2>5. pinned \in States /\ pinned.pc = "connect"
    <3> HIDE DEF pin
    <3> QED BY <1>4, <2>3 DEF States
  <2> HIDE DEF ask, pinned, pin
  <2>6. MapIsLedger(ask, ledger) /\ MapIsLedger(pinned, ledger)
    BY <2>2, <2>4, <2>5 DEF MapIsLedger
  <2>7. CASE pin = NoPin
    BY <1>2, <2>1, <2>4, <2>6, <2>7, MapMoves
  <2>8. CASE pin # NoPin
    BY <1>2, <2>1, <2>5, <2>6, <2>8, MapMoves
  <2> QED BY <2>7, <2>8
<1>9. ASSUME NEW p \in Procs, LoadError(p) \/ No(p) \/ TrustAddRejected(p) \/ Unreachable(p)
                              \/ SessionOver(p) \/ Crash(p)
      PROVE  Ledgered'
  <2>1. Exit(p) /\ UNCHANGED <<file, ledger>> /\ proc[p].pc # "write"
    BY <1>9 DEF LoadError, No, Declines, TrustAddRejected, Unreachable, SessionOver, Crash
  <2> QED BY <1>2, <2>1, ExitMoves
<1>10. ASSUME NEW p \in Procs, Probe(p) PROVE Ledgered'
  <2> DEFINE fp == cert[Host(p)]
  <2> DEFINE new == [proc[p] EXCEPT !.fp = fp, !.pc = "prompt", !.asked = TRUE]
  <2>1. fp \in Fps
    BY <1>4, <1>5, Constants DEF Host
  <2>2. UNCHANGED <<file, ledger>> /\ proc[p].pc = "probe"
    BY <1>10 DEF Probe
  <2>3. CASE Trusts(p, fp)
    BY <1>2, <2>1, <2>2, <2>3, TrustsMoves
  <2>4. CASE Become(p, new)
    <3>1. /\ new \in States /\ new.pc = "prompt" /\ new.kh = proc[p].kh
          /\ new.stage = proc[p].stage
      BY <1>4, <2>1 DEF States
    <3> HIDE DEF new
    <3>2. MapIsLedger(new, ledger)
      BY <1>4, <2>2, <3>1 DEF MapIsLedger
    <3> QED BY <1>2, <2>2, <2>4, <3>1, <3>2, MapMoves
  <2>5. CASE Exit(p)
    BY <1>2, <2>2, <2>5, ExitMoves
  <2> QED BY <1>10, <2>3, <2>4, <2>5 DEF Probe
<1>11. ASSUME NEW p \in Procs, Yes(p) PROVE Ledgered'
  <2>1. proc[p].fp \in Fps
    BY <1>11 DEF Yes, TrustInv, Sound, AnswerKept
  <2> QED BY <1>2, <1>11, <2>1, TrustsMoves DEF Yes
<1>12. ASSUME NEW p \in Procs, Merge(p) PROVE Ledgered'
  <2> DEFINE kh == insert_hex(load(file), proc[p].name, proc[p].fp)
  <2> DEFINE new == [proc[p] EXCEPT !.kh = kh, !.pc = "truncate"]
  <2>1. proc[p].pc = "merge" /\ Become(p, new) /\ UNCHANGED <<file, ledger>>
    BY <1>12 DEF Merge
  <2>2. load(file) = ledger
    BY <1>4, <1>2, <2>1 DEF Ledgered
  <2>3. kh \in Pins
    BY <1>4, <1>5, InsertHex DEF States
  <2>4. /\ new \in States /\ new.pc = "truncate" /\ new.kh = kh /\ new.fp = proc[p].fp
        /\ new.name = proc[p].name
    <3> HIDE DEF kh
    <3> QED BY <1>4, <2>3 DEF States
  <2> HIDE DEF new
  <2>5. MapIsLedger(new, ledger)
    BY <2>2, <2>4 DEF MapIsLedger
  <2> QED BY <1>2, <2>1, <2>4, <2>5, MapMoves
<1>13. ASSUME NEW p \in Procs, SaveTruncates(p) PROVE Ledgered'
  <2> DEFINE new == [proc[p] EXCEPT !.pc = "write"]
  <2>1. proc[p].pc = "truncate" /\ Become(p, new) /\ file' = <<>> /\ UNCHANGED ledger
    BY <1>13 DEF SaveTruncates, Goto
  <2>2. /\ new.pc = "write" /\ new.kh = proc[p].kh /\ new.fp = proc[p].fp
        /\ new.name = proc[p].name
    BY <1>4 DEF States
  <2> HIDE DEF new
  <2>3. \A q \in Procs : proc'[q] = new
    BY <1>4, <2>1, StatesTyped DEF Become, Alone, TrustInv
  <2>4. MapIsLedger(new, ledger)
    BY <1>4, <2>1, <2>2 DEF MapIsLedger
  <2>5. ~Quiet'
    BY <2>2, <2>3 DEF Quiet
  <2> QED BY <2>1, <2>3, <2>4, <2>5 DEF Ledgered
<1>14. ASSUME NEW p \in Procs, SaveWrites(p) PROVE Ledgered'
  <2> DEFINE new == [proc[p] EXCEPT !.pc = "connect"]
  <2> DEFINE kh == proc[p].kh
  <2>1. /\ proc[p].pc = "write" /\ (Become(p, Idle) \/ Become(p, new))
        /\ file' = over(SubSeq(content(kh), 1, Len(content(kh))), file)
        /\ ledger' = insert_hex(ledger, proc[p].name, proc[p].fp)
    BY <1>14 DEF SaveWrites, Saves, Writes, Goto, Exit
  <2>2. file = <<>>
    BY <1>4, <1>2, <2>1 DEF Ledgered
  <2>3. load(file') = kh
    <3>1. content(kh) \in Text
      BY <1>4, ContentText DEF TextOf
    <3> QED BY <1>4, <2>1, <2>2, <3>1, LoadContent, OverEmpty
  <2>4. ledger' = kh
    BY <1>4, <2>1 DEF MapIsLedger
  <2>5. new.pc = "connect"
    BY <1>4 DEF States
  <2>6. PICK st : Become(p, st) /\ st.pc \notin {"truncate", "write", "probe", "prompt"}
    <3> HIDE DEF new
    <3> QED BY <2>1, <2>5, IdleSound
  <2>7. \A q \in Procs : proc'[q] = st
    BY <2>6, StatesTyped DEF Become, Alone, TrustInv
  <2>8. Quiet' /\ \A q \in Procs : MapIsLedger(proc'[q], ledger')
    BY <2>6, <2>7 DEF Quiet, MapIsLedger
  <2> QED BY <2>3, <2>4, <2>8 DEF Ledgered
<1>15. ASSUME NEW p \in Procs, ConnectPinned(p) PROVE Ledgered'
  <2> DEFINE new == [proc[p] EXCEPT !.pc = "session", !.fp = cert[Host(p)]]
  <2>1. /\ proc[p].pc = "connect" /\ Become(p, new) /\ cert[Host(p)] = proc[p].fp
        /\ UNCHANGED <<file, ledger>>
    BY <1>15 DEF ConnectPinned, Connected
  <2>2. new \in States /\ new.pc = "session"
    BY <1>4, <2>1 DEF States
  <2> HIDE DEF new
  <2>3. MapIsLedger(new, ledger)
    BY <2>2 DEF MapIsLedger
  <2> QED BY <1>2, <2>1, <2>2, <2>3, MapMoves
<1>16. ASSUME NEW p \in Procs, PinMismatch(p) PROVE Ledgered'
  <2> DEFINE new == [proc[p] EXCEPT !.stage = "again", !.pc = "probe", !.asked = FALSE,
                                    !.kh = Idle.kh, !.fp = NoPin]
  <2>1. UNCHANGED <<file, ledger>> /\ (Exit(p) \/ Become(p, new)) /\ proc[p].pc = "connect"
    BY <1>16 DEF PinMismatch, Mismatch
  <2>2. new \in States /\ new.pc = "probe" /\ new.stage = "again"
    BY <1>4, IdleSound DEF States
  <2> HIDE DEF new
  <2>3. MapIsLedger(new, ledger)
    BY <2>2 DEF MapIsLedger
  <2> QED BY <1>2, <2>1, <2>2, <2>3, MapMoves, ExitMoves
<1>17. ASSUME NEW h \in Hosts, NEW fp \in Fps, NewCert(h, fp) PROVE Ledgered'
  BY <1>17, <1>2 DEF NewCert, Ledgered, Quiet
<1>18. ASSUME NEW p \in Procs, NEW n \in Cuts, SaveCut(p, n) PROVE Ledgered'
  BY <1>18 DEF SaveCut
<1> QED BY <1>3, <1>6, <1>7, <1>8, <1>9, <1>10, <1>11, <1>12, <1>13, <1>14, <1>15, <1>16, <1>17,
           <1>18 DEF TrustNext, Starts, Works

\* A user who runs one command at a time finds in the file the pin last reported
\* for each host and no other, until a save fails or is killed after it emptied
\* the file; commands killed anywhere else do no harm (README.md:79, main.rs:80-108,
\* known_hosts.rs:70).
THEOREM LedgerHolds == ASSUME Alone PROVE TrustSpec => []FileIsLedger
<1>1. TrustInit => LedgerInv
  <2> SUFFICES ASSUME TrustInit PROVE Ledgered
    BY DEF LedgerInv
  <2>1. \A p \in Procs : proc[p].pc = "idle"
    BY IdleSound DEF TrustInit
  <2> QED BY <2>1 DEF TrustInit, Ledgered, MapIsLedger, Quiet
<1>2. TrustInv /\ LedgerInv /\ [TrustNext]_trustVars => LedgerInv'
  BY LedgerKept
<1>3. LedgerInv => FileIsLedger
  BY DEF LedgerInv, Ledgered, FileIsLedger
<1> QED BY <1>1, <1>2, <1>3, TrustInvariance, PTL DEF TrustSpec
==============================================================================
