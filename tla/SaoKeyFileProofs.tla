-------------------------- MODULE SaoKeyFileProofs --------------------------
(***************************************************************************)
(* The invariants of SaoKeyFile hold for any sets of processes and keys.   *)
(*                                                                         *)
(* A call that goes past the private key holds a key.  As long as no two   *)
(* calls created one at once, what is held, returned and in .pub is the    *)
(* key in the file, and a call creates only while there is none (OneKey);  *)
(* a call nobody overlapped sees the files move by its own steps only      *)
(* (Undisturbed), whatever happened before.                                *)
(***************************************************************************)
EXTENDS SaoKeyFile, TLAPS

Holds(p) == pc[p] \in {"pubTruncate", "pubWrite", "return"}

\* without a race there is one key, and one call that creates it
OneKey ==
    ~raced =>
        /\ \A p, q \in Procs : pc[p] \in Creating /\ pc[q] \in Creating => p = q
        /\ \A p \in Procs : pc[p] \in Creating => priv \notin Keys
        /\ priv \notin Keys => /\ returned = {} /\ pub = Absent
                               /\ \A p \in Procs : ~Holds(p)
        /\ \A p \in Procs : Holds(p) => key[p] = priv
        /\ returned \subseteq {priv}
        /\ pub \in {Absent, Empty, priv}

\* a call nobody overlapped runs alone, and the files are as it left them
Undisturbed ==
    \A p \in alone :
        /\ p \in Procs
        /\ \A q \in Procs : q # p => pc[q] = "idle"
        /\ Holds(p) => key[p] = priv
        /\ pc[p] = "return" => pub = key[p]

KeyFileInv == KeyFileTypeOK /\ OneKey /\ Undisturbed /\ UnusableOnlyIfTorn

USE DEF At, Creating, Holds, fileVars, pastVars

\* The first state has neither file and no call under way.
LEMMA InitHolds == KeyFileInit => KeyFileInv
BY KeyFileAssumption DEF KeyFileInit, KeyFileInv, KeyFileTypeOK, Content, OneKey,
   Undisturbed, UnusableOnlyIfTorn

\* Every step of a call, and its end anywhere, keeps the types.
LEMMA TypeKept == KeyFileTypeOK /\ [KeyFileNext]_keyVars => KeyFileTypeOK'
<1> SUFFICES ASSUME KeyFileTypeOK, [KeyFileNext]_keyVars PROVE KeyFileTypeOK'
  OBVIOUS
<1> USE KeyFileAssumption DEF KeyFileTypeOK, Content
<1>1. CASE UNCHANGED keyVars
  BY <1>1 DEF keyVars
<1>2. ASSUME NEW p \in Procs, Call(p) PROVE KeyFileTypeOK'
  BY <1>2 DEF Call
<1>3. ASSUME NEW p \in Procs, FoundFile(p) PROVE KeyFileTypeOK'
  BY <1>3 DEF FoundFile
<1>4. ASSUME NEW p \in Procs, Read(p) PROVE KeyFileTypeOK'
  BY <1>4 DEF Read, Reads
<1>5. ASSUME NEW p \in Procs, NoKeyMaterial(p) PROVE KeyFileTypeOK'
  BY <1>5 DEF NoKeyMaterial
<1>6. ASSUME NEW p \in Procs, NEW k \in Keys, Generate(p, k) PROVE KeyFileTypeOK'
  BY <1>6 DEF Generate, Generates
<1>7. ASSUME NEW p \in Procs, TruncatePriv(p) PROVE KeyFileTypeOK'
  BY <1>7 DEF TruncatePriv
<1>8. ASSUME NEW p \in Procs, WritePriv(p) PROVE KeyFileTypeOK'
  BY <1>8 DEF WritePriv
<1>9. ASSUME NEW p \in Procs, TruncatePub(p) PROVE KeyFileTypeOK'
  BY <1>9 DEF TruncatePub
<1>10. ASSUME NEW p \in Procs, WritePub(p) PROVE KeyFileTypeOK'
  BY <1>10 DEF WritePub
<1>11. ASSUME NEW p \in Procs, Return(p) PROVE KeyFileTypeOK'
  BY <1>11 DEF Return
<1>12. ASSUME NEW p \in Procs, Ends(p) PROVE KeyFileTypeOK'
  BY <1>12 DEF Ends
<1> QED
  BY <1>1, <1>2, <1>3, <1>4, <1>5, <1>6, <1>7, <1>8, <1>9, <1>10, <1>11, <1>12
     DEF KeyFileNext

\* The rest of the invariant, one step per action.
LEMMA StepKeeps ==
    KeyFileInv /\ [KeyFileNext]_keyVars => OneKey' /\ Undisturbed' /\ UnusableOnlyIfTorn'
<1> SUFFICES ASSUME KeyFileInv, [KeyFileNext]_keyVars
             PROVE  OneKey' /\ Undisturbed' /\ UnusableOnlyIfTorn'
  OBVIOUS
<1> DEFINE Rest == OneKey /\ Undisturbed /\ UnusableOnlyIfTorn
<1> USE KeyFileAssumption DEF KeyFileInv, KeyFileTypeOK, Content, OneKey,
        Undisturbed, UnusableOnlyIfTorn
<1>1. CASE UNCHANGED keyVars
  BY <1>1 DEF keyVars
<1>2. ASSUME NEW p \in Procs, Call(p) PROVE Rest'
  BY <1>2 DEF Call
<1>3. ASSUME NEW p \in Procs, FoundFile(p) PROVE Rest'
  BY <1>3 DEF FoundFile
<1>4. ASSUME NEW p \in Procs, Read(p) PROVE Rest'
  BY <1>4 DEF Read, Reads
<1>5. ASSUME NEW p \in Procs, NoKeyMaterial(p) PROVE Rest'
  BY <1>5 DEF NoKeyMaterial
<1>6. ASSUME NEW p \in Procs, NEW k \in Keys, Generate(p, k) PROVE Rest'
  <2>1. OneKey'
    BY <1>6 DEF Generate, Generates
  <2>2. Undisturbed'
    BY <1>6 DEF Generate, Generates
  <2>3. UnusableOnlyIfTorn'
    BY <1>6 DEF Generate, Generates
  <2> QED
    BY <2>1, <2>2, <2>3
<1>7. ASSUME NEW p \in Procs, TruncatePriv(p) PROVE Rest'
  BY <1>7 DEF TruncatePriv
<1>8. ASSUME NEW p \in Procs, WritePriv(p) PROVE Rest'
  BY <1>8 DEF WritePriv
<1>9. ASSUME NEW p \in Procs, TruncatePub(p) PROVE Rest'
  BY <1>9 DEF TruncatePub
<1>10. ASSUME NEW p \in Procs, WritePub(p) PROVE Rest'
  BY <1>10 DEF WritePub
<1>11. ASSUME NEW p \in Procs, Return(p) PROVE Rest'
  BY <1>11 DEF Return
<1>12. ASSUME NEW p \in Procs, Ends(p) PROVE Rest'
  <2>1. OneKey'
    BY <1>12 DEF Ends
  <2>2. Undisturbed'
    BY <1>12 DEF Ends
  <2>3. UnusableOnlyIfTorn'
    <3>1. /\ priv' = priv /\ torn' = (torn \/ pc[p] = "write")
          /\ \A q \in Procs : q # p => pc'[q] = pc[q]
      BY <1>12 DEF Ends
    <3>2. priv = Empty => torn \/ \E q \in Procs : pc[q] = "write"
      OBVIOUS
    <3> QED BY ONLY <3>1, <3>2, Zenon DEF UnusableOnlyIfTorn
  <2> QED
    BY <2>1, <2>2, <2>3
<1> QED
  BY <1>1, <1>2, <1>3, <1>4, <1>5, <1>6, <1>7, <1>8, <1>9, <1>10, <1>11, <1>12
     DEF KeyFileNext

\* The invariant holds in every state.
THEOREM KeyFileInvariance == KeyFileSpec => []KeyFileInv
<1>1. KeyFileInv /\ [KeyFileNext]_keyVars => KeyFileInv'
  BY TypeKept, StepKeeps DEF KeyFileInv
<1> QED
  BY InitHolds, <1>1, PTL DEF KeyFileSpec

\* Files and calls keep their types, for any processes and keys.
THEOREM KeyFileTypes == KeyFileSpec => []KeyFileTypeOK
BY KeyFileInvariance, PTL DEF KeyFileInv

\* Without a race every key printed or used to sign is the one in the file, and
\* .pub holds no other.
THEOREM Identity == KeyFileSpec => []OneIdentity
<1>1. KeyFileInv => OneIdentity
  BY DEF KeyFileInv, OneKey, OneIdentity
<1> QED
  BY KeyFileInvariance, <1>1, PTL

\* An undisturbed call leaves both files with the key it returns, whatever
\* earlier races and interruptions did to them.
THEOREM Healing == KeyFileSpec => []AloneAgrees
<1>1. KeyFileInv => AloneAgrees
  BY DEF KeyFileInv, Undisturbed, AloneAgrees
<1> QED
  BY KeyFileInvariance, <1>1, PTL

\* The private key file is left empty only by an interrupted write.
THEOREM Usability == KeyFileSpec => []UnusableOnlyIfTorn
BY KeyFileInvariance, PTL DEF KeyFileInv

\* A key in the file stays once no call that found it missing is under way.
THEOREM Permanence == KeyFileSpec => KeyKept
<1>1. KeyFileInv /\ [KeyFileNext]_keyVars => [Settled => priv' = priv /\ Settled']_keyVars
  <2> SUFFICES ASSUME KeyFileInv, KeyFileNext, Settled
               PROVE  priv' = priv /\ Settled'
    BY DEF keyVars
  <2> USE KeyFileAssumption DEF KeyFileInv, KeyFileTypeOK, Settled
  <2>1. ASSUME NEW p \in Procs,
               Call(p) \/ FoundFile(p) \/ Read(p) \/ NoKeyMaterial(p)
                 \/ \E k \in Keys : Generate(p, k)
        PROVE  priv' = priv /\ Settled'
    BY <2>1 DEF Call, FoundFile, Read, Reads, NoKeyMaterial, Generate, Generates
  <2>2. ASSUME NEW p \in Procs,
               TruncatePriv(p) \/ WritePriv(p) \/ TruncatePub(p) \/ WritePub(p)
                 \/ Return(p) \/ Ends(p)
        PROVE  priv' = priv /\ Settled'
    BY <2>2 DEF TruncatePriv, WritePriv, TruncatePub, WritePub, Return, Ends
  <2> QED
    BY <2>1, <2>2 DEF KeyFileNext
<1> QED
  BY KeyFileInvariance, <1>1, PTL DEF KeyFileSpec, KeyKept

=============================================================================
