----------------------------- MODULE SaoKeyFile -----------------------------
(***************************************************************************)
(* load_or_create_signing_key of sao-core/src/agent_key.rs: the private    *)
(* key of the client and the .pub file beside it, shared without a lock by *)
(* every `sao run` and `sao key-fingerprint` of a user.                    *)
(*                                                                         *)
(* fs::write truncates the file and then writes it, two steps here.  All   *)
(* keys are written at the same length, so a file holds nothing or the key *)
(* written last.  A process ends anywhere: killed, or by an I/O error.     *)
(***************************************************************************)
CONSTANTS
    Procs,    \* client processes
    Keys,     \* bound: signing keys that get generated
    Absent, Empty

ASSUME KeyFileAssumption ==
    /\ Absent \notin Keys /\ Empty \notin Keys
    /\ Absent # Empty

Content == Keys \cup {Absent, Empty}

VARIABLES
    priv,      \* agent.ed25519
    pub,       \* agent.ed25519.pub
    pc,        \* where each call of load_or_create_signing_key is
    key,       \* `key` of each call
    generated, \* keys generated so far
    returned,  \* history: keys calls returned, the identities users and servers saw
    alone,     \* history: calls no other call has overlapped so far
    raced,     \* history: two calls were creating the key at once
    torn       \* history: a call ended between truncating and writing priv

fileVars == <<priv, pub>>
pastVars == <<returned, alone, raced, torn>>
keyVars  == <<fileVars, pc, key, generated, pastVars>>

Creating == {"truncate", "write"}   \* saw no file, has not written it yet

KeyFileInit ==
    /\ priv = Absent /\ pub = Absent
    /\ pc = [p \in Procs |-> "idle"] /\ key = [p \in Procs |-> Absent]
    /\ generated = {} /\ returned = {} /\ alone = {} /\ raced = FALSE /\ torn = FALSE

At(p, from, to) == pc[p] = from /\ pc' = [pc EXCEPT ![p] = to]

Call(p) ==
    /\ At(p, "idle", "exists")
    /\ alone' = IF \A q \in Procs : pc[q] = "idle" THEN {p} ELSE {}
    /\ UNCHANGED <<fileVars, key, generated, returned, raced, torn>>

Generates(p, k) ==
    /\ At(p, "exists", "truncate")
    /\ k \notin generated
    /\ key' = [key EXCEPT ![p] = k]
    /\ generated' = generated \cup {k}
    /\ raced' = (raced \/ \E q \in Procs : pc[q] \in Creating)
    /\ UNCHANGED <<fileVars, returned, alone, torn>>

MutGenerate(p, k) == Generates(p, k)      \* mutant: path.exists() is not asked

Generate(p, k) == Generates(p, k) /\ priv = Absent

FoundFile(p) ==
    /\ At(p, "exists", "read") /\ priv # Absent
    /\ UNCHANGED <<fileVars, key, generated, pastVars>>

Reads(p, next) ==
    /\ At(p, "read", next)
    /\ key' = [key EXCEPT ![p] = priv]
    /\ UNCHANGED <<fileVars, generated, pastVars>>

MutRead(p)      == Reads(p, "pubTruncate")                 \* mutant: an empty file is a key
MutReadKeeps(p) == Reads(p, "return") /\ priv \in Keys     \* mutant: .pub is not refreshed

Read(p) == Reads(p, "pubTruncate") /\ priv \in Keys

\* "no key material in file"
NoKeyMaterial(p) ==
    /\ At(p, "read", "idle") /\ priv = Empty
    /\ UNCHANGED <<fileVars, key, generated, pastVars>>

TruncatePriv(p) ==
    /\ At(p, "truncate", "write")
    /\ priv' = Empty
    /\ UNCHANGED <<pub, key, generated, pastVars>>

WritePriv(p) ==
    /\ At(p, "write", "pubTruncate")
    /\ priv' = key[p]
    /\ UNCHANGED <<pub, key, generated, pastVars>>

MutTruncatePub(p) ==                    \* mutant: the path lacks its ".pub"
    /\ At(p, "pubTruncate", "pubWrite")
    /\ priv' = Empty
    /\ UNCHANGED <<pub, key, generated, pastVars>>

TruncatePub(p) ==
    /\ At(p, "pubTruncate", "pubWrite")
    /\ pub' = Empty
    /\ UNCHANGED <<priv, key, generated, pastVars>>

WritePub(p) ==
    /\ At(p, "pubWrite", "return")
    /\ pub' = key[p]
    /\ UNCHANGED <<priv, key, generated, pastVars>>

\* the fingerprint is printed, or the key signs a challenge
Return(p) ==
    /\ At(p, "return", "idle")
    /\ returned' = returned \cup {key[p]}
    /\ UNCHANGED <<fileVars, key, generated, alone, raced, torn>>

Ends(p) ==
    /\ pc[p] # "idle" /\ pc' = [pc EXCEPT ![p] = "idle"]
    /\ torn' = (torn \/ pc[p] = "write")
    /\ UNCHANGED <<fileVars, key, generated, returned, alone, raced>>

KeyFileNext ==
    \E p \in Procs :
        \/ Call(p) \/ FoundFile(p) \/ Read(p) \/ NoKeyMaterial(p)
        \/ \E k \in Keys : Generate(p, k)
        \/ TruncatePriv(p) \/ WritePriv(p) \/ TruncatePub(p) \/ WritePub(p)
        \/ Return(p) \/ Ends(p)

KeyFileSpec == KeyFileInit /\ [][KeyFileNext]_keyVars
-----------------------------------------------------------------------------
(***************************************************************************)
(* Properties                                                              *)
(***************************************************************************)

\* Both files and every call stay within their types; a call that goes on to
\* write .pub or to return has a key in hand (agent_key.rs:69, 85).
KeyFileTypeOK ==
    /\ {priv, pub} \subseteq Content
    /\ pc \in [Procs -> {"idle", "exists", "read", "truncate", "write",
                         "pubTruncate", "pubWrite", "return"}]
    /\ key \in [Procs -> Keys \cup {Absent}]
    /\ \A p \in Procs : pc[p] \in Creating \cup {"pubTruncate", "pubWrite", "return"}
                            => key[p] \in Keys
    /\ returned \subseteq Keys /\ generated \subseteq Keys
    /\ alone \subseteq Procs /\ {raced, torn} \subseteq BOOLEAN

\* One identity per user: unless two first calls overlapped, every key ever
\* printed or used to sign is the one in the file, across killed and repeated
\* calls; .pub holds no other key (agent_key.rs:47-86).
OneIdentity ==
    ~raced => /\ returned \subseteq {priv}
              /\ pub \in {Absent, Empty, priv}

\* "Always refreshes the .pub file" (agent_key.rs:45): whatever races and kills
\* left behind, a call that no other overlapped returns the key in the file and
\* leaves its public half in .pub.
AloneAgrees ==
    \A p \in alone : pc[p] = "return" => priv = key[p] /\ pub = key[p]

\* The private key file is left without a key, which makes every later call
\* fail (agent_key.rs:69), only by a call that ended inside fs::write.
UnusableOnlyIfTorn == priv = Empty => torn \/ \E p \in Procs : pc[p] = "write"

Settled == priv \in Keys /\ \A p \in Procs : pc[p] \notin Creating

\* Once a key is in the file and no call that found the file missing is still on
\* its way, the file keeps that key for good (agent_key.rs:47, 77).
KeyKept == [][Settled => priv' = priv /\ Settled']_keyVars

=============================================================================
