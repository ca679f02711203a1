----------------------------- MODULE SaoSession -----------------------------
(***************************************************************************)
(* The sessions of a server (run_session of sao-server/src/session.rs, one *)
(* task per accepted connection), with peers that may send any frame at    *)
(* any time, agents that sign the challenges they are shown, and an        *)
(* administrator who edits authorized_keys while sessions are open.        *)
(*                                                                         *)
(* What the peer sends is chosen when the session reads it; a signature,   *)
(* once made, can be presented on every session.  run_one_exec is one step *)
(* here: SaoExec has its detail.  A file that is missing, does not parse   *)
(* or holds no key fails to load in the same way: the empty set.           *)
(***************************************************************************)
EXTENDS Integers, Sequences

CONSTANTS
    Sessions,   \* connections; a session's identity stands for its session_id
    Keys,       \* key pairs, each with its fingerprint
    Nonces,     \* values the 32 random bytes may take
    MaxExecs    \* bound: EXEC_SHELL requests answered per session

NoKey   == "no_key"
NoNonce == "no_nonce"

ASSUME SessionAssumption ==
    /\ MaxExecs \in Nat
    /\ NoKey \notin Keys
    /\ NoNonce \notin Nonces

Points     == {"idle", "load", "auth", "loop", "closed"}
FrameTypes == {"AUTH_CHALLENGE", "AUTH_OK", "AUTH_FAIL", "EXEC", "ERROR"}

VARIABLES
    file,     \* keys authorized_keys holds now
    seen,     \* per session: keys the file held at some time since the accept
    pc,       \* where run_session is, one of Points
    snap,     \* the keys loaded at the start of the session
    nonce,    \* the nonce of the session's challenge
    who,      \* the key the session is authenticated with
    out,      \* frames sent
    ran,      \* whether a command was handed to run_one_exec
    peer,     \* "open" | "gone"
    sigs      \* signatures made: key, session the signer answered, bytes signed

connVars == <<pc, snap, nonce, who, out, ran>>
sessionVars == <<file, seen, connVars, peer, sigs>>

SessionInit ==
    /\ file \in SUBSET Keys
    /\ seen = [s \in Sessions |-> {}]
    /\ pc = [s \in Sessions |-> "idle"]
    /\ snap = [s \in Sessions |-> {}]
    /\ nonce = [s \in Sessions |-> NoNonce]
    /\ who = [s \in Sessions |-> NoKey]
    /\ out = [s \in Sessions |-> <<>>]
    /\ ran = [s \in Sessions |-> FALSE]
    /\ peer = [s \in Sessions |-> "open"]
    /\ sigs = {}

(***************************************************************************)
(* auth_message.rs and authorized_keys.rs.                                 *)
(***************************************************************************)
MutSigningBytes(n, sid) == <<n>>          \* mutant: the session id is left out

signing_bytes(n, sid) == <<n, sid>>

MutFindKey(loaded, fp) == fp \in Keys     \* mutant: any well-formed fingerprint

find_key(loaded, fp) == fp \in loaded

\* verify_strict: the signature was made with this key over exactly these bytes
verify_ed25519_signature(key, message, sig) == sig.key = key /\ sig.msg = message

(***************************************************************************)
(* A session's steps.  A write fails when the peer is gone: run_session    *)
(* returns the error and the connection is dropped.                        *)
(***************************************************************************)
Close(s) == pc' = [pc EXCEPT ![s] = "closed"]

Send(s, frame, next) ==
    \/ /\ out' = [out EXCEPT ![s] = Append(@, frame)]
       /\ pc' = [pc EXCEPT ![s] = next]
    \/ peer[s] = "gone" /\ Close(s) /\ UNCHANGED out

Accept(s) ==
    /\ pc[s] = "idle"
    /\ pc' = [pc EXCEPT ![s] = "load"]
    /\ seen' = [seen EXCEPT ![s] = file]
    /\ UNCHANGED <<file, snap, nonce, who, out, ran, peer, sigs>>

LoadFails(s) ==
    /\ pc[s] = "load" /\ file = {}
    /\ Close(s)
    /\ UNCHANGED <<file, seen, snap, nonce, who, out, ran, peer, sigs>>

Challenges(s, values) ==
    /\ pc[s] = "load" /\ file # {}
    /\ snap' = [snap EXCEPT ![s] = file]
    /\ \E n \in values : nonce' = [nonce EXCEPT ![s] = n]
    /\ Send(s, "AUTH_CHALLENGE", "auth")
    /\ UNCHANGED <<file, seen, who, ran, peer, sigs>>

MutChallenge(s) == Challenges(s, {"zeros"})     \* mutant: fill_bytes is left out

Challenge(s) == Challenges(s, Nonces)

\* not an AuthResponse, or one with another key_type
AuthRejected(s, answer) ==
    /\ pc[s] = "auth"
    /\ Send(s, answer, "closed")
    /\ UNCHANGED <<file, seen, snap, nonce, who, ran, peer, sigs>>

UnknownKey(s, fp) ==
    /\ pc[s] = "auth" /\ ~find_key(snap[s], fp)
    /\ Send(s, "AUTH_FAIL", "closed")
    /\ UNCHANGED <<file, seen, snap, nonce, who, ran, peer, sigs>>

Refuses(s, fp, sig, next) ==
    /\ pc[s] = "auth" /\ find_key(snap[s], fp)
    /\ ~verify_ed25519_signature(fp, signing_bytes(nonce[s], s), sig)
    /\ Send(s, "AUTH_FAIL", next)
    /\ UNCHANGED <<file, seen, snap, nonce, who, ran, peer, sigs>>

MutBadSignature(s, fp, sig) == Refuses(s, fp, sig, "loop")    \* mutant: no return

BadSignature(s, fp, sig) == Refuses(s, fp, sig, "closed")

AuthOk(s, fp, sig) ==
    /\ pc[s] = "auth" /\ find_key(snap[s], fp)
    /\ verify_ed25519_signature(fp, signing_bytes(nonce[s], s), sig)
    /\ who' = [who EXCEPT ![s] = fp]
    /\ Send(s, "AUTH_OK", "loop")
    /\ UNCHANGED <<file, seen, snap, nonce, ran, peer, sigs>>

\* run_one_exec returns Ok after its frames, or Err
Exec(s) ==
    /\ pc[s] = "loop" /\ Len(out[s]) < MaxExecs + 2
    /\ ran' = [ran EXCEPT ![s] = TRUE]
    /\ Send(s, "EXEC", "loop") \/ (Close(s) /\ UNCHANGED out)
    /\ UNCHANGED <<file, seen, snap, nonce, who, peer, sigs>>

UnknownType(s) ==
    /\ pc[s] = "loop"
    /\ Send(s, "ERROR", "closed")
    /\ UNCHANGED <<file, seen, snap, nonce, who, ran, peer, sigs>>

\* payload that is not the expected JSON, or a bad header: return Err
BadFrame(s) ==
    /\ pc[s] \in {"auth", "loop"}
    /\ Close(s)
    /\ UNCHANGED <<file, seen, snap, nonce, who, out, ran, peer, sigs>>

ReadsEof(at, s) ==
    /\ pc[s] \in at /\ peer[s] = "gone"
    /\ Close(s)
    /\ UNCHANGED <<file, seen, snap, nonce, who, out, ran, peer, sigs>>

MutEof(s) == ReadsEof({"loop"}, s)       \* mutant: the first read waits on

Eof(s) == ReadsEof({"auth", "loop"}, s)

(***************************************************************************)
(* The world around the server.                                            *)
(***************************************************************************)
Signs(k, s) ==
    /\ nonce[s] # NoNonce
    /\ sigs' = sigs \cup {[key |-> k, sid |-> s, msg |-> signing_bytes(nonce[s], s)]}
    /\ UNCHANGED <<file, seen, connVars, peer>>

EditsKeys(content) ==
    /\ file' = content
    /\ seen' = [s \in Sessions |-> IF pc[s] = "idle" THEN {} ELSE seen[s] \cup content]
    /\ UNCHANGED <<connVars, peer, sigs>>

PeerLeaves(s) ==
    /\ pc[s] # "idle" /\ peer[s] = "open"
    /\ peer' = [peer EXCEPT ![s] = "gone"]
    /\ UNCHANGED <<file, seen, connVars, sigs>>

NotASig == [key |-> NoKey, sid |-> NoKey, msg |-> <<>>]

Authenticates(s) ==
    \/ \E answer \in {"ERROR", "AUTH_FAIL"} : AuthRejected(s, answer)
    \/ \E fp \in Keys \cup {NoKey} : UnknownKey(s, fp)
    \/ \E fp \in Keys, sig \in sigs \cup {NotASig} : BadSignature(s, fp, sig) \/ AuthOk(s, fp, sig)

\* Steps the server takes whatever the peer sends, and those a frame triggers.
Own(s)   == LoadFails(s) \/ Challenge(s) \/ Eof(s)
Serve(s) == Accept(s) \/ Own(s) \/ Authenticates(s) \/ Exec(s) \/ UnknownType(s) \/ BadFrame(s)

SessionNext ==
    \/ \E s \in Sessions : Serve(s) \/ PeerLeaves(s)
    \/ \E k \in Keys, s \in Sessions : Signs(k, s)
    \/ \E content \in SUBSET Keys : EditsKeys(content)

SessionSpec == SessionInit /\ [][SessionNext]_sessionVars

FairSessionSpec == SessionSpec /\ \A s \in Sessions : WF_sessionVars(Own(s))
-----------------------------------------------------------------------------
(***************************************************************************)
(* Properties                                                              *)
(***************************************************************************)

\* Every variable of the sessions stays within its type.
SessionTypeOK ==
    /\ file \in SUBSET Keys
    /\ seen \in [Sessions -> SUBSET Keys]
    /\ pc \in [Sessions -> Points]
    /\ snap \in [Sessions -> SUBSET Keys]
    /\ nonce \in [Sessions -> Nonces \cup {NoNonce}]
    /\ who \in [Sessions -> Keys \cup {NoKey}]
    /\ out \in [Sessions -> Seq(FrameTypes)]
    /\ ran \in [Sessions -> BOOLEAN]
    /\ peer \in [Sessions -> {"open", "gone"}]
    /\ sigs \subseteq [key : Keys, sid : Sessions, msg : {signing_bytes(n, s) : n \in Nonces, s \in Sessions}]

\* A session is authenticated with a key only if the holder of that key signed
\* the challenge of this very session: a signature made for another session is
\* of no use, even if the two nonces should be equal (auth_message.rs:6-12).
AuthenticatedBySigner ==
    \A s \in Sessions : who[s] # NoKey =>
        \E sig \in sigs : sig.key = who[s] /\ sig.sid = s

\* Taking a key out of authorized_keys shuts it out of every connection that is
\* accepted afterwards, without a restart (session.rs:46).
RevokedStaysOut == \A s \in Sessions : who[s] # NoKey => who[s] \in seen[s]

\* Commands run only for an authenticated key, on a session that told the peer so.
RunsOnlyAuthenticated ==
    \A s \in Sessions : ran[s] =>
        who[s] # NoKey /\ Len(out[s]) >= 2 /\ out[s][1] = "AUTH_CHALLENGE" /\ out[s][2] = "AUTH_OK"

\* A refusal is final: after AUTH_RESULT with ok=false or ERROR nothing is sent
\* or run on the connection.
RefusalIsLast ==
    \A s \in Sessions : \A i \in DOMAIN out[s] : out[s][i] \in {"AUTH_FAIL", "ERROR"} =>
        i = Len(out[s]) /\ pc[s] = "closed"

\* A session whose peer went away is closed in the end, wherever it was waiting.
SessionEnds == \A s \in Sessions : peer[s] = "gone" ~> pc[s] = "closed"

=============================================================================
