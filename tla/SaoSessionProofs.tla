-------------------------- MODULE SaoSessionProofs --------------------------
(***************************************************************************)
(* Who gets into a session and what it may do there, for any number of     *)
(* sessions, keys and nonces.                                              *)
(***************************************************************************)
EXTENDS SaoSession, TLAPS

\* What a session has sent, and whether it is authenticated, tells where it is.
OutAtPoint ==
    \A s \in Sessions :
        /\ pc[s] \in {"idle", "load"} => out[s] = <<>>
        /\ pc[s] = "auth" => out[s] = <<"AUTH_CHALLENGE">>
        /\ pc[s] \in {"idle", "load", "auth"} => who[s] = NoKey /\ ~ran[s]
        /\ pc[s] = "loop" =>
              /\ who[s] # NoKey
              /\ Len(out[s]) >= 2 /\ out[s][1] = "AUTH_CHALLENGE" /\ out[s][2] = "AUTH_OK"

\* A session never loaded a key that was not in the file since it was accepted.
LoadedWasSeen ==
    \A s \in Sessions :
        /\ pc[s] # "idle" => file \subseteq seen[s]
        /\ pc[s] = "idle" => snap[s] = {}
        /\ snap[s] \subseteq seen[s]

\* A signature is bound to the session whose challenge it answers.
SigBound == \A sig \in sigs : \E n \in Nonces : sig.msg = signing_bytes(n, sig.sid)

SessionInv ==
    /\ SessionTypeOK
    /\ OutAtPoint
    /\ LoadedWasSeen
    /\ SigBound
    /\ AuthenticatedBySigner
    /\ RevokedStaysOut
    /\ RunsOnlyAuthenticated
    /\ RefusalIsLast

\* Initially no session has been accepted and nothing signed.
LEMMA InitInv == SessionInit => SessionInv
BY SessionAssumption
DEF SessionInit, SessionInv, SessionTypeOK, OutAtPoint, LoadedWasSeen, SigBound, Points,
    AuthenticatedBySigner, RevokedStaysOut, RunsOnlyAuthenticated, RefusalIsLast

\* Appending a frame keeps what was sent before.
LEMMA Appended ==
    ASSUME NEW q \in Seq(FrameTypes), NEW f \in FrameTypes
    PROVE  /\ Append(q, f) \in Seq(FrameTypes)
           /\ Len(q) \in Nat
           /\ Len(Append(q, f)) = Len(q) + 1
           /\ \A i \in 1..Len(q) : Append(q, f)[i] = q[i]
           /\ Append(q, f)[Len(q) + 1] = f
           /\ DOMAIN Append(q, f) = 1..(Len(q) + 1)
           /\ DOMAIN q = 1..Len(q)
OBVIOUS

\* What a session sends on its way in holds no refusal.
LEMMA NoRefusal ==
    \A q \in {<<>>, <<"AUTH_CHALLENGE">>, <<"AUTH_CHALLENGE", "AUTH_OK">>} :
        \A i \in DOMAIN q : q[i] \notin {"AUTH_FAIL", "ERROR"}
OBVIOUS

\* What Send does to the frames and the place of a session.
LEMMA Sent ==
    ASSUME SessionTypeOK, NEW s \in Sessions, NEW f \in FrameTypes, NEW next \in Points,
           Send(s, f, next)
    PROVE  /\ pc' \in [Sessions -> Points]
           /\ out' \in [Sessions -> Seq(FrameTypes)]
           /\ \A t \in Sessions \ {s} : pc'[t] = pc[t] /\ out'[t] = out[t]
           /\ \/ pc'[s] = next /\ out'[s] = Append(out[s], f)
              \/ pc'[s] = "closed" /\ out'[s] = out[s]
<1>1. out[s] \in Seq(FrameTypes) /\ Append(out[s], f) \in Seq(FrameTypes)
  BY Appended DEF SessionTypeOK
<1>2. "closed" \in Points
  BY DEF Points
<1>3. CASE /\ out' = [out EXCEPT ![s] = Append(@, f)]
           /\ pc' = [pc EXCEPT ![s] = next]
  BY <1>1, <1>3 DEF SessionTypeOK
<1>4. CASE Close(s) /\ UNCHANGED out
  BY <1>2, <1>4 DEF SessionTypeOK, Close
<1> QED BY <1>3, <1>4 DEF Send

\* A session that leaves "auth" or "loop" by Send(s, f, next), with its other
\* variables as they were, keeps the invariant: a refusal closes it, and only
\* a session at "loop" sends on.
LEMMA SendKeeps ==
    ASSUME SessionInv, NEW s \in Sessions, pc[s] \in {"auth", "loop"},
           NEW f \in FrameTypes, NEW next \in {"loop", "closed"}, Send(s, f, next),
           next = "loop" => pc[s] = "loop" /\ f = "EXEC",
           UNCHANGED <<file, seen, snap, nonce, who, peer, sigs>>,
           ran' \in [Sessions -> BOOLEAN],
           \A t \in Sessions : ran'[t] # ran[t] => t = s /\ pc[s] = "loop"
    PROVE  SessionInv'
<1> USE DEF SessionInv
<1>1. /\ pc' \in [Sessions -> Points]
      /\ out' \in [Sessions -> Seq(FrameTypes)]
      /\ \A t \in Sessions \ {s} : pc'[t] = pc[t] /\ out'[t] = out[t]
      /\ \/ pc'[s] = next /\ out'[s] = Append(out[s], f)
         \/ pc'[s] = "closed" /\ out'[s] = out[s]
  BY Sent DEF Points
<1>2. /\ out[s] \in Seq(FrameTypes)
      /\ \A i \in DOMAIN out[s] : out[s][i] \notin {"AUTH_FAIL", "ERROR"}
  BY DEF SessionTypeOK, RefusalIsLast
<1>3. SessionTypeOK'
  BY <1>1 DEF SessionTypeOK
<1>4. OutAtPoint'
  <2>1. ASSUME NEW t \in Sessions \ {s}
        PROVE  pc'[t] = pc[t] /\ out'[t] = out[t] /\ who'[t] = who[t] /\ ran'[t] = ran[t]
    BY <1>1
  <2>2. CASE pc'[s] = "closed"
    BY <2>1, <2>2 DEF OutAtPoint
  <2>3. CASE pc'[s] = next /\ out'[s] = Append(out[s], f) /\ next = "loop"
    <3>1. /\ pc[s] = "loop" /\ who'[s] # NoKey /\ Len(out[s]) >= 2
          /\ out[s][1] = "AUTH_CHALLENGE" /\ out[s][2] = "AUTH_OK"
      BY <2>3 DEF OutAtPoint
    <3>2. Len(out'[s]) >= 2 /\ out'[s][1] = "AUTH_CHALLENGE" /\ out'[s][2] = "AUTH_OK"
      BY <3>1, <2>3, <1>2, Appended
    <3> QED BY <2>1, <2>3, <3>1, <3>2 DEF OutAtPoint
  <2> QED BY <1>1, <2>2, <2>3
<1>5. LoadedWasSeen' /\ SigBound' /\ AuthenticatedBySigner' /\ RevokedStaysOut'
  BY <1>1 DEF LoadedWasSeen, SigBound, AuthenticatedBySigner, RevokedStaysOut
<1>6. RunsOnlyAuthenticated'
  <2> SUFFICES ASSUME NEW t \in Sessions, ran'[t]
               PROVE  /\ who'[t] # NoKey
                      /\ Len(out'[t]) >= 2 /\ out'[t][1] = "AUTH_CHALLENGE" /\ out'[t][2] = "AUTH_OK"
    BY DEF RunsOnlyAuthenticated
  <2>1. /\ who[t] # NoKey
        /\ Len(out[t]) >= 2 /\ out[t][1] = "AUTH_CHALLENGE" /\ out[t][2] = "AUTH_OK"
    <3>1. CASE ran[t]
      BY <3>1 DEF RunsOnlyAuthenticated
    <3>2. CASE ~ran[t]
      BY <3>2 DEF OutAtPoint, SessionTypeOK
    <3> QED BY <3>1, <3>2
  <2>2. CASE out'[t] = out[t]
    BY <2>1, <2>2
  <2>3. CASE t = s /\ out'[s] = Append(out[s], f)
    BY <2>1, <2>3, <1>2, Appended
  <2> QED BY <1>1, <2>2, <2>3
<1>7. RefusalIsLast'
  <2> SUFFICES ASSUME NEW t \in Sessions, NEW i \in DOMAIN out'[t], out'[t][i] \in {"AUTH_FAIL", "ERROR"}
               PROVE  i = Len(out'[t]) /\ pc'[t] = "closed"
    BY DEF RefusalIsLast
  <2>1. CASE t # s
    BY <2>1, <1>1 DEF RefusalIsLast
  <2>2. CASE t = s /\ out'[s] = out[s]
    BY <2>2, <1>2
  <2>3. CASE t = s /\ pc'[s] = next /\ out'[s] = Append(out[s], f)
    <3>1. i = Len(out'[s]) /\ f \in {"AUTH_FAIL", "ERROR"}
      BY <2>3, <1>2, Appended
    <3> QED BY <2>3, <3>1
  <2> QED BY <1>1, <2>1, <2>2, <2>3
<1> QED BY <1>3, <1>4, <1>5, <1>6, <1>7

\* Closing without a word keeps the invariant.
LEMMA Closed ==
    ASSUME SessionInv, NEW s \in Sessions, pc[s] # "idle", Close(s),
           UNCHANGED <<file, seen, snap, nonce, who, out, peer, sigs>>,
           ran' \in [Sessions -> BOOLEAN],
           \A t \in Sessions : ran'[t] # ran[t] => t = s /\ pc[s] = "loop"
    PROVE  SessionInv'
<1> USE DEF SessionInv
<1>1. /\ pc' \in [Sessions -> Points] /\ pc'[s] = "closed"
      /\ \A t \in Sessions \ {s} : pc'[t] = pc[t]
  BY DEF Close, SessionTypeOK, Points
<1>2. SessionTypeOK'
  BY <1>1 DEF SessionTypeOK
<1>3. OutAtPoint' /\ LoadedWasSeen' /\ SigBound' /\ AuthenticatedBySigner' /\ RevokedStaysOut'
  BY <1>1 DEF OutAtPoint, LoadedWasSeen, SigBound, AuthenticatedBySigner, RevokedStaysOut
<1>4. RunsOnlyAuthenticated'
  BY <1>1 DEF RunsOnlyAuthenticated, OutAtPoint, SessionTypeOK
<1>5. RefusalIsLast'
  BY <1>1 DEF RefusalIsLast
<1> QED BY <1>2, <1>3, <1>4, <1>5

\* Being accepted: the keys in the file are the first the session can see.
LEMMA Accepted ==
    ASSUME SessionInv, NEW s \in Sessions, Accept(s)
    PROVE  SessionInv'
<1> USE DEF SessionInv, Accept
<1>1. SessionTypeOK' /\ OutAtPoint' /\ SigBound' /\ AuthenticatedBySigner'
  BY DEF SessionTypeOK, OutAtPoint, SigBound, AuthenticatedBySigner, Points
<1>2. LoadedWasSeen' /\ RevokedStaysOut'
  BY DEF LoadedWasSeen, RevokedStaysOut, SessionTypeOK, OutAtPoint
<1>3. RunsOnlyAuthenticated' /\ RefusalIsLast'
  BY DEF RunsOnlyAuthenticated, RefusalIsLast, SessionTypeOK, OutAtPoint
<1> QED BY <1>1, <1>2, <1>3

\* The challenge: the session takes the keys of the file as they are.
LEMMA Challenged ==
    ASSUME SessionInv, NEW s \in Sessions, Challenge(s)
    PROVE  SessionInv'
<1> USE DEF SessionInv, Challenge, Challenges
<1>1. /\ pc' \in [Sessions -> Points]
      /\ out' \in [Sessions -> Seq(FrameTypes)]
      /\ \A t \in Sessions \ {s} : pc'[t] = pc[t] /\ out'[t] = out[t]
      /\ \/ pc'[s] = "auth" /\ out'[s] = Append(out[s], "AUTH_CHALLENGE")
         \/ pc'[s] = "closed" /\ out'[s] = out[s]
  BY Sent DEF Points, FrameTypes
<1>2. pc[s] = "load" /\ out[s] = <<>> /\ who[s] = NoKey /\ ~ran[s]
  BY DEF OutAtPoint
<1>3. out'[s] = <<"AUTH_CHALLENGE">> \/ (pc'[s] = "closed" /\ out'[s] = <<>>)
  BY <1>1, <1>2
<1>4. SessionTypeOK'
  <2>1. PICK n \in Nonces : nonce' = [nonce EXCEPT ![s] = n]
    OBVIOUS
  <2>2. nonce' \in [Sessions -> Nonces \cup {NoNonce}] /\ snap' \in [Sessions -> SUBSET Keys]
    BY <2>1 DEF SessionTypeOK
  <2> QED BY <1>1, <2>2 DEF SessionTypeOK
<1>5. OutAtPoint'
  BY <1>1, <1>2, <1>3 DEF OutAtPoint
<1>6. LoadedWasSeen' /\ SigBound' /\ AuthenticatedBySigner' /\ RevokedStaysOut'
  BY <1>1, <1>2 DEF LoadedWasSeen, SigBound, AuthenticatedBySigner, RevokedStaysOut, SessionTypeOK
<1>7. RunsOnlyAuthenticated'
  BY <1>1, <1>2 DEF RunsOnlyAuthenticated
<1>8. RefusalIsLast'
  <2>1. out'[s] \in {<<>>, <<"AUTH_CHALLENGE">>}
    BY <1>3
  <2>2. \A i \in DOMAIN out'[s] : out'[s][i] \notin {"AUTH_FAIL", "ERROR"}
    BY <2>1, NoRefusal
  <2> QED BY <1>1, <2>2 DEF RefusalIsLast
<1> QED BY <1>4, <1>5, <1>6, <1>7, <1>8

\* Authentication: the signature presented was made for this session.
LEMMA Admitted ==
    ASSUME SessionInv, NEW s \in Sessions, NEW fp \in Keys, NEW sig \in sigs \cup {NotASig},
           AuthOk(s, fp, sig)
    PROVE  SessionInv'
<1> USE DEF SessionInv, AuthOk
<1>1. /\ pc' \in [Sessions -> Points]
      /\ out' \in [Sessions -> Seq(FrameTypes)]
      /\ \A t \in Sessions \ {s} : pc'[t] = pc[t] /\ out'[t] = out[t]
      /\ \/ pc'[s] = "loop" /\ out'[s] = Append(out[s], "AUTH_OK")
         \/ pc'[s] = "closed" /\ out'[s] = out[s]
  BY Sent DEF Points, FrameTypes
<1>2. pc[s] = "auth" /\ out[s] = <<"AUTH_CHALLENGE">> /\ ~ran[s]
  BY DEF OutAtPoint
<1>3. out'[s] = <<"AUTH_CHALLENGE", "AUTH_OK">> \/ (pc'[s] = "closed" /\ out'[s] = <<"AUTH_CHALLENGE">>)
  BY <1>1, <1>2
<1>4. /\ who' \in [Sessions -> Keys \cup {NoKey}] /\ who'[s] = fp /\ fp # NoKey
      /\ \A t \in Sessions \ {s} : who'[t] = who[t]
  BY SessionAssumption DEF SessionTypeOK
<1>5. SessionTypeOK'
  BY <1>1, <1>4 DEF SessionTypeOK
<1>6. OutAtPoint'
  BY <1>1, <1>2, <1>3, <1>4 DEF OutAtPoint
<1>7. LoadedWasSeen' /\ SigBound'
  BY <1>1, <1>2 DEF LoadedWasSeen, SigBound
<1>8. sig \in sigs /\ sig.key = fp /\ sig.sid = s
  <2>1. sig.key = fp /\ sig.msg = <<nonce[s], s>>
    BY DEF verify_ed25519_signature, signing_bytes
  <2>2. sig \in sigs
    BY <2>1, <1>4 DEF NotASig
  <2>3. PICK n \in Nonces : sig.msg = <<n, sig.sid>>
    BY <2>2 DEF SigBound, signing_bytes
  <2> QED BY <2>1, <2>2, <2>3
<1>9. AuthenticatedBySigner'
  BY <1>4, <1>8 DEF AuthenticatedBySigner
<1>10. RevokedStaysOut'
  BY <1>4 DEF RevokedStaysOut, LoadedWasSeen, find_key
<1>11. RunsOnlyAuthenticated'
  <2>1. ran' = ran
    OBVIOUS
  <2>2. ASSUME NEW t \in Sessions \ {s} PROVE out'[t] = out[t] /\ who'[t] = who[t]
    BY <1>1, <1>4
  <2> QED BY <1>2, <2>1, <2>2 DEF RunsOnlyAuthenticated
<1>12. RefusalIsLast'
  BY <1>1, <1>3, NoRefusal DEF RefusalIsLast
<1> QED BY <1>5, <1>6, <1>7, <1>9, <1>10, <1>11, <1>12

\* What happens around the server: signing, editing, leaving.
LEMMA Around ==
    ASSUME SessionInv,
           \/ \E s \in Sessions : PeerLeaves(s)
           \/ \E k \in Keys, s \in Sessions : Signs(k, s)
           \/ \E content \in SUBSET Keys : EditsKeys(content)
    PROVE  SessionInv'
<1> USE DEF SessionInv, connVars
<1>1. ASSUME NEW s \in Sessions, PeerLeaves(s) PROVE SessionInv'
  BY <1>1 DEF PeerLeaves, SessionTypeOK, OutAtPoint, LoadedWasSeen, SigBound,
       AuthenticatedBySigner, RevokedStaysOut, RunsOnlyAuthenticated, RefusalIsLast
<1>2. ASSUME NEW k \in Keys, NEW s \in Sessions, Signs(k, s) PROVE SessionInv'
  <2>1. nonce[s] \in Nonces
    BY <1>2 DEF Signs, SessionTypeOK
  <2>2. SessionTypeOK' /\ SigBound' /\ AuthenticatedBySigner'
    BY <1>2, <2>1 DEF Signs, SessionTypeOK, SigBound, AuthenticatedBySigner
  <2>3. OutAtPoint' /\ LoadedWasSeen' /\ RevokedStaysOut' /\ RunsOnlyAuthenticated' /\ RefusalIsLast'
    BY <1>2 DEF Signs, OutAtPoint, LoadedWasSeen, RevokedStaysOut, RunsOnlyAuthenticated, RefusalIsLast
  <2> QED BY <2>2, <2>3
<1>3. ASSUME NEW content \in SUBSET Keys, EditsKeys(content) PROVE SessionInv'
  <2>1. SessionTypeOK' /\ LoadedWasSeen'
    BY <1>3 DEF EditsKeys, SessionTypeOK, LoadedWasSeen
  <2>2. RevokedStaysOut'
    BY <1>3 DEF EditsKeys, RevokedStaysOut, SessionTypeOK, OutAtPoint
  <2>3. OutAtPoint' /\ SigBound' /\ AuthenticatedBySigner' /\ RunsOnlyAuthenticated' /\ RefusalIsLast'
    BY <1>3 DEF EditsKeys, OutAtPoint, SigBound, AuthenticatedBySigner, RunsOnlyAuthenticated, RefusalIsLast
  <2> QED BY <2>1, <2>2, <2>3
<1> QED BY <1>1, <1>2, <1>3

\* Every step of a session keeps the invariant.
LEMMA Served ==
    ASSUME SessionInv, NEW s \in Sessions, Serve(s)
    PROVE  SessionInv'
<1> USE DEF SessionInv
<1>1. CASE Accept(s)
  BY <1>1, Accepted
<1>2. CASE Challenge(s)
  BY <1>2, Challenged
<1>3. CASE LoadFails(s) \/ BadFrame(s) \/ Eof(s)
  <2>1. /\ pc[s] # "idle" /\ Close(s)
        /\ UNCHANGED <<file, seen, snap, nonce, who, out, peer, sigs>> /\ ran' = ran
    BY <1>3 DEF LoadFails, BadFrame, Eof, ReadsEof
  <2>2. ran' \in [Sessions -> BOOLEAN]
    BY <2>1 DEF SessionTypeOK
  <2> QED BY <2>1, <2>2, Closed
<1>4. ASSUME NEW answer \in {"ERROR", "AUTH_FAIL"}, AuthRejected(s, answer) PROVE SessionInv'
  BY <1>4, SendKeeps DEF AuthRejected, FrameTypes, SessionTypeOK
<1>5. ASSUME NEW fp, UnknownKey(s, fp) PROVE SessionInv'
  BY <1>5, SendKeeps DEF UnknownKey, FrameTypes, SessionTypeOK
<1>6. ASSUME NEW fp, NEW sig, BadSignature(s, fp, sig) PROVE SessionInv'
  BY <1>6, SendKeeps DEF BadSignature, Refuses, FrameTypes, SessionTypeOK
<1>7. CASE UnknownType(s)
  BY <1>7, SendKeeps DEF UnknownType, FrameTypes, SessionTypeOK
<1>8. CASE Exec(s)
  <2>1. /\ pc[s] = "loop"
        /\ ran' \in [Sessions -> BOOLEAN]
        /\ \A t \in Sessions : ran'[t] # ran[t] => t = s /\ pc[s] = "loop"
    <3>1. pc[s] = "loop" /\ ran' = [ran EXCEPT ![s] = TRUE]
      BY <1>8 DEF Exec
    <3>2. ran \in [Sessions -> BOOLEAN]
      BY DEF SessionTypeOK
    <3>3. ran' \in [Sessions -> BOOLEAN]
      BY <3>1, <3>2
    <3>4. ASSUME NEW t \in Sessions, t # s PROVE ran'[t] = ran[t]
      BY <3>1, <3>2, <3>4, Zenon
    <3> QED BY <3>1, <3>3, <3>4
  <2>2. CASE Send(s, "EXEC", "loop")
    BY <1>8, <2>1, <2>2, SendKeeps DEF Exec, FrameTypes
  <2>3. CASE Close(s) /\ UNCHANGED out
    BY <1>8, <2>1, <2>3, Closed DEF Exec
  <2> QED BY <1>8, <2>2, <2>3 DEF Exec
<1> QED BY <1>1, <1>2, <1>3, <1>4, <1>5, <1>6, <1>7, <1>8, Admitted
        DEF Serve, Own, Authenticates

\* The strengthened invariant holds in every reachable state of the sessions.
THEOREM SessionInvariance == SessionSpec => []SessionInv
<1>1. ASSUME SessionInv, [SessionNext]_sessionVars PROVE SessionInv'
  <2>1. CASE UNCHANGED sessionVars
    BY <1>1, <2>1 DEF sessionVars, connVars, SessionInv, SessionTypeOK, OutAtPoint, LoadedWasSeen,
       SigBound, AuthenticatedBySigner, RevokedStaysOut, RunsOnlyAuthenticated, RefusalIsLast
  <2>2. CASE SessionNext
    BY <1>1, <2>2, Served, Around DEF SessionNext
  <2> QED BY <1>1, <2>1, <2>2
<1> QED BY InitInv, <1>1, PTL DEF SessionSpec

\* Every variable of the sessions keeps its type, for any sets of sessions, keys
\* and nonces.
THEOREM SessionTypes == SessionSpec => []SessionTypeOK
BY SessionInvariance, PTL DEF SessionInv

\* A session is authenticated with a key only if its holder signed the challenge
\* of that very session (session.rs:76-94, auth_message.rs:6-12).
THEOREM SignerOnly == SessionSpec => []AuthenticatedBySigner
BY SessionInvariance, PTL DEF SessionInv

\* A key taken out of authorized_keys opens no connection accepted afterwards
\* (session.rs:46, authorized_keys.rs:76-79).
THEOREM Revocation == SessionSpec => []RevokedStaysOut
BY SessionInvariance, PTL DEF SessionInv

\* Commands run only after a successful authentication (session.rs:115-125).
THEOREM AuthenticatedRuns == SessionSpec => []RunsOnlyAuthenticated
BY SessionInvariance, PTL DEF SessionInv

\* A refusal is the last thing that happens on a session (session.rs:62-94, 126-134).
THEOREM FinalRefusal == SessionSpec => []RefusalIsLast
BY SessionInvariance, PTL DEF SessionInv
=============================================================================
