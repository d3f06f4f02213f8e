-------------------------- MODULE TspSessionProofs --------------------------
(***************************************************************************)
(* Proofs about TspSession: what holds of the session's socket and of the  *)
(* stored key whatever addresses the host has, whatever keys brokers show  *)
(* and however many commands fail.                                         *)
(***************************************************************************)
EXTENDS TspSession, TLAPS

\* The socket is open during a session up to the end of the tunnel loop; after
\* the loop of a V6UDPV4 tunnel, and only then, it is closed before the end.
SocketInv ==
    /\ stray \in {NULL, "v6udpv4"}
    /\ pc = "idle" => sock # "open"
    /\ pc # "idle" => \/ sock = "open"
                      \/ offer.type = "v6udpv4" /\ pc \in {"close tun", "teardown", "finish"}

\* From the acceptance of the key on, the key shown is the one stored.
KeyInv == pc \in {"passdss signature", "passdss password"} => key = keyfile

\* An early return keeps both.
LEMMA ReturnSafe ==
    ASSUME SocketInv, pc # "idle", NEW s, Return(s)
    PROVE  SocketInv' /\ KeyInv'
BY DEF SocketInv, KeyInv, Return, CloseSocket

\* So does going on to a step of the session that is not about the key.
LEMMA ProceedSafe ==
    ASSUME SocketInv, pc # "idle", sock = "open" \/ pc = "teardown", NEW to,
           to \notin {"idle", "passdss signature", "passdss password"},
           sock = "open" \/ to = "finish", Proceed(to)
    PROVE  SocketInv' /\ KeyInv'
BY DEF SocketInv, KeyInv, Proceed, session, locals, host, settings

LEMMA TroubleSafe ==
    ASSUME SocketInv, pc # "idle", Trouble
    PROVE  SocketInv' /\ KeyInv'
BY ReturnSafe DEF Trouble

LEMMA AuthenticatedSafe ==
    ASSUME SocketInv, pc # "idle", sock = "open", Authenticated
    PROVE  SocketInv' /\ KeyInv'
BY DEF SocketInv, KeyInv, Authenticated, session, settings

LEMMA VerdictSafe ==
    ASSUME SocketInv, pc # "idle", sock = "open", Verdict
    PROVE  SocketInv' /\ KeyInv'
BY AuthenticatedSafe, ReturnSafe, TroubleSafe DEF Verdict

LEMMA RefusedSafe ==
    ASSUME SocketInv, pc # "idle", Refused
    PROVE  SocketInv' /\ KeyInv'
BY ReturnSafe DEF Refused

\* tspAuthenticate, method by method.
LEMMA AuthenticateSafe ==
    ASSUME SocketInv, KeyInv, Authenticate
    PROVE  SocketInv' /\ KeyInv'
<1>1. CASE AuthANONYMOUS
  <2>1. pc # "idle" /\ sock = "open"
    BY <1>1 DEF AuthANONYMOUS, SocketInv
  <2>2. QED
    BY <1>1, <2>1, AuthenticatedSafe, TroubleSafe DEF AuthANONYMOUS
<1>2. CASE AuthPLAIN
  <2>1. pc # "idle" /\ sock = "open"
    BY <1>2 DEF AuthPLAIN, SocketInv
  <2>2. QED
    BY <1>2, <2>1, VerdictSafe DEF AuthPLAIN
<1>3. CASE DigestChallenge
  <2>1. pc # "idle" /\ sock = "open"
    BY <1>3 DEF DigestChallenge, SocketInv
  <2>2. CASE Proceed("digest answer")
    BY <2>1, <2>2, ProceedSafe
  <2>3. QED
    BY <1>3, <2>1, <2>2, RefusedSafe, ReturnSafe DEF DigestChallenge
<1>4. CASE DigestResponse
  <2>1. pc # "idle" /\ sock = "open"
    BY <1>4 DEF DigestResponse, SocketInv
  <2>2. CASE Refused
    BY <2>1, <2>2, RefusedSafe
  <2>3. CASE pc' = "digest verdict" /\ UNCHANGED session /\ UNCHANGED offer
    BY <2>1, <2>3 DEF SocketInv, KeyInv, session, settings
  <2>4. QED
    BY <1>4, <2>1, <2>2, <2>3, ReturnSafe DEF DigestResponse
<1>5. CASE DigestVerdict
  <2>1. pc # "idle" /\ sock = "open"
    BY <1>5 DEF DigestVerdict, SocketInv
  <2>2. QED
    BY <1>5, <2>1, VerdictSafe DEF DigestVerdict
<1>6. CASE PassdssKey
  <2>1. pc # "idle" /\ sock = "open"
    BY <1>6 DEF PassdssKey, SocketInv
  <2>2. CASE \E s : Return(s)
    BY <2>1, <2>2, ReturnSafe
  <2>3. CASE pc' = "passdss stored" /\ UNCHANGED session /\ UNCHANGED offer
    BY <2>1, <2>3 DEF SocketInv, KeyInv, session, settings
  <2>4. QED
    BY <1>6, <2>2, <2>3 DEF PassdssKey
<1>7. CASE PassdssPassword
  <2>1. pc # "idle" /\ sock = "open"
    BY <1>7 DEF PassdssPassword, SocketInv
  <2>2. QED
    BY <1>7, <2>1, VerdictSafe DEF PassdssPassword
<1>8. QED
  BY <1>1, <1>2, <1>3, <1>4, <1>5, <1>6, <1>7 DEF Authenticate

\* The key is stored, or has been before, when main goes on to the signature.
LEMMA KeyStored ==
    ASSUME SocketInv, KeyInv, add_dsakey_to_keyfile
    PROVE  SocketInv' /\ KeyInv'
<1>1. pc # "idle" /\ sock = "open"
  BY DEF add_dsakey_to_keyfile, SocketInv
<1>2. CASE is_dsakey_in_keyfile(key) = "matching" /\ Proceed("passdss signature")
  <2>1. key = keyfile
    BY <1>2 DEF is_dsakey_in_keyfile
  <2>2. QED
    BY <1>1, <1>2, <2>1 DEF SocketInv, KeyInv, Proceed, session, locals, settings
<1>3. CASE Proceed("passdss ask")
  BY <1>1, <1>3, ProceedSafe
<1>4. CASE keyfile' = key /\ pc' = "passdss signature" /\ UNCHANGED <<sock, stray, locals>>
  BY <1>1, <1>4 DEF SocketInv, KeyInv, locals
<1>5. CASE Return("ERR_AUTHENTICATION_FAILURE")
  BY <1>1, <1>5, ReturnSafe
<1>6. QED
  BY <1>2, <1>3, <1>4, <1>5 DEF add_dsakey_to_keyfile

\* The answers of the broker, from the capabilities to the offer of a tunnel.
LEMMA AnsweredSafe ==
    ASSUME SocketInv, KeyInv, Answered
    PROVE  SocketInv' /\ KeyInv'
<1>1. CASE GetCapabilities
  <2>1. pc # "idle" /\ sock = "open"
    BY <1>1 DEF GetCapabilities, SocketInv
  <2>2. CASE \E s : Return(s)
    BY <2>1, <2>2, ReturnSafe
  <2>3. CASE pc' = "authenticate" /\ UNCHANGED session /\ UNCHANGED offer
    BY <2>1, <2>3 DEF SocketInv, KeyInv, session, settings
  <2>4. QED
    BY <1>1, <2>2, <2>3 DEF GetCapabilities
<1>2. CASE Authenticate
  BY <1>2, AuthenticateSafe
<1>3. CASE Negotiate
  <2>1. pc # "idle" /\ sock = "open"
    BY <1>3 DEF Negotiate, SocketInv
  <2>2. CASE Trouble
    BY <2>1, <2>2, TroubleSafe
  <2>3. CASE pc' = "start" /\ UNCHANGED session
    BY <2>1, <2>3 DEF SocketInv, KeyInv, session, settings
  <2>4. QED
    BY <1>3, <2>1, <2>2, <2>3, ReturnSafe DEF Negotiate
<1>4. QED
  BY <1>1, <1>2, <1>3 DEF Answered

\* The steps the client takes by itself.
LEMMA ClientSafe ==
    ASSUME SocketInv, KeyInv, Client
    PROVE  SocketInv' /\ KeyInv'
<1>1. CASE GiveUp
  <2>1. pc # "idle"
    BY <1>1 DEF GiveUp, Unanswered, Exchanging
  <2>2. QED
    BY <1>1, <2>1, ReturnSafe DEF GiveUp
<1>2. CASE DigestAnswer
  <2>1. pc # "idle" /\ sock = "open"
    BY <1>2 DEF DigestAnswer, SocketInv
  <2>2. CASE Proceed("digest response")
    BY <2>1, <2>2, ProceedSafe
  <2>3. QED
    BY <1>2, <2>1, <2>2, ReturnSafe DEF DigestAnswer
<1>3. CASE PassdssBegin
  <2>1. pc # "idle" /\ sock = "open"
    BY <1>3 DEF PassdssBegin, SocketInv
  <2>2. CASE Proceed("passdss key")
    BY <2>1, <2>2, ProceedSafe
  <2>3. QED
    BY <1>3, <2>1, <2>2, ReturnSafe DEF PassdssBegin
<1>4. CASE PassdssSignature
  <2>1. pc # "idle" /\ sock = "open" /\ key = keyfile
    BY <1>4 DEF PassdssSignature, SocketInv, KeyInv
  <2>2. CASE Proceed("passdss password")
    BY <2>1, <2>2 DEF SocketInv, KeyInv, Proceed, session, locals, settings
  <2>3. QED
    BY <1>4, <2>1, <2>2, ReturnSafe DEF PassdssSignature
<1>5. CASE add_dsakey_to_keyfile
  BY <1>5, KeyStored
<1>6. CASE UpdateSourceAddr
  <2>1. pc # "idle" /\ sock = "open"
    BY <1>6 DEF UpdateSourceAddr, SocketInv
  <2>2. CASE \E s : Return(s)
    BY <2>1, <2>2, ReturnSafe
  <2>3. CASE pc' = "negotiate" /\ UNCHANGED <<sock, stray, locals>>
    BY <2>1, <2>3 DEF SocketInv, KeyInv, locals
  <2>4. QED
    BY <1>6, <2>2, <2>3 DEF UpdateSourceAddr
<1>7. CASE StartLocal
  BY <1>7 DEF StartLocal, SocketInv, KeyInv, session, settings
<1>8. CASE Validate
  BY <1>8 DEF Validate, SocketInv, KeyInv, session, settings, locals
<1>9. CASE RunCommand
  BY <1>9 DEF RunCommand, SocketInv, KeyInv, session, settings, locals
<1>10. CASE Connected
  BY <1>10 DEF Connected, Proceed, SocketInv, KeyInv, session, settings, locals
<1>11. CASE CloseTun
  BY <1>11 DEF CloseTun, SocketInv, KeyInv, session, settings, locals
<1>12. CASE TornDown
  BY <1>12 DEF TornDown, Proceed, SocketInv, KeyInv, session, settings, locals
<1>13. CASE Finish
  <2>1. pc # "idle"
    BY <1>13 DEF Finish
  <2>2. QED
    BY <1>13, <2>1, ReturnSafe DEF Finish
<1>14. QED
  BY <1>1, <1>2, <1>3, <1>4, <1>5, <1>6, <1>7, <1>8, <1>9, <1>10, <1>11, <1>12, <1>13 DEF Client

LEMMA NextSafe ==
    ASSUME SocketInv, KeyInv, [Next]_vars
    PROVE  SocketInv' /\ KeyInv'
<1>1. CASE Connect
  BY <1>1 DEF Connect, SocketInv, KeyInv
<1>2. CASE Client
  BY <1>2, ClientSafe
<1>3. CASE LoopEnds
  BY <1>3 DEF LoopEnds, CloseSocket, SocketInv, KeyInv, locals
<1>4. CASE Killed
  BY <1>4 DEF Killed, SocketInv, KeyInv
<1>5. CASE Answered
  BY <1>5, AnsweredSafe
<1>6. CASE User
  BY <1>6, KeyStored DEF User
<1>7. CASE Silence
  BY <1>7 DEF Silence, SocketInv, KeyInv, locals
<1>8. CASE Closed
  <2>1. pc # "idle"
    BY <1>8 DEF Closed, Unanswered, Exchanging
  <2>2. QED
    BY <1>8, <2>1, ReturnSafe DEF Closed
<1>9. CASE UNCHANGED vars
  BY <1>9 DEF vars, session, settings, locals, SocketInv, KeyInv
<1>10. QED
  BY <1>1, <1>2, <1>3, <1>4, <1>5, <1>6, <1>7, <1>8, <1>9 DEF Next

LEMMA InitSafe == Init => SocketInv /\ KeyInv
BY DEF Init, SocketInv, KeyInv

LEMMA AlwaysSafe == Spec => [](SocketInv /\ KeyInv)
BY InitSafe, NextSafe, PTL DEF Spec

\* No way out of tspSetupTunnel leaves the socket open, and only the end of a
\* V6UDPV4 tunnel closes it twice, whatever the broker answers.
THEOREM SocketSafe == Spec => []SocketReleased
<1>1. SocketInv => SocketReleased
  BY DEF SocketInv, SocketReleased
<1>2. QED
  BY <1>1, AlwaysSafe, PTL

\* AuthPASSDSS_3DES_1 sends the password only to a broker that shows the key
\* stored for it, whatever keys brokers showed before.
THEOREM KeySafe == Spec => []KeyPinned
<1>1. KeyInv => KeyPinned
  BY DEF KeyInv, KeyPinned
<1>2. QED
  BY <1>1, AlwaysSafe, PTL

=============================================================================
