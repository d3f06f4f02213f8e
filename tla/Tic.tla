-------------------------------- MODULE Tic --------------------------------
(***************************************************************************)
(* The TIC client of aiccu (tic.c, the line reader of common.c) as Maiccu  *)
(* uses it: TKZAiccuAdapter's doLogin thread logs in, lists the account's  *)
(* tunnels, fetches each one and logs out, once per "login" of the user.   *)
(*                                                                         *)
(* The application is one process, so the receive buffer tic_buf, a global *)
(* of tic.c, lives through all its connections.  A line is a record: the   *)
(* connection and the request it answers, what its first characters say,   *)
(* the tunnel it is about, and whether its newline is there.  The TIC      *)
(* server is external.                                                     *)
(***************************************************************************)
EXTENDS Integers, Sequences, SequencesExt

CONSTANTS
  Tunnels,       \* the tunnel ids of the account
  Listings,      \* the tunnel lists a server may send; Bad is a malformed line
  Bad,
  Limit,         \* lines that fill the caller's buffer (ubuflen - 10 bytes)
  MaxConns       \* bound: logins of one run of the application

(* What the server says about one tunnel, 13 short lines, fits the buffer. *)
ASSUME InfoFits == Limit > 3

VARIABLES
  step,               \* where the doLogin thread is
  sock, conn,       \* tic->sock: 0 or the connection; connections made so far
  wire, closed,     \* lines sent by the server and not received; it hung up
  tic_buf,          \* lines received and not yet returned, the last one perhaps in part
  granted, chal,    \* the server: requests accepted; the challenge line used
  ret,              \* what tic_Login returned
  acc, todo, cur,   \* the list being built, tunnels to fetch, the one being filled
  tunnelList, validCredentials

ticVars == <<step, sock, conn, wire, closed, tic_buf, granted, chal, ret, acc, todo, cur,
          tunnelList, validCredentials>>
server == <<closed, granted>>

NoTunnel == "none"
Line(r, c, t) == [conn |-> conn, req |-> r, code |-> c, tun |-> t, whole |-> TRUE]
Two(l) == l.code \in {"200", "201", "202", "off"}

Stages == {"welcome", "client", "unixtime", "username", "challenge", "authenticate"}
Following == [welcome |-> "client", client |-> "unixtime", unixtime |-> "username",
              username |-> "challenge", challenge |-> "authenticate"]

(* The code tic_Login returns when the server refuses a request. *)
Refused == [welcome |-> 4, client |-> 5, unixtime |-> 0, username |-> 2,
            challenge |-> 0, authenticate |-> 3]

TicInit ==
  /\ step = "idle" /\ sock = 0 /\ conn = 0 /\ wire = <<>> /\ closed = FALSE
  /\ tic_buf = <<>> /\ granted = {} /\ chal = <<>> /\ ret = 0
  /\ acc = <<>> /\ todo = <<>> /\ cur = NoTunnel
  /\ tunnelList = {} /\ validCredentials = TRUE

(***************************************************************************)
(* The server: the answers it may give to a request.  It lets nobody in    *)
(* who did not answer its own challenge.                                   *)
(***************************************************************************)
Allowed(r, c) ==
  /\ r \in {"list", "show"} => "authenticate" \in granted
  /\ r = "authenticate" => {"username", "challenge"} \subseteq granted
                           /\ c = <<Line("challenge", "200", NoTunnel)>>

Answers(r, t, c) ==
  {<<Line(r, "err", NoTunnel)>>} \cup
  (IF ~Allowed(r, c) THEN {}
   ELSE CASE r = "list" ->
               {<<Line(r, "201", NoTunnel)>> \o [i \in DOMAIN s |-> Line(r, "item", s[i])]
                \o <<Line(r, "202", NoTunnel)>> : s \in Listings}
          [] r = "show" ->
               {<<Line(r, "201", NoTunnel), Line(r, "info", t), Line(r, "202", NoTunnel)>>}
          [] r = "unixtime" -> {<<Line(r, "200", NoTunnel)>>, <<Line(r, "off", NoTunnel)>>}
          [] OTHER -> {<<Line(r, "200", NoTunnel)>>})

(* sock_printf: without a socket the text goes to the log. *)
Send(s, w, r, t, c) ==
  IF s = 0 \/ closed THEN wire' = w /\ UNCHANGED granted
  ELSE \E a \in Answers(r, t, c) :
         /\ wire' = w \o a
         /\ granted' = IF Two(Head(a)) THEN granted \cup {r} ELSE granted

(* What was not delivered yet may be lost, from the middle of a line on. *)
Cut(l) == [l EXCEPT !.whole = FALSE]
Beginnings(w) ==
  {SubSeq(w, 1, k) : k \in 0..Len(w)}
    \cup {Append(SubSeq(w, 1, k - 1), Cut(w[k])) : k \in DOMAIN w}

ServerClose ==
  /\ sock # 0 /\ ~closed /\ closed' = TRUE
  /\ wire' \in Beginnings(wire)
  /\ UNCHANGED <<step, sock, conn, tic_buf, granted, chal, ret, acc, todo, cur,
                 tunnelList, validCredentials>>

(***************************************************************************)
(* sock_getline: a line of the buffer, or else recv() until there is one.  *)
(* A recv() that fills the buffer fails, its lines stay in the buffer, and *)
(* so does the beginning of a line.                                        *)
(***************************************************************************)
Fail == [ok |-> FALSE, line |-> <<>>, buf |-> tic_buf, wire |-> wire]

(* recv() returns -1 and the unsigned filled wraps: the next search for a  *)
(* newline leaves the buffer and ends the process.                         *)
Wild == [conn |-> 0, req |-> "none", code |-> "wild", tun |-> NoTunnel, whole |-> FALSE]

(* The line that a beginning and the next line received make up: the same  *)
(* line, or one that begins like the first and says nothing else.          *)
Joined(b, l) ==
  IF b.conn = l.conn THEN l
  ELSE [b EXCEPT !.whole = l.whole, !.code = IF @ = "200" THEN "off" ELSE @]

(* The buffer, which has no whole line, after more lines. *)
Filled(lines) ==
  IF tic_buf = <<>> THEN lines
  ELSE IF lines = <<>> THEN tic_buf
  ELSE <<Joined(tic_buf[1], lines[1])>> \o Tail(lines)

(* k lines were received, and with "more" the beginning of the next. *)
Received(k, more) ==
  LET got == Filled(SubSeq(wire, 1, k) \o IF more THEN <<Cut(wire[k + 1])>> ELSE <<>>)
      rest == SubSeq(wire, k + 1, Len(wire))
  IN  IF k >= Limit THEN [Fail EXCEPT !.buf = got, !.wire = rest]
      ELSE [ok |-> TRUE, line |-> Head(got), buf |-> Tail(got), wire |-> rest]

recv ==
  {Received(k, FALSE) : k \in {i \in DOMAIN wire : wire[i].whole}}
    \cup {Received(k, TRUE) : k \in {i \in DOMAIN wire : i < Len(wire)}}
    \cup {[Fail EXCEPT !.buf = IF tic_buf = <<>> THEN <<Wild>> ELSE tic_buf]}
    \cup (IF closed /\ \A i \in DOMAIN wire : ~wire[i].whole
          THEN {[Fail EXCEPT !.buf = Filled(wire), !.wire = <<>>]} ELSE {})

sock_getline ==
  IF sock = 0 THEN {Fail}
  ELSE IF tic_buf = <<Wild>> THEN {}
  ELSE IF tic_buf # <<>> /\ Head(tic_buf).whole
    THEN {[ok |-> TRUE, line |-> Head(tic_buf), buf |-> Tail(tic_buf), wire |-> wire]}
  ELSE recv

(***************************************************************************)
(* tic_Login.                                                              *)
(***************************************************************************)
(* loginToTicServer hands on every code but "true", and doLogin takes zero *)
(* for success: it then asks for the list.                                 *)
LoginReturns(code, s, w) ==
  /\ ret' = code /\ sock' = s
  /\ IF code \in {0, 1}
     THEN step' = "list" /\ Send(s, w, "list", NoTunnel, <<>>)
     ELSE step' = "logout" /\ wire' = w /\ UNCHANGED granted
  /\ tunnelList' = {}
  /\ UNCHANGED <<conn, closed, chal, acc, todo, cur, validCredentials>>

tic_Login ==
  /\ step = "idle" /\ conn < MaxConns
  /\ step' = "welcome" /\ conn' = conn + 1 /\ sock' = conn + 1 /\ closed' = FALSE
  /\ \E c \in {"200", "err"} :
       wire' = <<[conn |-> conn + 1, req |-> "welcome", code |-> c, tun |-> NoTunnel,
                  whole |-> TRUE]>>
  /\ granted' = {} /\ chal' = <<>>
  /\ UNCHANGED <<tic_buf, ret, acc, todo, cur, tunnelList, validCredentials>>

ConnectFails ==
  step = "idle" /\ conn < MaxConns /\ LoginReturns(0, 0, <<>>) /\ UNCHANGED tic_buf

(* tic_Logout is called for a refused or unread authentication only. *)
AfterFailure(s) == IF s = "authenticate" THEN 0 ELSE sock

LoginUnread(s) ==
  /\ step = s
  /\ \E r \in sock_getline :
       /\ ~r.ok /\ tic_buf' = r.buf
       /\ LoginReturns(0, AfterFailure(s), r.wire)

LoginRefused(s) ==
  /\ step = s
  /\ \E r \in sock_getline :
       /\ r.ok /\ ~Two(r.line) /\ tic_buf' = r.buf
       /\ LoginReturns(Refused[s], AfterFailure(s), r.wire)

(* Mutant: a text that is no number counts as the current time. *)
SlipCheckTime(l) == l.code # "off"

(* tic_checktime of the number after the code: 0 in an answer that has none. *)
tic_checktime(l) == l.req = "unixtime" /\ l.code = "200"

LoginClockOff ==
  /\ step = "unixtime"
  /\ \E r \in sock_getline :
       /\ r.ok /\ Two(r.line) /\ ~tic_checktime(r.line) /\ tic_buf' = r.buf
       /\ LoginReturns(6, 0, <<>>)

LoginNext(s) ==
  /\ step = s /\ s # "authenticate"
  /\ \E r \in sock_getline :
       /\ r.ok /\ Two(r.line) /\ (s = "unixtime" => tic_checktime(r.line))
       /\ tic_buf' = r.buf /\ step' = Following[s]
       /\ chal' = IF s = "challenge" THEN <<r.line>> ELSE chal
       /\ Send(sock, r.wire, Following[s], NoTunnel, chal')
  /\ UNCHANGED <<sock, conn, closed, ret, acc, todo, cur, tunnelList, validCredentials>>

LoginDone ==
  /\ step = "authenticate"
  /\ \E r \in sock_getline :
       r.ok /\ Two(r.line) /\ tic_buf' = r.buf /\ LoginReturns(1, sock, r.wire)

(***************************************************************************)
(* tic_ListTunnels and tic_GetTunnel, called by doLogin.                   *)
(***************************************************************************)
(* requestTunnelInfoForTunnel for the next tunnel, or the end of the loop. *)
NextShow(ts, w) ==
  IF ts = <<>>
  THEN step' = "logout" /\ wire' = w /\ UNCHANGED granted
  ELSE step' = "show" /\ Send(sock, w, "show", Head(ts), <<>>)

(* requestTunnelList returned: its entries, none for NULL. *)
Listed(ts, w) ==
  /\ tunnelList' = {[id |-> t.tun, conn |-> t.conn, of |-> NoTunnel] : t \in ToSet(ts)}
  /\ todo' = [i \in DOMAIN ts |-> ts[i].tun]
  /\ acc' = <<>> /\ NextShow(todo', w)

ListStart ==
  /\ step = "list"
  /\ \E r \in sock_getline :
       /\ tic_buf' = r.buf
       /\ IF r.ok /\ r.line.code = "201"
          THEN step' = "items" /\ wire' = r.wire /\ UNCHANGED <<granted, tunnelList, todo, acc>>
          ELSE Listed(<<>>, r.wire)
  /\ UNCHANGED <<sock, conn, closed, chal, ret, cur, validCredentials>>

(* Four fields: an item line, or a line of another answer that has four. *)
ListItem ==
  /\ step = "items"
  /\ \E r \in sock_getline :
       /\ tic_buf' = r.buf
       /\ IF r.ok /\ r.line.code = "item" /\ r.line.tun # Bad
          THEN /\ acc' = Append(acc, r.line) /\ wire' = r.wire
               /\ UNCHANGED <<step, granted, tunnelList, todo>>
          ELSE Listed(IF r.ok /\ r.line.code = "202" THEN acc ELSE <<>>, r.wire)
  /\ UNCHANGED <<sock, conn, closed, chal, ret, cur, validCredentials>>

Shown(t, l) ==
  {IF e.id = Head(l) THEN [e EXCEPT !.of = t] ELSE e : e \in tunnelList}

GotTunnel(t, w) ==
  /\ tunnelList' = Shown(t, todo)
  /\ todo' = Tail(todo) /\ cur' = NoTunnel /\ NextShow(todo', w)

ShowStart ==
  /\ step = "show"
  /\ \E r \in sock_getline :
       /\ tic_buf' = r.buf
       /\ IF r.ok /\ r.line.code = "201"
          THEN step' = "info" /\ wire' = r.wire /\ UNCHANGED <<granted, tunnelList, todo, cur>>
          ELSE GotTunnel(NoTunnel, r.wire)
  /\ UNCHANGED <<sock, conn, closed, chal, ret, acc, validCredentials>>

(* parseline ignores a line that matches no rule. *)
ShowInfo ==
  /\ step = "info"
  /\ \E r \in sock_getline :
       /\ tic_buf' = r.buf
       /\ IF r.ok /\ r.line.code # "202"
          THEN /\ cur' = IF r.line.code = "info" THEN r.line.tun ELSE cur
               /\ wire' = r.wire /\ UNCHANGED <<step, granted, tunnelList, todo>>
          ELSE GotTunnel(IF r.ok THEN cur ELSE NoTunnel, r.wire)
  /\ UNCHANGED <<sock, conn, closed, chal, ret, acc, validCredentials>>

(* The end of doLogin: the verdict, tic_Logout and the notification. *)
tic_Logout ==
  /\ step = "logout" /\ step' = "idle"
  /\ validCredentials' = (ret \in {0, 1})
  /\ sock' = 0 /\ wire' = <<>> /\ closed' = FALSE
  /\ UNCHANGED <<conn, tic_buf, granted, chal, ret, acc, todo, cur, tunnelList>>

TicNext ==
  \/ tic_Login \/ ConnectFails \/ LoginClockOff \/ LoginDone \/ ListStart \/ ListItem
  \/ ShowStart \/ ShowInfo \/ tic_Logout \/ ServerClose
  \/ \E s \in Stages : LoginUnread(s) \/ LoginRefused(s) \/ LoginNext(s)

TicSpec == TicInit /\ [][TicNext]_ticVars

----------------------------------------------------------------------------
TicTypeOK ==
  /\ step \in Stages \cup {"idle", "list", "items", "show", "info", "logout"}
  /\ sock \in {0, conn} /\ conn \in 0..MaxConns /\ closed \in BOOLEAN
  /\ ret \in 0..6 /\ cur \in Tunnels \cup {NoTunnel} /\ validCredentials \in BOOLEAN

(* tic_Login returns true only when the server accepted the response on    *)
(* this connection and nothing of an earlier answer is left unread, though *)
(* tic_buf may hold lines of an earlier connection when it starts.         *)
LoginInStep ==
  step = "list" /\ ret = 1 =>
    /\ "authenticate" \in granted
    /\ \A l \in ToSet(tic_buf \o wire) : l.conn = conn /\ l.req = "list"

(* The sheet reports "Successfully completed." only when the server        *)
(* accepted the user name and the password of this login.                  *)
CredentialsChecked ==
  [][step = "logout" /\ step' = "idle" /\ validCredentials' => "authenticate" \in granted]_ticVars
============================================================================
