----------------------------- MODULE HttpsRequest -----------------------------
(***************************************************************************)
(* The HTTPS request of a test, send_https_test_raw, call by call, against *)
(* a site that may refuse, answer in pieces, fall silent, close or reset   *)
(* the connection at any point.  NfqwsRun and Testing know the request by  *)
(* its outcome only.  Its caller asks for port 443 and for a domain that   *)
(* is there and fits the request, so the branches for others are left out. *)
(*                                                                         *)
(* Time is not modelled: a wait with a timeout ends with what it waits for *)
(* or, as long as that is not there, without it.                           *)
(***************************************************************************)
EXTENDS Integers, Sequences

CONSTANTS
  Statuses,     \* the status codes a site may answer with
  MaxTickets    \* the session tickets it may send

ASSUME SiteOK ==
  /\ Statuses \subseteq 100 .. 599
  /\ MaxTickets \in Nat

VARIABLES
  pc,
  held,       \* what is allocated and not yet given back
  known,      \* what the locals sock, addr_res, ssl_ctx and ssl refer to
  nonblock,   \* O_NONBLOCK of the socket
  res,        \* the result
  peer,       \* the site: how far the connection has come
  gone,       \* how the site has ended it, if it has
  status,     \* the status code it answers with, 0 before
  tickets,    \* how many tickets it has sent
  inbox       \* TLS records that have arrived and are not read

localVars == <<held, known, nonblock, res>>
peerVars  == <<peer, gone, status, tickets>>
vars      == <<pc, localVars, peerVars, inbox>>

Resources == {"addr_res", "sock", "ssl_ctx", "ssl"}

\* A record without an answer: the tickets of TLS 1.3.
Ticket == -1
Records == {Ticket} \cup 0 .. 599

\* What sscanf finds of a status code when the record ends after some of its digits.
\* (0 stands for a record in which it finds no code.)
FirstDigits(code, digits) == code \div (CASE digits = 0 -> 1000 [] digits = 1 -> 100
                                          [] digits = 2 -> 10   [] digits = 3 -> 1)

Init ==
  /\ pc = "resolve"
  /\ held = {} /\ known = {}
  /\ nonblock = FALSE
  /\ res = [tcp_connected |-> FALSE, data_received |-> FALSE, http_code |-> 0, success |-> FALSE]
  /\ peer = "none" /\ gone = "no" /\ status = 0 /\ tickets = 0
  /\ inbox = << >>

-----------------------------------------------------------------------------
(* The site.                                                               *)

\* It accepts the connection.
Accept ==
  /\ pc = "connecting" /\ peer = "none"
  /\ peer' = "accepted"
  /\ UNCHANGED <<pc, localVars, gone, status, tickets, inbox>>

\* Its part of the TLS handshake is done, or the request has reached it.
Shake ==
  /\ pc = "handshake" /\ peer = "accepted" /\ gone = "no"
  /\ peer' = "shaken"
  /\ UNCHANGED <<pc, localVars, gone, status, tickets, inbox>>

SendsTicket ==
  /\ peer \in {"shaken", "asked"} /\ gone = "no"
  /\ tickets < MaxTickets
  /\ tickets' = tickets + 1
  /\ inbox' = Append(inbox, Ticket)
  /\ UNCHANGED <<pc, localVars, peer, gone, status>>

\* The first record of the answer, which may end within the status line.
Answers ==
  /\ peer = "asked" /\ gone = "no"
  /\ \E code \in Statuses, digits \in 0 .. 3 :
       /\ status' = code
       /\ inbox' = Append(inbox, FirstDigits(code, digits))
  /\ peer' = "answering"
  /\ UNCHANGED <<pc, localVars, gone, tickets>>

\* It closes the connection, and resets it then or at once.
Leaves ==
  /\ peer # "none" /\ gone # "reset"
  /\ gone' \in {"closed", "reset"}
  /\ UNCHANGED <<pc, localVars, peer, status, tickets, inbox>>

Site == Accept \/ Shake \/ SendsTicket \/ Answers \/ Leaves

-----------------------------------------------------------------------------
(* send_https_test_raw.  A failure goes to the label cleanup.              *)

At(l)   == pc = l
Goto(l) == pc' = l

Allocates(r) == held' = held \cup {r} /\ known' = known \cup {r}

\* resolve_domain; without an address there is nothing to give back.
Resolve ==
  /\ At("resolve")
  /\ \/ Allocates("addr_res") /\ Goto("socket")
     \/ UNCHANGED <<held, known>> /\ Goto("returned")
  /\ UNCHANGED <<nonblock, res, peerVars, inbox>>

\* Mutant: the socket is not closed when it cannot be marked.
socket_leaks ==
  /\ At("socket")
  /\ \/ Allocates("sock") /\ Goto("fcntl")
     \/ UNCHANGED <<held, known>> /\ Goto("cleanup")
     \/ held' = held \cup {"sock"} /\ UNCHANGED known /\ Goto("cleanup")
  /\ UNCHANGED <<nonblock, res, peerVars, inbox>>

\* socket(), and SO_MARK, without which the socket is closed again.
socket_with_mark ==
  /\ At("socket")
  /\ \/ Allocates("sock") /\ Goto("fcntl")
     \/ UNCHANGED <<held, known>> /\ Goto("cleanup")
  /\ UNCHANGED <<nonblock, res, peerVars, inbox>>

\* connect_with_timeout: the flags of the socket, ...
SetNonblock ==
  /\ At("fcntl")
  /\ \/ nonblock' = TRUE /\ Goto("connecting")
     \/ UNCHANGED nonblock /\ Goto("cleanup")
  /\ UNCHANGED <<held, known, res, peerVars, inbox>>

\* Mutant: only the failing paths restore the flags.
StaysNonblock ==
  /\ At("connecting") /\ peer = "accepted" /\ gone # "reset"
  /\ res' = [res EXCEPT !.tcp_connected = TRUE]
  /\ Goto("ssl_ctx")
  /\ UNCHANGED <<held, known, nonblock, peerVars, inbox>>

\* ... a connection, within five seconds, or not, ...
Connects ==
  /\ At("connecting") /\ peer = "accepted" /\ gone # "reset"
  /\ nonblock' = FALSE
  /\ res' = [res EXCEPT !.tcp_connected = TRUE]
  /\ Goto("ssl_ctx")
  /\ UNCHANGED <<held, known, peerVars, inbox>>

ConnectFails ==
  /\ At("connecting") /\ (peer = "none" \/ gone = "reset")
  /\ nonblock' = FALSE
  /\ Goto("cleanup")
  /\ UNCHANGED <<held, known, res, peerVars, inbox>>

\* SSL_CTX_new, SSL_new, and the two settings of it that may fail.
NewContext ==
  /\ At("ssl_ctx")
  /\ \/ Allocates("ssl_ctx") /\ Goto("ssl")
     \/ UNCHANGED <<held, known>> /\ Goto("cleanup")
  /\ UNCHANGED <<nonblock, res, peerVars, inbox>>

NewSsl ==
  /\ At("ssl")
  /\ \/ Allocates("ssl") /\ pc' \in {"handshake", "cleanup"}
     \/ UNCHANGED <<held, known>> /\ Goto("cleanup")
  /\ UNCHANGED <<nonblock, res, peerVars, inbox>>

\* SSL_connect.
Handshake ==
  /\ At("handshake")
  /\ Goto(IF peer = "shaken" THEN "write" ELSE "cleanup")
  /\ UNCHANGED <<localVars, peerVars, inbox>>

\* SSL_write, which succeeds when the kernel takes the request.
Write ==
  /\ At("write")
  /\ IF gone = "reset" THEN Goto("cleanup") ELSE Goto("poll")
  /\ peer' = IF gone = "no" THEN "asked" ELSE peer
  /\ UNCHANGED <<localVars, gone, status, tickets, inbox>>

Readable == inbox # << >> \/ gone # "no"

\* Mutant: it waits again.
WaitsAgain ==
  /\ At("poll")
  /\ Goto(IF Readable THEN "read" ELSE "poll")
  /\ UNCHANGED <<localVars, peerVars, inbox>>

\* poll(): something has arrived, if only the end of the connection, or five seconds
\* have passed.
PollAnswer ==
  /\ At("poll")
  /\ Goto(IF Readable THEN "read" ELSE "cleanup")
  /\ UNCHANGED <<localVars, peerVars, inbox>>

\* SSL_read goes on after a ticket, ...
ReadTicket ==
  /\ At("read")
  /\ inbox # << >> /\ Head(inbox) = Ticket
  /\ inbox' = Tail(inbox)
  /\ UNCHANGED <<pc, localVars, peerVars>>

\* Mutant: anything below 400 is a success.
Below400(code) == code < 400

is_success(code) == code >= 200 /\ code < 400

\* ... returns with what one record holds, which is all that is looked at, ...
ReadRecord ==
  /\ At("read")
  /\ inbox # << >> /\ Head(inbox) # Ticket
  /\ LET code == Head(inbox) IN
       res' = [res EXCEPT !.data_received = TRUE, !.http_code = code, !.success = is_success(code)]
  /\ inbox' = Tail(inbox)
  /\ Goto("cleanup")
  /\ UNCHANGED <<held, known, nonblock, peerVars>>

\* ... or fails, after five seconds or because the connection is over.
ReadFails ==
  /\ At("read")
  /\ inbox = << >>
  /\ Goto("cleanup")
  /\ UNCHANGED <<localVars, peerVars, inbox>>

Cleanup ==
  /\ At("cleanup")
  /\ held' = held \ known
  /\ known' = {}
  /\ Goto("returned")
  /\ UNCHANGED <<nonblock, res, peerVars, inbox>>

\* SSL_connect and SSL_write write to the connection, and so does SSL_shutdown after a
\* handshake.  When the site has reset it, that may raise SIGPIPE, which the program
\* neither handles nor ignores.
WritesTls ==
  \/ At("handshake") \/ At("write")
  \/ At("cleanup") /\ peer \in {"shaken", "asked", "answering"}

Dies ==
  /\ WritesTls
  /\ gone = "reset"
  /\ Goto("killed")
  /\ UNCHANGED <<localVars, peerVars, inbox>>

send_https_test_raw ==
  \/ Resolve \/ socket_with_mark \/ SetNonblock \/ Connects \/ ConnectFails
  \/ NewContext \/ NewSsl \/ Handshake \/ Write \/ PollAnswer
  \/ ReadTicket \/ ReadRecord \/ ReadFails \/ Cleanup

Next == send_https_test_raw \/ Dies \/ Site

\* The test thread goes on; nothing is assumed of the site.
Spec == Init /\ [][Next]_vars /\ WF_vars(send_https_test_raw)

-----------------------------------------------------------------------------
\* Type invariant: labels, resources and what the site may have sent.
TypeOK ==
  /\ pc \in {"resolve", "socket", "fcntl", "connecting", "ssl_ctx", "ssl", "handshake",
             "write", "poll", "read", "cleanup", "returned", "killed"}
  /\ held \subseteq Resources /\ known \subseteq Resources
  /\ nonblock \in BOOLEAN
  /\ res \in [tcp_connected : BOOLEAN, data_received : BOOLEAN, http_code : 0 .. 599,
              success : BOOLEAN]
  /\ peer \in {"none", "accepted", "shaken", "asked", "answering"}
  /\ gone \in {"no", "closed", "reset"}
  /\ status \in Statuses \cup {0}
  /\ tickets \in 0 .. MaxTickets
  /\ inbox \in Seq(Records)

\* Whichever of its thirteen exits it takes, and whatever the site did, the function
\* has given back all it allocated, and nothing else.
Released == known \subseteq held /\ (pc = "returned" => held = {})

\* SSL_connect, SSL_write and SSL_read wait: the socket is in blocking mode again by
\* then.  (Otherwise the handshake would fail at once, for every strategy.)
WaitsForTheSite == pc \in {"handshake", "write", "poll", "read"} => ~nonblock

\* A request that counts as successful was answered, completely enough: a code cut
\* off by the end of a record is never taken for one from 200 to 399.
SuccessEarned == res.success => status \in 200 .. 399 /\ res.http_code = status

\* It returns, unless SIGPIPE ends the program, although the site may stop anywhere.
Returns == <>(pc \in {"returned", "killed"})

-----------------------------------------------------------------------------
(* What the repository says, and the code does not do.                     *)

\* testing_profiles.c:562: "FAIL: site not accessible, no desync", which is logged
\* when there was no success.
AnsweredIsAccessible ==
  pc = "returned" /\ res.data_received /\ status \in 200 .. 399 => res.success

\* testing_profiles.c:91: "SUCCESS: http_code=2xx".
SuccessIs2xx == res.success => res.http_code \in 200 .. 299

\* README.md:185, of the status FAIL: "Strategy broke the connection or doesn't help";
\* a broken connection ends the test, not the program.
BrokenIsFail == pc # "killed"
=============================================================================
