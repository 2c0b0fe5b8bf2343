------------------------------ MODULE HttpsProof ------------------------------
(***************************************************************************)
(* Proofs about HttpsRequest, for any site: the request gives back what it *)
(* allocates, it waits in blocking mode, and a success is what the site    *)
(* answered.  The last needs to know where each record in the inbox comes  *)
(* from, which is what RecordInv says.                                     *)
(***************************************************************************)
EXTENDS HttpsRequest, TLAPS

\* The locals know of every allocation, and nothing is left at the return, not even at
\* the one without an address.
HeldInv == known = held /\ (pc \in {"resolve", "returned"} => held = {})

\* connect_with_timeout leaves the socket as it found it.
ModeInv == nonblock => pc = "connecting"

\* A record without ticket is the beginning of the answer, which is given once.
FromSite(x) ==
  x = Ticket \/ (peer = "answering" /\ status \in Statuses
                  /\ \E digits \in 0 .. 3 : x = FirstDigits(status, digits))

RecordInv ==
  /\ \A k \in 1 .. Len(inbox) : FromSite(inbox[k])
  /\ res.success => peer = "answering" /\ status \in 200 .. 399 /\ res.http_code = status

\* The site is asked once.
AskInv ==
  peer \in {"asked", "answering"} =>
    pc \in {"poll", "read", "cleanup", "returned", "killed"}

IInv == TypeOK /\ HeldInv /\ ModeInv /\ RecordInv /\ AskInv

\* A code of three digits that was cut short is below 100.
LEMMA Digits ==
  ASSUME NEW code \in 100 .. 599, NEW digits \in 0 .. 3
  PROVE  /\ FirstDigits(code, digits) \in 0 .. 599
         /\ FirstDigits(code, digits) = code \/ FirstDigits(code, digits) < 100
<1>1. CASE digits = 0
  <2>1. FirstDigits(code, digits) = code \div 1000
    BY <1>1 DEF FirstDigits
  <2> QED
    BY <2>1
<1>2. CASE digits = 1
  <2>1. FirstDigits(code, digits) = code \div 100
    BY <1>2 DEF FirstDigits
  <2> QED
    BY <2>1
<1>3. CASE digits = 2
  <2>1. FirstDigits(code, digits) = code \div 10
    BY <1>3 DEF FirstDigits
  <2> QED
    BY <2>1
<1>4. CASE digits = 3
  <2>1. FirstDigits(code, digits) = code \div 1
    BY <1>4 DEF FirstDigits
  <2> QED
    BY <2>1
<1> QED
  BY <1>1, <1>2, <1>3, <1>4

\* So with the codes of the site.
LEMMA DigitsSent ==
  \A code \in Statuses : \A digits \in 0 .. 3 :
    /\ FirstDigits(code, digits) \in Records
    /\ FirstDigits(code, digits) = code \/ FirstDigits(code, digits) < 100
<1> TAKE code \in Statuses
<1> TAKE digits \in 0 .. 3
<1>1. code \in 100 .. 599
  BY SiteOK
<1>2. /\ FirstDigits(code, digits) \in 0 .. 599
      /\ FirstDigits(code, digits) = code \/ FirstDigits(code, digits) < 100
  BY <1>1, Digits, Zenon
<1> QED
  BY <1>2, Zenon DEF Records

\* The result keeps its type under the updates that are made of it.
Outcomes ==
  [tcp_connected : BOOLEAN, data_received : BOOLEAN, http_code : 0 .. 599, success : BOOLEAN]

LEMMA OutcomeConnected == \A r \in Outcomes : [r EXCEPT !.tcp_connected = TRUE] \in Outcomes
BY DEF Outcomes

LEMMA OutcomeBuilt ==
  \A connected \in BOOLEAN, code \in 0 .. 599, ok \in BOOLEAN :
    [tcp_connected |-> connected, data_received |-> TRUE, http_code |-> code, success |-> ok]
      \in Outcomes
BY Zenon DEF Outcomes

LEMMA InitIInv == Init => IInv
<1> SUFFICES ASSUME Init PROVE IInv
  OBVIOUS
<1>1. inbox \in Seq(Records) /\ Len(inbox) = 0
  BY DEF Init
<1>2. res.success = FALSE /\ tickets \in 0 .. MaxTickets
  BY SiteOK DEF Init
<1>3. TypeOK
  <2>1. res \in [tcp_connected : BOOLEAN, data_received : BOOLEAN, http_code : 0 .. 599,
                success : BOOLEAN]
    BY DEF Init
  <2>2. held \in SUBSET Resources /\ known \in SUBSET Resources /\ nonblock \in BOOLEAN
    BY DEF Init
  <2> QED
    BY <1>1, <1>2, <2>1, <2>2 DEF Init, TypeOK
<1>4. HeldInv /\ ModeInv /\ AskInv
  BY DEF Init, HeldInv, ModeInv, AskInv
<1>5. RecordInv
  BY <1>1, <1>2 DEF RecordInv
<1> QED
  BY <1>3, <1>4, <1>5 DEF IInv

\* A step of the request that changes at most its label and its locals.
LEMMA LocalType ==
  ASSUME TypeOK, UNCHANGED <<peerVars, inbox>>,
         pc' \in {"socket", "fcntl", "connecting", "ssl_ctx", "ssl", "handshake", "cleanup",
                 "returned"},
         held' \subseteq Resources, known' \subseteq Resources, nonblock' \in BOOLEAN,
         res' = res \/ res' = [res EXCEPT !.tcp_connected = TRUE]
  PROVE  TypeOK'
<1>1. res' \in Outcomes
  <2>1. res \in Outcomes
    BY DEF TypeOK, Outcomes
  <2> QED
    BY <2>1, OutcomeConnected
<1>2. /\ peer' = peer /\ gone' = gone /\ status' = status /\ tickets' = tickets
      /\ inbox' = inbox
  BY DEF peerVars
<1> QED
  BY <1>1, <1>2 DEF TypeOK, Outcomes

\* The steps that touch neither the inbox nor what RecordInv relates it to.
LEMMA SameRecords ==
  ASSUME RecordInv, UNCHANGED <<inbox, status>>, res'.success = res.success,
         res'.http_code = res.http_code,
         peer' = peer \/ peer # "answering"
  PROVE  RecordInv'
<1>1. ~ (peer = "answering") => \A k \in 1 .. Len(inbox) : inbox[k] = Ticket
  BY DEF RecordInv, FromSite
<1>2. CASE peer' = peer
  BY <1>2 DEF RecordInv, FromSite
<1>3. CASE peer # "answering"
  BY <1>1, <1>3 DEF RecordInv, FromSite
<1> QED
  BY <1>2, <1>3

LEMMA StepIInv == IInv /\ [Next]_vars => IInv'
<1> SUFFICES ASSUME IInv, [Next]_vars PROVE IInv'
  OBVIOUS
<1> USE DEF IInv, At, Goto, Resources
<1>0. TypeOK /\ HeldInv /\ ModeInv /\ RecordInv /\ AskInv
  OBVIOUS
<1>1. CASE Accept
  <2>1. TypeOK' /\ HeldInv' /\ ModeInv' /\ AskInv'
    BY <1>1 DEF Accept, localVars, TypeOK, HeldInv, ModeInv, AskInv
  <2>2. RecordInv'
    BY <1>1, SameRecords DEF Accept, localVars
  <2> QED
    BY <2>1, <2>2
<1>2. CASE Shake
  <2>1. TypeOK' /\ HeldInv' /\ ModeInv' /\ AskInv'
    BY <1>2 DEF Shake, localVars, TypeOK, HeldInv, ModeInv, AskInv
  <2>2. RecordInv'
    BY <1>2, SameRecords DEF Shake, localVars
  <2> QED
    BY <2>1, <2>2
<1>3. CASE SendsTicket
  <2>1. TypeOK' /\ HeldInv' /\ ModeInv' /\ AskInv'
    BY <1>3, SiteOK DEF SendsTicket, localVars, TypeOK, HeldInv, ModeInv, AskInv, Records, Ticket
  <2>2. \A k \in 1 .. Len(inbox') : inbox'[k] = Ticket \/ (FromSite(inbox[k]) /\ inbox'[k] = inbox[k])
    <3>1. inbox \in Seq(Records) /\ inbox' = Append(inbox, Ticket)
      BY <1>3 DEF SendsTicket, TypeOK
    <3>2. Ticket \in Records
      BY DEF Records
    <3>3. \A k \in 1 .. Len(inbox) : FromSite(inbox[k])
      BY DEF RecordInv
    <3> QED
      <4> TAKE k \in 1 .. Len(inbox')
      <4>1. CASE k = Len(inbox')
        <5>1. \A x \in Records : Append(inbox, x)[Len(inbox) + 1] = x
                                 /\ Len(Append(inbox, x)) = Len(inbox) + 1
          BY <3>1
        <5>2. inbox'[k] = Ticket
          BY <3>1, <3>2, <4>1, <5>1
        <5> QED
          BY <5>2
      <4>2. CASE k # Len(inbox')
        <5>1. k \in 1 .. Len(inbox) /\ inbox'[k] = inbox[k]
          BY <3>1, <3>2, <4>2
        <5> QED
          BY <3>3, <5>1
      <4> QED
        BY <4>1, <4>2
  <2>3. RecordInv'
    BY <1>3, <2>2 DEF SendsTicket, localVars, RecordInv, FromSite
  <2> QED
    BY <2>1, <2>3
<1>4. CASE Answers
  <2>1. PICK code \in Statuses, digits \in 0 .. 3 :
          status' = code /\ inbox' = Append(inbox, FirstDigits(code, digits))
    BY <1>4 DEF Answers
  <2>3. FirstDigits(code, digits) \in Records
    BY DigitsSent
  <2>4. TypeOK' /\ HeldInv' /\ ModeInv' /\ AskInv'
    BY <1>4, <2>1, <2>3 DEF Answers, localVars, TypeOK, HeldInv, ModeInv, AskInv
  <2>5. ~res.success /\ \A k \in 1 .. Len(inbox) : inbox[k] = Ticket
    BY <1>4 DEF Answers, RecordInv, FromSite
  <2>6. inbox \in Seq(Records)
    BY DEF TypeOK
  <2> DEFINE first == FirstDigits(code, digits)
  <2>7. \A k \in 1 .. Len(inbox') : inbox'[k] = Ticket \/ inbox'[k] = first
    <3> HIDE DEF first
    <3> QED
      BY <2>1, <2>5, <2>6, <2>3 DEF first
  <2>8. peer' = "answering" /\ res' = res
    BY <1>4 DEF Answers, localVars
  <2>9. RecordInv'
    BY <2>1, <2>5, <2>7, <2>8 DEF RecordInv, FromSite
  <2> QED
    BY <2>4, <2>9
<1>5. CASE Leaves
  <2>1. TypeOK' /\ HeldInv' /\ ModeInv' /\ AskInv'
    BY <1>5 DEF Leaves, localVars, TypeOK, HeldInv, ModeInv, AskInv
  <2>2. RecordInv'
    BY <1>5, SameRecords DEF Leaves, localVars
  <2> QED
    BY <2>1, <2>2
<1>6. CASE Resolve
  <2>1. TypeOK' /\ HeldInv' /\ ModeInv' /\ AskInv'
    <3>1. TypeOK'
      <4>1. held \subseteq Resources /\ known \subseteq Resources /\ nonblock \in BOOLEAN
        BY DEF TypeOK
      <4>2. held' \subseteq Resources /\ known' \subseteq Resources /\ nonblock' \in BOOLEAN
        BY <1>6, <4>1 DEF Resolve, Allocates
      <4> QED
        BY <1>6, <4>2, LocalType DEF Resolve
    <3>2. HeldInv'
      BY <1>6 DEF Resolve, Allocates, HeldInv
    <3>3. ModeInv'
      BY <1>6 DEF Resolve, ModeInv
    <3>4. AskInv'
      BY <1>6 DEF Resolve, peerVars, AskInv
    <3> QED
      BY <3>1, <3>2, <3>3, <3>4
  <2>2. RecordInv'
    BY <1>6, SameRecords DEF Resolve, peerVars
  <2> QED
    BY <2>1, <2>2
<1>7. CASE socket_with_mark
  <2>1. TypeOK' /\ HeldInv' /\ ModeInv' /\ AskInv'
    <3>1. TypeOK'
      <4>1. held \subseteq Resources /\ known \subseteq Resources /\ nonblock \in BOOLEAN
        BY DEF TypeOK
      <4>2. held' \subseteq Resources /\ known' \subseteq Resources /\ nonblock' \in BOOLEAN
        BY <1>7, <4>1 DEF socket_with_mark, Allocates
      <4> QED
        BY <1>7, <4>2, LocalType DEF socket_with_mark
    <3>2. HeldInv'
      BY <1>7 DEF socket_with_mark, Allocates, HeldInv
    <3>3. ModeInv'
      BY <1>7 DEF socket_with_mark, ModeInv
    <3>4. AskInv'
      BY <1>7 DEF socket_with_mark, peerVars, AskInv
    <3> QED
      BY <3>1, <3>2, <3>3, <3>4
  <2>2. RecordInv'
    BY <1>7, SameRecords DEF socket_with_mark, peerVars
  <2> QED
    BY <2>1, <2>2
<1>8. CASE SetNonblock
  <2>1. TypeOK' /\ HeldInv' /\ ModeInv' /\ AskInv'
    <3>1. TypeOK'
      <4>1. held \subseteq Resources /\ known \subseteq Resources /\ nonblock \in BOOLEAN
        BY DEF TypeOK
      <4>2. held' \subseteq Resources /\ known' \subseteq Resources /\ nonblock' \in BOOLEAN
        BY <1>8, <4>1 DEF SetNonblock
      <4> QED
        BY <1>8, <4>2, LocalType DEF SetNonblock
    <3>2. HeldInv'
      BY <1>8 DEF SetNonblock, HeldInv
    <3>3. ModeInv'
      BY <1>8 DEF SetNonblock, ModeInv
    <3>4. AskInv'
      BY <1>8 DEF SetNonblock, peerVars, AskInv
    <3> QED
      BY <3>1, <3>2, <3>3, <3>4
  <2>2. RecordInv'
    BY <1>8, SameRecords DEF SetNonblock, peerVars
  <2> QED
    BY <2>1, <2>2
<1>9. CASE Connects
  <2>1. TypeOK' /\ HeldInv' /\ ModeInv' /\ AskInv'
    <3>1. TypeOK'
      <4>1. held \subseteq Resources /\ known \subseteq Resources /\ nonblock \in BOOLEAN
        BY DEF TypeOK
      <4>2. held' \subseteq Resources /\ known' \subseteq Resources /\ nonblock' \in BOOLEAN
        BY <1>9, <4>1 DEF Connects
      <4> QED
        BY <1>9, <4>2, LocalType DEF Connects
    <3>2. HeldInv'
      BY <1>9 DEF Connects, HeldInv
    <3>3. ModeInv'
      BY <1>9 DEF Connects, ModeInv
    <3>4. AskInv'
      BY <1>9 DEF Connects, peerVars, AskInv
    <3> QED
      BY <3>1, <3>2, <3>3, <3>4
  <2>2. RecordInv'
    BY <1>9, SameRecords DEF Connects, peerVars, TypeOK
  <2> QED
    BY <2>1, <2>2
<1>10. CASE ConnectFails
  <2>1. TypeOK' /\ HeldInv' /\ ModeInv' /\ AskInv'
    <3>1. TypeOK'
      <4>1. held \subseteq Resources /\ known \subseteq Resources /\ nonblock \in BOOLEAN
        BY DEF TypeOK
      <4>2. held' \subseteq Resources /\ known' \subseteq Resources /\ nonblock' \in BOOLEAN
        BY <1>10, <4>1 DEF ConnectFails
      <4> QED
        BY <1>10, <4>2, LocalType DEF ConnectFails
    <3>2. HeldInv'
      BY <1>10 DEF ConnectFails, HeldInv
    <3>3. ModeInv'
      BY <1>10 DEF ConnectFails, ModeInv
    <3>4. AskInv'
      BY <1>10 DEF ConnectFails, peerVars, AskInv
    <3> QED
      BY <3>1, <3>2, <3>3, <3>4
  <2>2. RecordInv'
    BY <1>10, SameRecords DEF ConnectFails, peerVars
  <2> QED
    BY <2>1, <2>2
<1>11. CASE NewContext
  <2>1. TypeOK' /\ HeldInv' /\ ModeInv' /\ AskInv'
    <3>1. TypeOK'
      <4>1. held \subseteq Resources /\ known \subseteq Resources /\ nonblock \in BOOLEAN
        BY DEF TypeOK
      <4>2. held' \subseteq Resources /\ known' \subseteq Resources /\ nonblock' \in BOOLEAN
        BY <1>11, <4>1 DEF NewContext, Allocates
      <4> QED
        BY <1>11, <4>2, LocalType DEF NewContext
    <3>2. HeldInv'
      BY <1>11 DEF NewContext, Allocates, HeldInv
    <3>3. ModeInv'
      BY <1>11 DEF NewContext, ModeInv
    <3>4. AskInv'
      BY <1>11 DEF NewContext, peerVars, AskInv
    <3> QED
      BY <3>1, <3>2, <3>3, <3>4
  <2>2. RecordInv'
    BY <1>11, SameRecords DEF NewContext, peerVars
  <2> QED
    BY <2>1, <2>2
<1>12. CASE NewSsl
  <2>1. TypeOK' /\ HeldInv' /\ ModeInv' /\ AskInv'
    <3>1. TypeOK'
      <4>1. held \subseteq Resources /\ known \subseteq Resources /\ nonblock \in BOOLEAN
        BY DEF TypeOK
      <4>2. held' \subseteq Resources /\ known' \subseteq Resources /\ nonblock' \in BOOLEAN
        BY <1>12, <4>1 DEF NewSsl, Allocates
      <4> QED
        BY <1>12, <4>2, LocalType DEF NewSsl
    <3>2. HeldInv'
      BY <1>12 DEF NewSsl, Allocates, HeldInv
    <3>3. ModeInv'
      BY <1>12 DEF NewSsl, ModeInv
    <3>4. AskInv'
      BY <1>12 DEF NewSsl, peerVars, AskInv
    <3> QED
      BY <3>1, <3>2, <3>3, <3>4
  <2>2. RecordInv'
    BY <1>12, SameRecords DEF NewSsl, peerVars
  <2> QED
    BY <2>1, <2>2
<1>13. CASE Handshake
  <2>1. TypeOK' /\ HeldInv' /\ ModeInv' /\ AskInv'
    BY <1>13 DEF Handshake, localVars, peerVars, TypeOK, HeldInv, ModeInv, AskInv
  <2>2. RecordInv'
    BY <1>13, SameRecords DEF Handshake, localVars, peerVars
  <2> QED
    BY <2>1, <2>2
<1>14. CASE Write
  <2>1. TypeOK' /\ HeldInv' /\ ModeInv' /\ AskInv'
    BY <1>14 DEF Write, localVars, peerVars, TypeOK, HeldInv, ModeInv, AskInv
  <2>2. RecordInv'
    BY <1>14, SameRecords DEF Write, localVars, AskInv
  <2> QED
    BY <2>1, <2>2
<1>15. CASE PollAnswer
  <2>1. TypeOK' /\ HeldInv' /\ ModeInv' /\ AskInv'
    BY <1>15 DEF PollAnswer, localVars, peerVars, TypeOK, HeldInv, ModeInv, AskInv
  <2>2. RecordInv'
    BY <1>15, SameRecords DEF PollAnswer, localVars, peerVars
  <2> QED
    BY <2>1, <2>2
<1>16. CASE ReadTicket
  <2>1. inbox' \in Seq(Records) /\ Len(inbox') = Len(inbox) - 1
          /\ \A k \in 1 .. Len(inbox') : inbox'[k] = inbox[k + 1]
    BY <1>16 DEF ReadTicket, TypeOK
  <2>2. TypeOK' /\ HeldInv' /\ ModeInv' /\ AskInv'
    BY <1>16, <2>1 DEF ReadTicket, localVars, peerVars, TypeOK, HeldInv, ModeInv, AskInv
  <2>3. \A k \in 1 .. Len(inbox') : FromSite(inbox'[k])
    BY <2>1 DEF RecordInv, TypeOK
  <2>4. RecordInv'
    BY <1>16, <2>3 DEF ReadTicket, localVars, peerVars, RecordInv, FromSite
  <2> QED
    BY <2>2, <2>4
<1>17. CASE ReadRecord
  <2>1. inbox' \in Seq(Records) /\ Len(inbox') = Len(inbox) - 1
          /\ \A k \in 1 .. Len(inbox') : inbox'[k] = inbox[k + 1]
    BY <1>17 DEF ReadRecord, TypeOK
  <2> DEFINE code == inbox[1]
  <2>2. 1 \in 1 .. Len(inbox) /\ code \in Records /\ code # Ticket
    BY <1>17 DEF ReadRecord, TypeOK
  <2>3. PICK digits \in 0 .. 3 :
          peer = "answering" /\ status \in Statuses /\ code = FirstDigits(status, digits)
    BY <2>2 DEF RecordInv, FromSite
  <2>4. res' = [res EXCEPT !.data_received = TRUE, !.http_code = code,
                           !.success = is_success(code)]
    BY <1>17, <2>2 DEF ReadRecord
  <2> HIDE DEF code
  <2>5. code \in 0 .. 599
    BY <2>2 DEF Records, Ticket
  <2>6. is_success(code) => status \in 200 .. 399 /\ code = status
    <3>1. status \in 100 .. 599
      BY <2>3, SiteOK
    <3>2. code = status \/ code < 100
      BY <2>3, DigitsSent
    <3> QED
      BY <2>5, <3>1, <3>2 DEF is_success
  <2>7. is_success(code) \in BOOLEAN
    BY DEF is_success
  <2>8. TypeOK' /\ HeldInv' /\ ModeInv' /\ AskInv'
    <3>1. res' \in Outcomes
      <4>1. res \in Outcomes
        BY DEF TypeOK, Outcomes
      <4>2. res' = [tcp_connected |-> res.tcp_connected, data_received |-> TRUE,
                    http_code |-> code, success |-> is_success(code)]
        BY <2>4, <4>1 DEF Outcomes
      <4>3. res.tcp_connected \in BOOLEAN
        BY <4>1 DEF Outcomes
      <4> QED
        BY <2>5, <2>7, <4>2, <4>3, OutcomeBuilt
    <3>2. TypeOK'
      BY <1>17, <2>1, <3>1 DEF ReadRecord, peerVars, TypeOK, Outcomes
    <3> QED
      BY <1>17, <3>2 DEF ReadRecord, peerVars, HeldInv, ModeInv, AskInv
  <2>9. res'.success = is_success(code) /\ res'.http_code = code
    <3>1. res \in Outcomes
      BY DEF TypeOK, Outcomes
    <3> QED
      BY <2>4, <3>1 DEF Outcomes
  <2>10. \A k \in 1 .. Len(inbox') : FromSite(inbox'[k])
    BY <2>1 DEF RecordInv, TypeOK
  <2>11. RecordInv'
    BY <1>17, <2>3, <2>6, <2>9, <2>10 DEF ReadRecord, peerVars, RecordInv, FromSite
  <2> QED
    BY <2>8, <2>11
<1>18. CASE ReadFails
  <2>1. TypeOK' /\ HeldInv' /\ ModeInv' /\ AskInv'
    BY <1>18 DEF ReadFails, localVars, peerVars, TypeOK, HeldInv, ModeInv, AskInv
  <2>2. RecordInv'
    BY <1>18, SameRecords DEF ReadFails, localVars, peerVars
  <2> QED
    BY <2>1, <2>2
<1>19. CASE Cleanup
  <2>1. TypeOK' /\ HeldInv' /\ ModeInv' /\ AskInv'
    BY <1>19 DEF Cleanup, peerVars, TypeOK, HeldInv, ModeInv, AskInv
  <2>2. RecordInv'
    BY <1>19, SameRecords DEF Cleanup, peerVars
  <2> QED
    BY <2>1, <2>2
<1>20. CASE Dies
  <2>1. TypeOK' /\ HeldInv' /\ ModeInv' /\ AskInv'
    BY <1>20 DEF Dies, WritesTls, At, Goto, localVars, peerVars, TypeOK, HeldInv, ModeInv, AskInv
  <2>2. RecordInv'
    BY <1>20, SameRecords DEF Dies, localVars, peerVars
  <2> QED
    BY <2>1, <2>2
<1>21. CASE UNCHANGED vars
  <2>1. TypeOK' /\ HeldInv' /\ ModeInv' /\ AskInv'
    BY <1>21 DEF vars, localVars, peerVars, TypeOK, HeldInv, ModeInv, AskInv
  <2>2. RecordInv'
    BY <1>21, SameRecords DEF vars, localVars, peerVars
  <2> QED
    BY <2>1, <2>2
<1> QED
  BY <1>1, <1>2, <1>3, <1>4, <1>5, <1>6, <1>7, <1>8, <1>9, <1>10, <1>11,
     <1>12, <1>13, <1>14, <1>15, <1>16, <1>17, <1>18, <1>19, <1>20, <1>21
     DEF Next, Site, send_https_test_raw

THEOREM Invariance == Spec => []IInv
<1>1. Init => IInv
  BY InitIInv
<1>2. IInv /\ [Next]_vars => IInv'
  BY StepIInv
<1> QED
  BY <1>1, <1>2, PTL DEF Spec

\* Types hold, whatever the site sends.
THEOREM RequestTypes == Spec => []TypeOK
<1>1. IInv => TypeOK
  BY DEF IInv
<1> QED
  BY <1>1, Invariance, PTL

\* Every exit gives back the socket, the address list, the TLS context and the
\* connection, as far as it had them.
THEOREM RequestReleases == Spec => []Released
<1>1. IInv => Released
  BY DEF IInv, HeldInv, Released
<1> QED
  BY <1>1, Invariance, PTL

\* The TLS calls find the socket in blocking mode.
THEOREM RequestWaits == Spec => []WaitsForTheSite
<1>1. IInv => WaitsForTheSite
  BY DEF IInv, ModeInv, WaitsForTheSite
<1> QED
  BY <1>1, Invariance, PTL

\* Success is what the site answered, wherever the first record of its answer ends.
THEOREM RequestEarnsSuccess == Spec => []SuccessEarned
<1>1. IInv => SuccessEarned
  BY DEF IInv, RecordInv, SuccessEarned
<1> QED
  BY <1>1, Invariance, PTL

-----------------------------------------------------------------------------
(* How long a request can take.  Whether it returns is a question of       *)
(* fairness; that it returns after a bounded number of its own steps,      *)
(* whenever the site speaks, is not.                                       *)

\* The calls that may still come after a label, reading again left out.
CallsAfter ==
  [l \in {"resolve", "socket", "fcntl", "connecting", "ssl_ctx", "ssl", "handshake",
          "write", "poll", "read", "cleanup", "returned", "killed"} |->
     CASE l = "resolve" -> 11 [] l = "socket" -> 10 [] l = "fcntl" -> 9
       [] l = "connecting" -> 8 [] l = "ssl_ctx" -> 7 [] l = "ssl" -> 6
       [] l = "handshake" -> 5 [] l = "write" -> 4 [] l = "poll" -> 3
       [] l = "read" -> 2 [] l = "cleanup" -> 1 [] l = "returned" -> 0
       [] l = "killed" -> 0]

\* Each ticket and the answer may be read once: those in the inbox, those to come.
RecordsAhead ==
  Len(inbox) + (MaxTickets - tickets) + (IF peer = "answering" THEN 0 ELSE 1)

StepsLeft == CallsAfter[pc] + RecordsAhead

\* Nothing the site does gives the request more to do, and each step of the request
\* uses up one of those it has left.
StepsRunOut ==
  [][/\ StepsLeft' <= StepsLeft
     /\ send_https_test_raw \/ Dies => StepsLeft' < StepsLeft]_vars

LEMMA CallsAfterIs ==
  /\ CallsAfter["resolve"] = 11 /\ CallsAfter["socket"] = 10 /\ CallsAfter["fcntl"] = 9
  /\ CallsAfter["connecting"] = 8 /\ CallsAfter["ssl_ctx"] = 7 /\ CallsAfter["ssl"] = 6
  /\ CallsAfter["handshake"] = 5 /\ CallsAfter["write"] = 4 /\ CallsAfter["poll"] = 3
  /\ CallsAfter["read"] = 2 /\ CallsAfter["cleanup"] = 1 /\ CallsAfter["returned"] = 0
  /\ CallsAfter["killed"] = 0
BY DEF CallsAfter

LEMMA StepsLeftType == TypeOK => RecordsAhead \in Nat /\ CallsAfter[pc] \in Nat /\ StepsLeft \in Nat
<1> SUFFICES ASSUME TypeOK PROVE RecordsAhead \in Nat /\ CallsAfter[pc] \in Nat /\ StepsLeft \in Nat
  OBVIOUS
<1>1. Len(inbox) \in Nat /\ MaxTickets - tickets \in Nat
  BY SiteOK DEF TypeOK
<1>2. RecordsAhead \in Nat
  BY <1>1 DEF RecordsAhead
<1>3. CallsAfter[pc] \in Nat
  BY CallsAfterIs DEF TypeOK
<1> QED
  BY <1>2, <1>3 DEF StepsLeft

\* The site: what it sends has been counted.
LEMMA SiteAddsNothing ==
  ASSUME IInv, Site
  PROVE  StepsLeft' = StepsLeft
<1>1. pc' = pc
  BY DEF Site, Accept, Shake, SendsTicket, Answers, Leaves
<1>2. RecordsAhead' = RecordsAhead
  <2>1. CASE Accept \/ Shake \/ Leaves
    BY <2>1 DEF Accept, Shake, Leaves, RecordsAhead
  <2>2. CASE SendsTicket
    <3>1. Ticket \in Records /\ inbox \in Seq(Records) /\ tickets \in Nat
      BY DEF IInv, TypeOK, Records
    <3>2. Len(inbox') = Len(inbox) + 1
      BY <2>2, <3>1 DEF SendsTicket
    <3> QED
      BY <2>2, <3>1, <3>2, SiteOK DEF SendsTicket, RecordsAhead
  <2>3. CASE Answers
    <3>1. PICK code \in Statuses, digits \in 0 .. 3 :
            inbox' = Append(inbox, FirstDigits(code, digits))
      BY <2>3 DEF Answers
    <3>2. FirstDigits(code, digits) \in Records
      BY DigitsSent
    <3>3. inbox \in Seq(Records) /\ tickets \in Nat
      BY DEF IInv, TypeOK
    <3>4. Len(inbox') = Len(inbox) + 1
      BY <3>1, <3>2, <3>3
    <3> QED
      BY <2>3, <3>3, <3>4, SiteOK DEF Answers, RecordsAhead
  <2> QED
    BY <2>1, <2>2, <2>3 DEF Site
<1> QED
  BY <1>1, <1>2 DEF StepsLeft

\* The request: it goes on to a later call, or it reads a record away.
LEMMA RequestAdvances ==
  ASSUME IInv, send_https_test_raw \/ Dies
  PROVE  StepsLeft' < StepsLeft /\ StepsLeft' <= StepsLeft
<1> USE DEF At, Goto
<1>1. RecordsAhead \in Nat /\ CallsAfter[pc] \in Nat
  BY StepsLeftType DEF IInv
<1>2. CASE ReadTicket \/ ReadRecord
  <2>1. Len(inbox') = Len(inbox) - 1
    BY <1>2 DEF ReadTicket, ReadRecord, IInv, TypeOK
  <2>2. RecordsAhead' = RecordsAhead - 1
    BY <1>2, <2>1, SiteOK DEF ReadTicket, ReadRecord, RecordsAhead, peerVars, IInv, TypeOK
  <2>3. CallsAfter[pc'] \in Nat /\ CallsAfter[pc'] <= CallsAfter[pc]
    BY <1>1, <1>2, CallsAfterIs DEF ReadTicket, ReadRecord
  <2> QED
    BY <1>1, <2>2, <2>3 DEF StepsLeft
<1>3. CASE Write
  <2>1. peer # "answering" /\ peer' # "answering"
    BY <1>3 DEF Write, IInv, AskInv
  <2>2. RecordsAhead' = RecordsAhead
    BY <1>3, <2>1 DEF Write, RecordsAhead
  <2>3. CallsAfter[pc'] \in Nat /\ CallsAfter[pc'] < CallsAfter[pc]
    BY <1>3, CallsAfterIs DEF Write
  <2> QED
    BY <1>1, <2>2, <2>3 DEF StepsLeft
<1>4. CASE \/ Resolve \/ socket_with_mark \/ SetNonblock \/ Connects \/ ConnectFails
           \/ NewContext \/ NewSsl \/ Handshake \/ PollAnswer \/ ReadFails \/ Cleanup \/ Dies
  <2>1. RecordsAhead' = RecordsAhead
    BY <1>4 DEF RecordsAhead, peerVars, Resolve, socket_with_mark, SetNonblock, Connects,
       ConnectFails, NewContext, NewSsl, Handshake, PollAnswer, ReadFails, Cleanup, Dies
  <2>2. CallsAfter[pc'] \in Nat /\ CallsAfter[pc'] < CallsAfter[pc]
    <3>1. CASE Resolve \/ socket_with_mark \/ SetNonblock \/ Connects
      BY <3>1, CallsAfterIs DEF Resolve, socket_with_mark, SetNonblock, Connects
    <3>2. CASE ConnectFails \/ NewContext \/ NewSsl \/ Handshake
      BY <3>2, CallsAfterIs DEF ConnectFails, NewContext, NewSsl, Handshake
    <3>3. CASE PollAnswer \/ ReadFails \/ Cleanup \/ Dies
      BY <3>3, CallsAfterIs DEF PollAnswer, ReadFails, Cleanup, Dies, WritesTls
    <3> QED
      BY <1>4, <3>1, <3>2, <3>3
  <2> QED
    BY <1>1, <2>1, <2>2 DEF StepsLeft
<1> QED
  BY <1>2, <1>3, <1>4 DEF send_https_test_raw

\* send_https_test_raw comes to its end within 12 + MaxTickets steps of its own, for
\* every number of tickets: its one loop, SSL_read after a ticket, cannot hold it
\* longer than the site has records to send, and nothing sends it back to a call.
THEOREM RequestStepsBounded ==
  Spec => /\ StepsLeft = 12 + MaxTickets
          /\ [](StepsLeft \in Nat)
          /\ StepsRunOut
<1>1. Init => StepsLeft = 12 + MaxTickets
  BY CallsAfterIs, SiteOK DEF Init, StepsLeft, RecordsAhead
<1>2. IInv => StepsLeft \in Nat
  BY StepsLeftType DEF IInv
<1>3. IInv /\ [Next]_vars
        => [/\ StepsLeft' <= StepsLeft
            /\ send_https_test_raw \/ Dies => StepsLeft' < StepsLeft]_vars
  <2> SUFFICES ASSUME IInv, [Next]_vars, ~ UNCHANGED vars
               PROVE  /\ StepsLeft' <= StepsLeft
                      /\ send_https_test_raw \/ Dies => StepsLeft' < StepsLeft
    OBVIOUS
  <2>1. StepsLeft \in Nat
    BY <1>2
  <2>2. send_https_test_raw \/ Dies => StepsLeft' < StepsLeft /\ StepsLeft' <= StepsLeft
    BY RequestAdvances
  <2>3. Site => StepsLeft' = StepsLeft
    BY SiteAddsNothing
  <2> QED
    BY <2>1, <2>2, <2>3 DEF Next
<1> QED
  BY <1>1, <1>2, <1>3, Invariance, PTL DEF Spec, StepsRunOut
=============================================================================
