------------------------------- MODULE LogProof -------------------------------
(***************************************************************************)
(* For any number of test threads: no line of zapret2-tui.log is torn, and *)
(* testing.log has no message that zapret2-tui.log does not have.          *)
(***************************************************************************)
EXTENDS Log, TLAPS

Labels ==
  {"open", "idle", "lock", "stamp", "text", "unlock", "check", "test_stamp", "test_text",
   "close", "close_stamp", "close_text", "test_close", "test_close_stamp",
   "test_close_text", "test_fclose", "closed", "return", "over"}

\* Where log_mutex is held.
Section == {"stamp", "text", "unlock", "close_stamp", "close_text", "test_close",
            "test_close_stamp", "test_close_text", "test_fclose", "closed"}

\* Labels of the UI thread only, and of a test thread only.
UiOnly == {"open", "close", "close_stamp", "close_text", "test_close", "test_close_stamp",
           "test_close_text", "test_fclose", "closed", "return"}
HalfLine == {"text", "close_text"}

Piece == [by : Threads, no : Nat, part : {"stamp", "text"}]

TypeInv ==
  /\ log_fp \in BOOLEAN
  /\ test_log_fp \in BOOLEAN
  /\ log \in Seq(Piece)
  /\ test_log \in Seq(Piece)
  /\ pc \in [Threads -> Labels]
  /\ no \in [Threads -> Nat]

\* Who is where: the mutex is held in the section, test threads are never in the code
\* of the UI thread, the program ends for all threads at a time.
PlaceInv ==
  /\ \A t \in Threads : pc[t] \in Section => log_mutex = t
  /\ \A t \in Testers : pc[t] \notin UiOnly
  /\ pc[ui] \notin {"check", "test_stamp", "test_text"}
  /\ \A t, u \in Threads : pc[t] = "over" => pc[u] = "over"
  /\ pc[ui] = "open" => /\ stage \in {"start", "init"}
                         /\ \A t \in Testers : pc[t] = "idle"

\* A thread between the two pieces of a line has written the last piece; when there is
\* none the file ends with a whole line.
LineInv ==
  /\ Whole(log)
  /\ \A t \in Threads : pc[t] \in HalfLine => Len(log) % 2 = 1 /\ log[Len(log)] = Stamp(t)
  /\ (\A t \in Threads : pc[t] \notin HalfLine \cup {"over"}) => Len(log) % 2 = 0

LineTI == TypeInv /\ PlaceInv /\ LineInv

-----------------------------------------------------------------------------
\* One more piece, the one that is due, keeps the lines whole.
LEMMA AppendStamp ==
  ASSUME NEW f \in Seq(Piece), Whole(f), Len(f) % 2 = 0, NEW p \in Piece, p.part = "stamp"
  PROVE  Whole(Append(f, p)) /\ Len(Append(f, p)) % 2 = 1
         /\ Append(f, p)[Len(Append(f, p))] = p
<1>1. Len(f) \in Nat
  OBVIOUS
<1>2. Len(Append(f, p)) = Len(f) + 1 /\ Append(f, p)[Len(f) + 1] = p
  BY <1>1
<1>3. \A k \in 1 .. Len(f) : Append(f, p)[k] = f[k]
  BY <1>1
<1>4. (Len(f) + 1) % 2 = 1
  BY <1>1
<1>5. ASSUME NEW k \in 1 .. Len(f) + 1
      PROVE  /\ k % 2 = 1 => Append(f, p)[k].part = "stamp"
             /\ k % 2 = 0 => Append(f, p)[k] = [Append(f, p)[k - 1] EXCEPT !.part = "text"]
  <2>1. CASE k = Len(f) + 1
    BY <2>1, <1>2, <1>4
  <2>2. CASE k \in 1 .. Len(f)
    <3>1. k % 2 = 0 => k - 1 \in 1 .. Len(f)
      BY <2>2, <1>1
    <3> QED
      BY <2>2, <3>1, <1>3 DEF Whole
  <2> QED
    BY <2>1, <2>2, <1>1
<1> QED
  BY <1>2, <1>4, <1>5 DEF Whole

LEMMA AppendText ==
  ASSUME NEW f \in Seq(Piece), Whole(f), Len(f) % 2 = 1, NEW p \in Piece,
         p = [f[Len(f)] EXCEPT !.part = "text"]
  PROVE  Whole(Append(f, p)) /\ Len(Append(f, p)) % 2 = 0
<1>1. Len(f) \in Nat
  OBVIOUS
<1>2. Len(Append(f, p)) = Len(f) + 1 /\ Append(f, p)[Len(f) + 1] = p
  BY <1>1
<1>3. \A k \in 1 .. Len(f) : Append(f, p)[k] = f[k]
  BY <1>1
<1>4. (Len(f) + 1) % 2 = 0 /\ Len(f) \in 1 .. Len(f)
  BY <1>1
<1>5. ASSUME NEW k \in 1 .. Len(f) + 1
      PROVE  /\ k % 2 = 1 => Append(f, p)[k].part = "stamp"
             /\ k % 2 = 0 => Append(f, p)[k] = [Append(f, p)[k - 1] EXCEPT !.part = "text"]
  <2>1. CASE k = Len(f) + 1
    BY <2>1, <1>1, <1>2, <1>3, <1>4
  <2>2. CASE k \in 1 .. Len(f)
    <3>1. k % 2 = 0 => k - 1 \in 1 .. Len(f)
      BY <2>2, <1>1
    <3> QED
      BY <2>2, <3>1, <1>3 DEF Whole
  <2>3. k = Len(f) + 1 \/ k \in 1 .. Len(f)
    BY <1>1
  <2> QED
    BY <2>1, <2>2, <2>3
<1> QED
  BY <1>2, <1>4, <1>5 DEF Whole

LEMMA PieceTypes ==
  ASSUME TypeInv, NEW t \in Threads
  PROVE  /\ Stamp(t) \in Piece /\ Text(t) \in Piece
         /\ Stamp(t).part = "stamp"
         /\ Text(t) = [Stamp(t) EXCEPT !.part = "text"]
  BY DEF TypeInv, Stamp, Text, Piece

\* A step that leaves zapret2-tui.log and the threads that write to it alone.
LEMMA QuietStep ==
  ASSUME LineInv, log' = log, TypeInv, TypeInv',
         \A u \in Threads : pc'[u] \in HalfLine <=> pc[u] \in HalfLine,
         \A u \in Threads : pc[u] \in HalfLine => no'[u] = no[u],
         \A u \in Threads : pc[u] = "over" => pc'[u] = "over"
  PROVE  LineInv'
<1>1. Whole(log)'
  BY DEF LineInv, Whole
<1>2. \A t \in Threads : pc'[t] \in HalfLine => Stamp(t)' = Stamp(t)
  BY DEF Stamp
<1>3. \A t \in Threads : pc'[t] \in HalfLine =>
                         (Len(log)' % 2 = 1 /\ (log[Len(log)])' = Stamp(t)')
  BY <1>2 DEF LineInv
<1>4. (\A t \in Threads : pc'[t] \notin HalfLine \cup {"over"}) => Len(log)' % 2 = 0
  BY DEF LineInv
<1> QED
  BY <1>1, <1>3, <1>4 DEF LineInv

\* The thread that holds the mutex is the only one in the section.
LEMMA Alone ==
  ASSUME PlaceInv, NEW t \in Threads, pc[t] \in Section,
         NEW u \in Threads, u # t
  PROVE  pc[u] \notin HalfLine
  BY DEF PlaceInv, Section, HalfLine

\* The thread in the section writes a stamp or a text.
LEMMA StampStep ==
  ASSUME LineTI, TypeInv', NEW t \in Threads, pc[t] \in Section \ HalfLine,
         log' = Append(log, Stamp(t)), no' = no,
         NEW l \in HalfLine, pc' = [pc EXCEPT ![t] = l]
  PROVE  LineInv'
<1>1. \A u \in Threads : pc[u] \notin HalfLine \cup {"over"}
  BY Alone DEF LineTI, PlaceInv, Section, HalfLine
<1>2. Whole(log) /\ Len(log) % 2 = 0 /\ log \in Seq(Piece)
  BY <1>1 DEF LineTI, LineInv, TypeInv
<1>3. Whole(log') /\ Len(log') % 2 = 1 /\ log'[Len(log')] = Stamp(t)
  BY <1>2, PieceTypes, AppendStamp DEF LineTI
<1>4. Stamp(t)' = Stamp(t)
  BY DEF Stamp
<1>5. \A u \in Threads : pc'[u] \in HalfLine => u = t
  BY <1>1 DEF LineTI, TypeInv
<1>6. pc'[t] \in HalfLine
  BY DEF LineTI, TypeInv
<1> QED
  BY <1>3, <1>4, <1>5, <1>6 DEF LineInv

LEMMA TextStep ==
  ASSUME LineTI, TypeInv', NEW t \in Threads, pc[t] \in HalfLine,
         log' = Append(log, Text(t)), no' = no,
         NEW l \in Labels \ HalfLine, pc' = [pc EXCEPT ![t] = l]
  PROVE  LineInv'
<1>1. \A u \in Threads : u # t => pc[u] \notin HalfLine
  BY Alone DEF LineTI, Section, HalfLine
<1>2. Whole(log) /\ Len(log) % 2 = 1 /\ log \in Seq(Piece) /\ log[Len(log)] = Stamp(t)
  BY DEF LineTI, LineInv, TypeInv
<1>3. Whole(log') /\ Len(log') % 2 = 0
  BY <1>2, PieceTypes, AppendText DEF LineTI
<1>4. \A u \in Threads : pc'[u] \notin HalfLine
  BY <1>1 DEF LineTI, TypeInv
<1> QED
  BY <1>3, <1>4 DEF LineInv

-----------------------------------------------------------------------------
LEMMA LineInit == Init => LineTI
<1> SUFFICES ASSUME Init PROVE LineTI
  OBVIOUS
<1>1. TypeInv
  <2>1. log \in Seq(Piece) /\ test_log \in Seq(Piece) /\ no \in [Threads -> Nat]
    BY DEF Init
  <2>2. pc \in [Threads -> Labels]
    BY DEF Init, Labels
  <2> QED
    BY <2>1, <2>2 DEF Init, TypeInv
<1>2. PlaceInv
  BY LogOK DEF Init, PlaceInv, Section, UiOnly, Threads
<1>3. LineInv
  BY DEF Init, LineInv, Whole, HalfLine
<1> QED
  BY <1>1, <1>2, <1>3 DEF LineTI

LEMMA TypeStep == TypeInv /\ [Next]_vars => TypeInv'
<1> SUFFICES ASSUME TypeInv, [Next]_vars PROVE TypeInv'
  OBVIOUS
<1> ui \in Threads
  BY DEF Threads
<1>1. \A t \in Threads : Stamp(t) \in Piece /\ Text(t) \in Piece
  BY PieceTypes
<1>2. CASE log_open
  <2>1. log' \in Seq(Piece)
    <3>1. Line(log) \in Seq(Piece)
      BY <1>1 DEF TypeInv, Line
    <3> QED
      BY <3>1, <1>2 DEF log_open, TypeInv
  <2>2. test_log' \in Seq(Piece)
    <3>1. Line(test_log) \in Seq(Piece)
      BY <1>1 DEF TypeInv, Line
    <3> QED
      BY <3>1, <1>2 DEF log_open, TypeInv
  <2>3. pc' \in [Threads -> Labels]
    BY <1>2 DEF log_open, TypeInv, Goto, Labels
  <2> QED
    BY <1>2, <2>1, <2>2, <2>3 DEF log_open, TypeInv
<1>3. CASE Close
  <2>1. CASE Quit
    BY <1>1, <2>1 DEF Quit, TypeInv, Goto, files, Labels
  <2>2. CASE CloseLock
    BY <1>1, <2>2 DEF CloseLock, TypeInv, Goto, files, Labels
  <2>3. CASE CloseStamp
    BY <1>1, <2>3 DEF CloseStamp, TypeInv, Goto, files, Labels
  <2>4. CASE CloseText
    <3>1. Append(log, Text(ui)) \in Seq(Piece)
      BY <1>1 DEF TypeInv
    <3> QED
      BY <3>1, <2>4 DEF CloseText, TypeInv, Goto, Labels
  <2>5. CASE TestClose
    BY <1>1, <2>5 DEF TestClose, TypeInv, Goto, files, Labels
  <2>6. CASE TestCloseStamp
    BY <1>1, <2>6 DEF TestCloseStamp, TypeInv, Goto, files, Labels
  <2>7. CASE TestCloseText
    BY <1>1, <2>7 DEF TestCloseText, TypeInv, Goto, files, Labels
  <2>8. CASE TestFclose
    BY <1>1, <2>8 DEF TestFclose, TypeInv, Goto, files, Labels
  <2>9. CASE Closed
    <3>1. no' \in [Threads -> Nat]
      BY <2>9 DEF Closed, TypeInv
    <3>2. pc' \in [Threads -> Labels]
      BY <2>9 DEF Closed, TypeInv, Goto, Labels
    <3> QED
      BY <3>1, <3>2, <2>9 DEF Closed, TypeInv, files
  <2> QED
    BY <1>3, <2>1, <2>2, <2>3, <2>4, <2>5, <2>6, <2>7, <2>8, <2>9 DEF Close
<1>4. CASE Ends
  BY <1>4 DEF Ends, TypeInv, files, Labels
<1>5. ASSUME NEW t \in Threads, Message(t)
      PROVE  TypeInv'
  <2>1. CASE Call(t)
    BY <1>1, <2>1 DEF Call, TypeInv, Goto, files, Labels
  <2>2. CASE Lock(t)
    BY <1>1, <2>2 DEF Lock, TypeInv, Goto, files, Labels
  <2>3. CASE WriteStamp(t)
    BY <1>1, <2>3 DEF WriteStamp, TypeInv, Goto, files, Labels
  <2>4. CASE WriteText(t)
    BY <1>1, <2>4 DEF WriteText, TypeInv, Goto, files, Labels
  <2>5. CASE Unlock(t)
    BY <1>1, <2>5 DEF Unlock, TypeInv, Goto, files, Labels
  <2>6. CASE Check(t)
    BY <1>1, <2>6 DEF Check, TypeInv, Goto, files, Labels
  <2>7. CASE WriteTestStamp(t)
    BY <1>1, <2>7 DEF WriteTestStamp, TypeInv, Goto, files, Labels
  <2>8. CASE WriteTestText(t)
    BY <1>1, <2>8 DEF WriteTestText, TypeInv, Goto, files, Labels
  <2> QED
    BY <1>5, <2>1, <2>2, <2>3, <2>4, <2>5, <2>6, <2>7, <2>8 DEF Message
<1>6. CASE UNCHANGED vars
  BY <1>6 DEF vars, TypeInv
<1> QED
  BY <1>2, <1>3, <1>4, <1>5, <1>6 DEF Next

LEMMA PlaceStep == TypeInv /\ PlaceInv /\ [Next]_vars => PlaceInv'
<1> SUFFICES ASSUME TypeInv, PlaceInv, [Next]_vars PROVE PlaceInv'
  OBVIOUS
<1> ui \in Threads /\ ui \notin Testers /\ Testers \subseteq Threads
    /\ \A t \in Threads : t # Free
  BY LogOK DEF Threads
<1> USE DEF TypeInv, PlaceInv, Section, UiOnly, At, Goto, Labels, Threads
<1>2. CASE log_open
  BY <1>2 DEF log_open
<1>3. CASE Close
  BY <1>3 DEF Close, Quit, CloseLock, CloseStamp, CloseText, TestClose, TestCloseStamp,
              TestCloseText, TestFclose, Closed
<1>4. CASE Ends
  BY <1>4 DEF Ends
<1>5. ASSUME NEW t \in Threads, Message(t)
      PROVE  PlaceInv'
  <2>1. CASE Call(t)
    BY <2>1 DEF Call
  <2>2. CASE Lock(t)
    BY <2>2 DEF Lock
  <2>3. CASE WriteStamp(t)
    BY <2>3 DEF WriteStamp
  <2>4. CASE WriteText(t)
    BY <2>4 DEF WriteText
  <2>5. CASE Unlock(t)
    BY <2>5 DEF Unlock
  <2>6. CASE Check(t)
    BY <2>6 DEF Check
  <2>7. CASE WriteTestStamp(t)
    BY <2>7 DEF WriteTestStamp
  <2>8. CASE WriteTestText(t)
    BY <2>8 DEF WriteTestText
  <2> QED
    BY <1>5, <2>1, <2>2, <2>3, <2>4, <2>5, <2>6, <2>7, <2>8 DEF Message
<1>6. CASE UNCHANGED vars
  BY <1>6 DEF vars
<1> QED
  BY <1>2, <1>3, <1>4, <1>5, <1>6 DEF Next
LEMMA LineStep == LineTI /\ [Next]_vars => LineTI'
<1> SUFFICES ASSUME LineTI, [Next]_vars PROVE LineTI'
  OBVIOUS
<1> ui \in Threads /\ ui \notin Testers
  BY LogOK DEF Threads
<1>1. TypeInv /\ TypeInv' /\ PlaceInv /\ PlaceInv' /\ LineInv
  BY TypeStep, PlaceStep DEF LineTI
<1>2. CASE log_open
  <2>1. \A u \in Threads : pc[u] \notin HalfLine \cup {"over"}
    BY <1>1, <1>2 DEF log_open, At, PlaceInv, HalfLine, Threads
  <2>2. \A u \in Threads : pc'[u] \notin HalfLine
    BY <2>1, <1>1, <1>2 DEF log_open, Goto, HalfLine, TypeInv
  <2>3. Whole(log) /\ Len(log) % 2 = 0 /\ log \in Seq(Piece)
    BY <2>1, <1>1 DEF LineInv, TypeInv
  <2>4. Stamp(ui) \in Piece /\ Text(ui) \in Piece /\ Stamp(ui).part = "stamp"
        /\ Text(ui) = [Stamp(ui) EXCEPT !.part = "text"]
    BY <1>1, PieceTypes
  <2>5. Whole(Line(log)) /\ Len(Line(log)) % 2 = 0
    <3> DEFINE half == Append(log, Stamp(ui))
    <3>1. half \in Seq(Piece) /\ Whole(half) /\ Len(half) % 2 = 1 /\ half[Len(half)] = Stamp(ui)
      BY <2>3, <2>4, AppendStamp
    <3>2. Whole(Append(half, Text(ui))) /\ Len(Append(half, Text(ui))) % 2 = 0
      <4> HIDE DEF half
      <4> QED BY <3>1, <2>4, AppendText
    <3> QED
      BY <3>2 DEF Line
  <2>6. Whole(log') /\ Len(log') % 2 = 0
    BY <2>3, <2>5, <1>2 DEF log_open
  <2> QED
    BY <1>1, <2>2, <2>6 DEF LineInv, LineTI
<1>3. CASE Close
  <2> USE DEF At, Goto, TypeInv, HalfLine
  <2>1. CASE Quit
    BY <1>1, <2>1, QuietStep DEF Quit, LineTI, files
  <2>2. CASE CloseLock
    BY <1>1, <2>2, QuietStep DEF CloseLock, LineTI, files
  <2>3. CASE CloseStamp
    BY <1>1, <2>3, StampStep DEF CloseStamp, LineTI, Section
  <2>4. CASE CloseText
    BY <1>1, <2>4, TextStep DEF CloseText, LineTI, Labels
  <2>5. CASE TestClose
    BY <1>1, <2>5, QuietStep DEF TestClose, LineTI, files
  <2>6. CASE TestCloseStamp
    BY <1>1, <2>6, QuietStep DEF TestCloseStamp, LineTI, files
  <2>7. CASE TestCloseText
    BY <1>1, <2>7, QuietStep DEF TestCloseText, LineTI, files
  <2>8. CASE TestFclose
    BY <1>1, <2>8, QuietStep DEF TestFclose, LineTI, files
  <2>9. CASE Closed
    BY <1>1, <2>9, QuietStep DEF Closed, LineTI, files
  <2> QED
    BY <1>3, <2>1, <2>2, <2>3, <2>4, <2>5, <2>6, <2>7, <2>8, <2>9 DEF Close
<1>4. CASE Ends
  BY <1>1, <1>4 DEF Ends, LineTI, LineInv, Whole, HalfLine, files
<1>5. ASSUME NEW t \in Threads, Message(t)
      PROVE  LineTI'
  <2> USE DEF At, Goto, TypeInv, HalfLine
  <2>1. CASE Call(t)
    BY <1>1, <2>1, QuietStep DEF Call, LineTI, files
  <2>2. CASE Lock(t)
    BY <1>1, <2>2, QuietStep DEF Lock, LineTI, files
  <2>3. CASE WriteStamp(t)
    BY <1>1, <2>3, StampStep DEF WriteStamp, LineTI, Section
  <2>4. CASE WriteText(t)
    BY <1>1, <2>4, TextStep DEF WriteText, LineTI, Labels
  <2>5. CASE Unlock(t)
    BY <1>1, <2>5, QuietStep DEF Unlock, LineTI, files
  <2>6. CASE Check(t)
    BY <1>1, <2>6, QuietStep DEF Check, LineTI, files
  <2>7. CASE WriteTestStamp(t)
    BY <1>1, <2>7, QuietStep DEF WriteTestStamp, LineTI, files
  <2>8. CASE WriteTestText(t)
    BY <1>1, <2>8, QuietStep DEF WriteTestText, LineTI, files
  <2> QED
    BY <1>5, <2>1, <2>2, <2>3, <2>4, <2>5, <2>6, <2>7, <2>8 DEF Message
<1>6. CASE UNCHANGED vars
  <2> USE DEF vars, TypeInv
  <2> QED
    BY <1>1, <1>6, QuietStep DEF LineTI
<1> QED
  BY <1>2, <1>3, <1>4, <1>5, <1>6 DEF Next

\* No line of zapret2-tui.log is torn, for any number of threads: log_mutex is held from
\* the first fprintf of a line to the last.
THEOREM WholeLines == Spec => []AppLinesWhole
<1>1. LineTI => AppLinesWhole
  BY DEF LineTI, LineInv, AppLinesWhole
<1> QED
  BY LineInit, LineStep, <1>1, PTL DEF Spec
-----------------------------------------------------------------------------
(* The second file.                                                        *)

Has(file, p) == \E k \in 1 .. Len(file) : file[k] = p
Both(t) == Has(log, Stamp(t)) /\ Has(log, Text(t))

Closing == {"test_close", "test_close_stamp", "test_close_text", "test_fclose"}

\* What is opened is not empty; before the main loop the UI thread alone has written.
OpenInv ==
  /\ log_fp => log # << >>
  /\ \A t \in Threads : pc[t] \in {"stamp", "close_stamp"} => log # << >>
  /\ pc[ui] = "open" => /\ log_fp \/ log = << >>
                        /\ \A k \in 1 .. Len(test_log) : test_log[k].by = ui

\* Between the two fclose the UI thread has the mutex, and a test thread that finds
\* testing.log open has its message in zapret2-tui.log.
BothInv ==
  /\ ~log_fp /\ log # << >> /\ test_log_fp => pc[ui] \in Closing
  /\ \A t \in Testers : pc[t] \in {"unlock", "check"} =>
       log = << >> \/ ~test_log_fp \/ Both(t)
  /\ \A t \in Testers : pc[t] \in {"test_stamp", "test_text"} => log = << >> \/ Both(t)
  /\ InBothLogs

LogTI == LineTI /\ OpenInv /\ BothInv

LEMMA OpenStep == LineTI /\ OpenInv /\ [Next]_vars => OpenInv'
<1> SUFFICES ASSUME LineTI, OpenInv, [Next]_vars PROVE OpenInv'
  OBVIOUS
<1> ui \in Threads /\ ui \notin Testers /\ Threads = Testers \cup {ui}
  BY LogOK DEF Threads
<1>1. TypeInv /\ PlaceInv /\ LineInv
  BY DEF LineTI
<1>0. log \in Seq(Piece) /\ test_log \in Seq(Piece) /\ pc \in [Threads -> Labels]
  BY <1>1 DEF TypeInv
<1> USE DEF OpenInv, At, Goto
<1>2. CASE log_open
  <2>1. test_log' = test_log \/ test_log' = Append(Append(test_log, Stamp(ui)), Text(ui))
    BY <1>2 DEF log_open, Line
  <2>2. Stamp(ui).by = ui /\ Text(ui).by = ui
    BY DEF Stamp, Text
  <2>3. \A k \in 1 .. Len(test_log') : test_log'[k].by = ui
    <3>1. \A k \in 1 .. Len(test_log) : test_log[k].by = ui
      BY <1>2 DEF log_open
    <3> DEFINE half == Append(test_log, Stamp(ui))
    <3>2. half \in Seq(Piece) /\ \A k \in 1 .. Len(half) : half[k].by = ui
      BY <1>0, <1>1, <2>2, <3>1, PieceTypes
    <3>3. \A k \in 1 .. Len(Append(half, Text(ui))) : Append(half, Text(ui))[k].by = ui
      <4> HIDE DEF half
      <4> QED
        BY <3>2, <2>2
    <3> QED
      BY <2>1, <3>1, <3>3
  <2>0. Line(log) # << >>
    BY <1>0 DEF Line
  <2>4. log' = log \/ log' # << >>
    BY <2>0, <1>2 DEF log_open
  <2>5. log_fp' => log' # << >>
    BY <2>0, <1>2 DEF log_open
  <2>6. pc'[ui] = "open" => log_fp' \/ log' = << >>
    BY <1>2 DEF log_open
  <2>7. \A t \in Threads : pc'[t] = pc[t] \/ pc'[t] = "idle"
    BY <1>0, <1>2 DEF log_open
  <2> QED
    BY <2>3, <2>4, <2>5, <2>6, <2>7
<1>3. CASE Close
  <2>1. CASE Quit
    BY <1>0, <1>1, <2>1 DEF Quit, files
  <2>2. CASE CloseLock
    BY <1>0, <1>1, <2>2 DEF CloseLock, files
  <2>3. CASE CloseStamp
    BY <1>0, <1>1, <2>3 DEF CloseStamp, files
  <2>4. CASE CloseText
    BY <1>0, <1>1, <2>4 DEF CloseText, files
  <2>5. CASE TestClose
    BY <1>0, <1>1, <2>5 DEF TestClose, files
  <2>6. CASE TestCloseStamp
    BY <1>0, <1>1, <2>6 DEF TestCloseStamp, files
  <2>7. CASE TestCloseText
    BY <1>0, <1>1, <2>7 DEF TestCloseText, files
  <2>8. CASE TestFclose
    BY <1>0, <1>1, <2>8 DEF TestFclose, files
  <2>9. CASE Closed
    BY <1>0, <1>1, <2>9 DEF Closed, files
  <2> QED
    BY <1>3, <2>1, <2>2, <2>3, <2>4, <2>5, <2>6, <2>7, <2>8, <2>9 DEF Close
<1>4. CASE Ends
  BY <1>0, <1>4 DEF Ends, files
<1>5. ASSUME NEW t \in Threads, Message(t)
      PROVE  OpenInv'
  <2>1. CASE Call(t)
    BY <1>0, <1>1, <2>1 DEF Call, files, PlaceInv, UiOnly
  <2>2. CASE Lock(t)
    BY <1>0, <1>1, <2>2 DEF Lock, files, PlaceInv, UiOnly
  <2>3. CASE WriteStamp(t)
    BY <1>0, <1>1, <2>3 DEF WriteStamp, files, PlaceInv, UiOnly
  <2>4. CASE WriteText(t)
    BY <1>0, <1>1, <2>4 DEF WriteText, files, PlaceInv, UiOnly
  <2>5. CASE Unlock(t)
    BY <1>0, <1>1, <2>5 DEF Unlock, files, PlaceInv, UiOnly
  <2>6. CASE Check(t)
    BY <1>0, <1>1, <2>6 DEF Check, files, PlaceInv, UiOnly
  <2>7. CASE WriteTestStamp(t)
    BY <1>0, <1>1, <2>7 DEF WriteTestStamp, files, PlaceInv, UiOnly
  <2>8. CASE WriteTestText(t)
    BY <1>0, <1>1, <2>8 DEF WriteTestText, files, PlaceInv, UiOnly
  <2> QED
    BY <1>5, <2>1, <2>2, <2>3, <2>4, <2>5, <2>6, <2>7, <2>8 DEF Message
<1>6. CASE UNCHANGED vars
  BY <1>6 DEF vars
<1> QED
  BY <1>2, <1>3, <1>4, <1>5, <1>6 DEF Next
\* A piece that is appended is there, and what was there stays.
LEMMA AppendHas ==
  ASSUME NEW f \in Seq(Piece), NEW p \in Piece
  PROVE  /\ Has(Append(f, p), p)
         /\ \A q : Has(f, q) => Has(Append(f, p), q)
         /\ \A q : Has(Append(f, p), q) => q = p \/ Has(f, q)
<1>1. Len(Append(f, p)) = Len(f) + 1 /\ Append(f, p)[Len(f) + 1] = p /\ Len(f) \in Nat
  OBVIOUS
<1>2. \A k \in 1 .. Len(f) : k \in 1 .. Len(f) + 1 /\ Append(f, p)[k] = f[k]
  OBVIOUS
<1>3. Has(Append(f, p), p)
  BY <1>1 DEF Has
<1>4. ASSUME NEW q, Has(f, q)
      PROVE  Has(Append(f, p), q)
  BY <1>1, <1>2, <1>4 DEF Has
<1>5. ASSUME NEW q, Has(Append(f, p), q)
      PROVE  q = p \/ Has(f, q)
  BY <1>1, <1>2, <1>5 DEF Has
<1> QED
  BY <1>3, <1>4, <1>5

\* zapret2-tui.log stays, or gets one more piece once it is not empty.
Grows == log' = log \/ \E p \in Piece : log # << >> /\ log' = Append(log, p)

LEMMA StillEmpty ==
  ASSUME log \in Seq(Piece), Grows
  PROVE  log' = << >> <=> log = << >>
<1>1. ASSUME NEW p \in Piece
      PROVE  Append(log, p) # << >>
  <2>1. Len(Append(log, p)) = Len(log) + 1 /\ Len(log) \in Nat /\ Len(<< >>) = 0
    OBVIOUS
  <2> QED
    BY <2>1
<1> QED
  BY <1>1 DEF Grows

LEMMA GrowsHas ==
  ASSUME log \in Seq(Piece), Grows, NEW q, Has(log, q)
  PROVE  Has(log', q)
<1>1. CASE log' = log
  BY <1>1
<1>2. CASE \E p \in Piece : log' = Append(log, p)
  <2>1. PICK p \in Piece : log' = Append(log, p)
    BY <1>2
  <2>2. Has(Append(log, p), q)
    BY AppendHas
  <2> QED
    BY <2>1, <2>2
<1> QED
  BY <1>1, <1>2 DEF Grows

LEMMA StillBoth ==
  ASSUME log \in Seq(Piece), Grows, NEW t, no'[t] = no[t], Both(t)
  PROVE  Both(t)'
<1>1. Stamp(t)' = Stamp(t) /\ Text(t)' = Text(t)
  BY DEF Stamp, Text
<1>2. \A q : Has(log, q) => Has(log', q)
  BY GrowsHas
<1>3. Has(log', Stamp(t)) /\ Has(log', Text(t))
  BY <1>2 DEF Both
<1> QED
  BY <1>1, <1>3 DEF Both, Has

\* A piece of the UI thread may go to testing.log, or one zapret2-tui.log has.
MayCopy(p) == p.by = ui \/ log = << >> \/ Has(log, p)

LEMMA StillInBoth ==
  ASSUME log \in Seq(Piece), test_log \in Seq(Piece), Grows, InBothLogs,
         \/ test_log' = test_log
         \/ \E p \in Piece : /\ test_log' = Append(test_log, p)
                             /\ MayCopy(p)
  PROVE  InBothLogs'
<1>1. log' = << >> <=> log = << >>
  BY StillEmpty
<1>2. \A q : Has(log, q) => Has(log', q)
  BY GrowsHas
<1>3. log # << >> => \A q : Has(test_log, q) /\ q.by # ui => Has(log, q)
  BY DEF InBothLogs, Has
<1>4. ASSUME log # << >>, NEW q, Has(test_log', q), q.by # ui
      PROVE  Has(log', q)
  <2>1. CASE test_log' = test_log
    BY <1>2, <1>3, <1>4, <2>1
  <2>2. CASE \E p \in Piece : /\ test_log' = Append(test_log, p)
                             /\ MayCopy(p)
    <3>1. PICK p \in Piece : /\ test_log' = Append(test_log, p)
                             /\ MayCopy(p)
      BY <2>2
    <3>2. Has(Append(test_log, p), q)
      BY <1>4, <3>1
    <3>3. q = p \/ Has(test_log, q)
      BY <3>2, AppendHas
    <3> QED
      BY <1>2, <1>3, <1>4, <3>1, <3>3 DEF MayCopy
  <2> QED
    BY <2>1, <2>2
<1> QED
  BY <1>1, <1>4 DEF InBothLogs, Has

LEMMA BothStep == LineTI /\ OpenInv /\ BothInv /\ [Next]_vars => BothInv'
<1> SUFFICES ASSUME LineTI, OpenInv, BothInv, [Next]_vars PROVE BothInv'
  OBVIOUS
<1> ui \in Threads /\ ui \notin Testers /\ Threads = Testers \cup {ui} /\ ui # Free
  BY LogOK DEF Threads
<1>1. TypeInv /\ PlaceInv /\ LineInv
  BY DEF LineTI
<1>0. log \in Seq(Piece) /\ test_log \in Seq(Piece) /\ pc \in [Threads -> Labels]
      /\ no \in [Threads -> Nat]
  BY <1>1 DEF TypeInv
<1>p. \A t \in Threads : Stamp(t) \in Piece /\ Text(t) \in Piece
                        /\ Stamp(t).by = t /\ Text(t).by = t
  BY <1>1, PieceTypes DEF Stamp, Text
<1> USE DEF At, Goto
<1>2. CASE log_open
  <2>1. \A t \in Testers : pc'[t] = "idle"
    BY <1>0, <1>1, <1>2 DEF log_open, PlaceInv
  <2>2. log_fp' \/ log' = << >>
    BY <1>2 DEF log_open, OpenInv
  <2>3. OpenInv'
    BY OpenStep
  <2>4. \A k \in 1 .. Len(test_log') : test_log'[k].by = ui
    <3>1. test_log' = test_log \/ test_log' = Append(Append(test_log, Stamp(ui)), Text(ui))
      BY <1>2 DEF log_open, Line
    <3>2. \A k \in 1 .. Len(test_log) : test_log[k].by = ui
      BY <1>2 DEF log_open, OpenInv
    <3> DEFINE half == Append(test_log, Stamp(ui))
    <3>3. half \in Seq(Piece) /\ \A k \in 1 .. Len(half) : half[k].by = ui
      BY <1>0, <1>p, <3>2
    <3>4. \A k \in 1 .. Len(Append(half, Text(ui))) : Append(half, Text(ui))[k].by = ui
      <4> HIDE DEF half
      <4> QED
        BY <3>3, <1>p
    <3> QED
      BY <3>1, <3>2, <3>4
  <2> QED
    BY <2>1, <2>2, <2>4 DEF BothInv, InBothLogs
<1>h. \A t \in Threads : pc[t] \in {"stamp", "text", "close_stamp", "close_text"} => log # << >>
  <2>1. \A t \in Threads : pc[t] \in {"text", "close_text"} => Len(log) % 2 = 1
    BY <1>1 DEF LineInv, HalfLine
  <2>2. Len(log) % 2 = 1 => log # << >>
    OBVIOUS
  <2> QED
    BY <2>1, <2>2 DEF OpenInv
<1>3. CASE Close
  <2>1. CASE Quit
    <3>1. Grows
      BY <1>p, <1>h, <2>1 DEF Quit, files, Grows
    <3>2. InBothLogs'
      BY <1>0, <1>p, <2>1, <3>1, StillInBoth DEF MayCopy, Quit, files, BothInv
    <3>3. /\ log' = << >> <=> log = << >>
          /\ \A u \in Testers : no'[u] = no[u] /\ Both(u) => Both(u)'
      BY <1>0, <3>1, StillEmpty, StillBoth
    <3> QED
      BY <1>0, <1>1, <2>1, <3>2, <3>3 DEF Quit, files, BothInv, Closing, PlaceInv, Section, UiOnly
  <2>2. CASE CloseLock
    <3>1. Grows
      BY <1>p, <1>h, <2>2 DEF CloseLock, files, Grows
    <3>2. InBothLogs'
      BY <1>0, <1>p, <2>2, <3>1, StillInBoth DEF MayCopy, CloseLock, files, BothInv
    <3>3. /\ log' = << >> <=> log = << >>
          /\ \A u \in Testers : no'[u] = no[u] /\ Both(u) => Both(u)'
      BY <1>0, <3>1, StillEmpty, StillBoth
    <3> QED
      BY <1>0, <1>1, <2>2, <3>2, <3>3 DEF CloseLock, files, BothInv, Closing, PlaceInv, Section, UiOnly
  <2>3. CASE CloseStamp
    <3>1. Grows
      BY <1>p, <1>h, <2>3 DEF CloseStamp, files, Grows
    <3>2. InBothLogs'
      BY <1>0, <1>p, <2>3, <3>1, StillInBoth DEF MayCopy, CloseStamp, files, BothInv
    <3>3. /\ log' = << >> <=> log = << >>
          /\ \A u \in Testers : no'[u] = no[u] /\ Both(u) => Both(u)'
      BY <1>0, <3>1, StillEmpty, StillBoth
    <3> QED
      BY <1>0, <1>1, <2>3, <3>2, <3>3 DEF CloseStamp, files, BothInv, Closing, PlaceInv, Section, UiOnly
  <2>4. CASE CloseText
    <3>1. Grows
      BY <1>p, <1>h, <2>4 DEF CloseText, files, Grows
    <3>2. InBothLogs'
      BY <1>0, <1>p, <2>4, <3>1, StillInBoth DEF MayCopy, CloseText, files, BothInv
    <3>3. /\ log' = << >> <=> log = << >>
          /\ \A u \in Testers : no'[u] = no[u] /\ Both(u) => Both(u)'
      BY <1>0, <3>1, StillEmpty, StillBoth
    <3> QED
      BY <1>0, <1>1, <2>4, <3>2, <3>3 DEF CloseText, files, BothInv, Closing, PlaceInv, Section, UiOnly
  <2>5. CASE TestClose
    <3>1. Grows
      BY <1>p, <1>h, <2>5 DEF TestClose, files, Grows
    <3>2. InBothLogs'
      BY <1>0, <1>p, <2>5, <3>1, StillInBoth DEF MayCopy, TestClose, files, BothInv
    <3>3. /\ log' = << >> <=> log = << >>
          /\ \A u \in Testers : no'[u] = no[u] /\ Both(u) => Both(u)'
      BY <1>0, <3>1, StillEmpty, StillBoth
    <3> QED
      BY <1>0, <1>1, <2>5, <3>2, <3>3 DEF TestClose, files, BothInv, Closing, PlaceInv, Section, UiOnly
  <2>6. CASE TestCloseStamp
    <3>1. Grows
      BY <1>p, <1>h, <2>6 DEF TestCloseStamp, files, Grows
    <3>2. InBothLogs'
      BY <1>0, <1>p, <2>6, <3>1, StillInBoth DEF MayCopy, TestCloseStamp, files, BothInv
    <3>3. /\ log' = << >> <=> log = << >>
          /\ \A u \in Testers : no'[u] = no[u] /\ Both(u) => Both(u)'
      BY <1>0, <3>1, StillEmpty, StillBoth
    <3> QED
      BY <1>0, <1>1, <2>6, <3>2, <3>3 DEF TestCloseStamp, files, BothInv, Closing, PlaceInv, Section, UiOnly
  <2>7. CASE TestCloseText
    <3>1. Grows
      BY <1>p, <1>h, <2>7 DEF TestCloseText, files, Grows
    <3>2. InBothLogs'
      BY <1>0, <1>p, <2>7, <3>1, StillInBoth DEF MayCopy, TestCloseText, files, BothInv
    <3>3. /\ log' = << >> <=> log = << >>
          /\ \A u \in Testers : no'[u] = no[u] /\ Both(u) => Both(u)'
      BY <1>0, <3>1, StillEmpty, StillBoth
    <3> QED
      BY <1>0, <1>1, <2>7, <3>2, <3>3 DEF TestCloseText, files, BothInv, Closing, PlaceInv, Section, UiOnly
  <2>8. CASE TestFclose
    <3>1. Grows
      BY <1>p, <1>h, <2>8 DEF TestFclose, files, Grows
    <3>2. InBothLogs'
      BY <1>0, <1>p, <2>8, <3>1, StillInBoth DEF MayCopy, TestFclose, files, BothInv
    <3>3. /\ log' = << >> <=> log = << >>
          /\ \A u \in Testers : no'[u] = no[u] /\ Both(u) => Both(u)'
      BY <1>0, <3>1, StillEmpty, StillBoth
    <3> QED
      BY <1>0, <1>1, <2>8, <3>2, <3>3 DEF TestFclose, files, BothInv, Closing, PlaceInv, Section, UiOnly
  <2>9. CASE Closed
    <3>1. Grows
      BY <1>p, <1>h, <2>9 DEF Closed, files, Grows
    <3>2. InBothLogs'
      BY <1>0, <1>p, <2>9, <3>1, StillInBoth DEF MayCopy, Closed, files, BothInv
    <3>3. /\ log' = << >> <=> log = << >>
          /\ \A u \in Testers : no'[u] = no[u] /\ Both(u) => Both(u)'
      BY <1>0, <3>1, StillEmpty, StillBoth
    <3> QED
      BY <1>0, <1>1, <2>9, <3>2, <3>3 DEF Closed, files, BothInv, Closing, PlaceInv, Section, UiOnly
  <2> QED
    BY <1>3, <2>1, <2>2, <2>3, <2>4, <2>5, <2>6, <2>7, <2>8, <2>9 DEF Close
<1>4. CASE Ends
  <2>1. ~(~log_fp /\ log # << >> /\ test_log_fp)
    BY <1>4 DEF Ends, BothInv, Closing
  <2>2. \A t \in Threads : pc'[t] = "over"
    BY <1>4 DEF Ends
  <2>3. InBothLogs'
    BY <1>4 DEF Ends, files, BothInv, InBothLogs
  <2> QED
    BY <1>4, <2>1, <2>2, <2>3 DEF Ends, files, BothInv
<1>5. ASSUME NEW t \in Threads, Message(t)
      PROVE  BothInv'
  <2>1. CASE Call(t)
    <3>1. Grows
      BY <1>p, <1>h, <2>1 DEF Call, files, Grows
    <3>2. InBothLogs'
      BY <1>0, <1>p, <2>1, <3>1, StillInBoth DEF MayCopy, Call, files, BothInv
    <3>3. /\ log' = << >> <=> log = << >>
          /\ \A u \in Testers : no'[u] = no[u] /\ Both(u) => Both(u)'
      BY <1>0, <3>1, StillEmpty, StillBoth
    <3> QED
      BY <1>0, <1>1, <2>1, <3>2, <3>3 DEF Call, files, BothInv, Closing, PlaceInv, Section, UiOnly
  <2>2. CASE Lock(t)
    <3>1. Grows
      BY <1>p, <1>h, <2>2 DEF Lock, files, Grows
    <3>2. InBothLogs'
      BY <1>0, <1>p, <2>2, <3>1, StillInBoth DEF MayCopy, Lock, files, BothInv
    <3>3. /\ log' = << >> <=> log = << >>
          /\ \A u \in Testers : no'[u] = no[u] /\ Both(u) => Both(u)'
      BY <1>0, <3>1, StillEmpty, StillBoth
    <3> QED
      BY <1>0, <1>1, <2>2, <3>2, <3>3 DEF Lock, files, BothInv, Closing, PlaceInv, Section, UiOnly
  <2>3. CASE WriteStamp(t)
    <3>1. Grows
      BY <1>p, <1>h, <2>3 DEF WriteStamp, files, Grows
    <3>2. InBothLogs'
      BY <1>0, <1>p, <2>3, <3>1, StillInBoth DEF MayCopy, WriteStamp, files, BothInv
    <3>3. /\ log' = << >> <=> log = << >>
          /\ \A u \in Testers : no'[u] = no[u] /\ Both(u) => Both(u)'
      BY <1>0, <3>1, StillEmpty, StillBoth
    <3> QED
      BY <1>0, <1>1, <2>3, <3>2, <3>3 DEF WriteStamp, files, BothInv, Closing, PlaceInv, Section, UiOnly
  <2>4. CASE WriteText(t)
    <3>1. Grows
      BY <1>p, <1>h, <2>4 DEF WriteText, files, Grows
    <3>2. InBothLogs'
      BY <1>0, <1>p, <2>4, <3>1, StillInBoth DEF MayCopy, WriteText, files, BothInv
    <3>3. /\ log' = << >> <=> log = << >>
          /\ \A u \in Testers : no'[u] = no[u] /\ Both(u) => Both(u)'
      BY <1>0, <3>1, StillEmpty, StillBoth
    <3>4. Both(t)'
      <4>1. log[Len(log)] = Stamp(t) /\ Len(log) \in 1 .. Len(log)
        <5>1. Len(log) % 2 = 1 /\ log[Len(log)] = Stamp(t)
          BY <1>1, <2>4 DEF WriteText, LineInv, HalfLine
        <5>2. Len(log) % 2 = 1 => Len(log) \in 1 .. Len(log)
          BY <1>0
        <5> QED
          BY <5>1, <5>2
      <4>2. Has(log, Stamp(t))
        BY <4>1 DEF Has
      <4>3. Has(Append(log, Text(t)), Stamp(t)) /\ Has(Append(log, Text(t)), Text(t))
        BY <1>0, <1>p, <4>2, AppendHas
      <4>4. log' = Append(log, Text(t)) /\ Stamp(t)' = Stamp(t) /\ Text(t)' = Text(t)
        BY <2>4 DEF WriteText, Stamp, Text
      <4> QED
        BY <4>3, <4>4 DEF Both, Has
    <3> QED
      BY <1>0, <1>1, <2>4, <3>2, <3>3, <3>4 DEF WriteText, files, BothInv, Closing, PlaceInv, Section, UiOnly
  <2>5. CASE Unlock(t)
    <3>1. Grows
      BY <1>p, <1>h, <2>5 DEF Unlock, files, Grows
    <3>2. InBothLogs'
      BY <1>0, <1>p, <2>5, <3>1, StillInBoth DEF MayCopy, Unlock, files, BothInv
    <3>3. /\ log' = << >> <=> log = << >>
          /\ \A u \in Testers : no'[u] = no[u] /\ Both(u) => Both(u)'
      BY <1>0, <3>1, StillEmpty, StillBoth
    <3> QED
      BY <1>0, <1>1, <2>5, <3>2, <3>3 DEF Unlock, files, BothInv, Closing, PlaceInv, Section, UiOnly
  <2>6. CASE Check(t)
    <3>1. Grows
      BY <1>p, <1>h, <2>6 DEF Check, files, Grows
    <3>2. InBothLogs'
      BY <1>0, <1>p, <2>6, <3>1, StillInBoth DEF MayCopy, Check, files, BothInv
    <3>3. /\ log' = << >> <=> log = << >>
          /\ \A u \in Testers : no'[u] = no[u] /\ Both(u) => Both(u)'
      BY <1>0, <3>1, StillEmpty, StillBoth
    <3> QED
      BY <1>0, <1>1, <2>6, <3>2, <3>3 DEF Check, files, BothInv, Closing, PlaceInv, Section, UiOnly
  <2>7. CASE WriteTestStamp(t)
    <3>1. Grows
      BY <1>p, <1>h, <2>7 DEF WriteTestStamp, files, Grows
    <3>2. InBothLogs'
      <4>1. t \in Testers /\ (log = << >> \/ Both(t))
        BY <1>1, <2>7 DEF WriteTestStamp, PlaceInv, BothInv
      <4>2. log = << >> \/ Has(log, Stamp(t))
        BY <4>1 DEF Both
      <4> QED
        BY <1>0, <1>p, <2>7, <3>1, <4>2, StillInBoth DEF MayCopy, WriteTestStamp, BothInv
    <3>3. /\ log' = << >> <=> log = << >>
          /\ \A u \in Testers : no'[u] = no[u] /\ Both(u) => Both(u)'
      BY <1>0, <3>1, StillEmpty, StillBoth
    <3> QED
      BY <1>0, <1>1, <2>7, <3>2, <3>3 DEF WriteTestStamp, files, BothInv, Closing, PlaceInv, Section, UiOnly
  <2>8. CASE WriteTestText(t)
    <3>1. Grows
      BY <1>p, <1>h, <2>8 DEF WriteTestText, files, Grows
    <3>2. InBothLogs'
      <4>1. t \in Testers /\ (log = << >> \/ Both(t))
        BY <1>1, <2>8 DEF WriteTestText, PlaceInv, BothInv
      <4>2. log = << >> \/ Has(log, Text(t))
        BY <4>1 DEF Both
      <4> QED
        BY <1>0, <1>p, <2>8, <3>1, <4>2, StillInBoth DEF MayCopy, WriteTestText, BothInv
    <3>3. /\ log' = << >> <=> log = << >>
          /\ \A u \in Testers : no'[u] = no[u] /\ Both(u) => Both(u)'
      BY <1>0, <3>1, StillEmpty, StillBoth
    <3> QED
      BY <1>0, <1>1, <2>8, <3>2, <3>3 DEF WriteTestText, files, BothInv, Closing, PlaceInv, Section, UiOnly
  <2> QED
    BY <1>5, <2>1, <2>2, <2>3, <2>4, <2>5, <2>6, <2>7, <2>8 DEF Message
<1>6. CASE UNCHANGED vars
  BY <1>6 DEF vars, BothInv, InBothLogs, Both, Stamp, Text, Has
<1> QED
  BY <1>2, <1>3, <1>4, <1>5, <1>6 DEF Next

LEMMA LogInit == Init => LogTI
<1> SUFFICES ASSUME Init PROVE LogTI
  OBVIOUS
<1>1. OpenInv
  BY DEF Init, OpenInv
<1>2. \A t \in Testers : pc[t] = "idle"
  BY LogOK DEF Init, Threads
<1>3. BothInv
  BY <1>2 DEF Init, BothInv, InBothLogs
<1> QED
  BY LineInit, <1>1, <1>3 DEF LogTI

\* Every message of a test thread in testing.log is in zapret2-tui.log, for any number
\* of test threads and wherever they are when the program ends.
THEOREM MessagesInBothLogs == Spec => []InBothLogs
<1>1. LogTI /\ [Next]_vars => LogTI'
  BY LineStep, OpenStep, BothStep DEF LogTI
<1>2. LogTI => InBothLogs
  BY DEF LogTI, BothInv
<1> QED
  BY LogInit, <1>1, <1>2, PTL DEF Spec
=============================================================================
