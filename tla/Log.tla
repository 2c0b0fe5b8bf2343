---------------------------------- MODULE Log ----------------------------------
(***************************************************************************)
(* The two log files, zapret2-tui.log and testing.log.  The UI thread      *)
(* writes to the first, test threads write each message to both.           *)
(* log_mutex guards the first file only: test_log_msg takes no lock, while *)
(* log_close, called by the UI thread when the program ends, closes the    *)
(* second file under a running test thread.                                *)
(*                                                                         *)
(* A line is written by several calls of fprintf.  Here these are two, the *)
(* time stamp and the text with the end of the line.                       *)
(***************************************************************************)
EXTENDS Integers, Sequences

CONSTANTS
  ui,       \* the UI thread
  Testers,  \* test threads
  MaxMsgs   \* bound: messages of a thread before the program is ended

Threads == Testers \cup {ui}
Free    == "free"

ASSUME LogOK ==
  /\ ui \notin Testers
  /\ Free \notin Threads
  /\ MaxMsgs \in Nat

VARIABLES
  log_mutex,    \* the thread that holds it, or Free
  log_fp,       \* zapret2-tui.log is open
  test_log_fp,  \* testing.log is open
  log,          \* what zapret2-tui.log has, as a sequence of pieces
  test_log,     \* what testing.log has
  pc,           \* where each thread is
  no,           \* the number of each thread's last message
  stage         \* how far the program is in app_cleanup
vars == <<log_mutex, log_fp, test_log_fp, log, test_log, pc, no, stage>>
files == <<log_fp, test_log_fp, log, test_log>>

Stamp(t) == [by |-> t, no |-> no[t], part |-> "stamp"]
Text(t)  == [by |-> t, no |-> no[t], part |-> "text"]

Goto(t, l) == pc' = [pc EXCEPT ![t] = l]
At(t, l)   == pc[t] = l

Init ==
  /\ log_mutex = Free
  /\ log_fp = FALSE /\ test_log_fp = FALSE
  /\ log = << >> /\ test_log = << >>
  /\ pc = [t \in Threads |-> IF t = ui THEN "open" ELSE "idle"]
  /\ no = [t \in Threads |-> 0]
  /\ stage = "start"

Line(file) == Append(Append(file, Stamp(ui)), Text(ui))

\* log_open: from main, and again from core_init, both before there is a test thread.
\* Either file may be one that cannot be opened.  The messages of the UI thread in
\* between, when it is alone, are left out.
log_open ==
  /\ At(ui, "open")
  /\ \/ log_fp' = TRUE /\ log' = IF log_fp THEN log ELSE Line(log)
     \/ ~log_fp /\ UNCHANGED <<log_fp, log>>
  /\ \/ test_log_fp' = TRUE
        /\ test_log' = IF test_log_fp THEN test_log ELSE Line(test_log)
     \/ ~test_log_fp /\ UNCHANGED <<test_log_fp, test_log>>
  /\ IF stage = "start" THEN stage' = "init" /\ UNCHANGED pc
                        ELSE stage' = "run" /\ Goto(ui, "idle")
  /\ UNCHANGED <<log_mutex, no>>

-----------------------------------------------------------------------------
(* log_msg.                                                                *)

Call(t) ==
  /\ At(t, "idle")
  /\ stage # "start" /\ stage # "init"
  /\ no[t] < MaxMsgs
  /\ no' = [no EXCEPT ![t] = @ + 1]
  /\ Goto(t, "lock")
  /\ UNCHANGED <<log_mutex, files, stage>>

\* Mutant: the mutex is not taken.
NoLock(t) ==
  /\ At(t, "lock")
  /\ Goto(t, IF log_fp THEN "stamp" ELSE "unlock")
  /\ UNCHANGED <<log_mutex, files, no, stage>>

\* Mutant: returns at once when the file is not open.
ReturnsLocked(t) ==
  /\ At(t, "lock")
  /\ log_mutex = Free
  /\ log_mutex' = t
  /\ Goto(t, IF log_fp THEN "stamp" ELSE IF t = ui THEN "close" ELSE "check")
  /\ UNCHANGED <<files, no, stage>>

Lock(t) ==
  /\ At(t, "lock")
  /\ log_mutex = Free
  /\ log_mutex' = t
  /\ Goto(t, IF log_fp THEN "stamp" ELSE "unlock")
  /\ UNCHANGED <<files, no, stage>>

WriteStamp(t) ==
  /\ At(t, "stamp")
  /\ log' = Append(log, Stamp(t))
  /\ Goto(t, "text")
  /\ UNCHANGED <<log_mutex, log_fp, test_log_fp, test_log, no, stage>>

WriteText(t) ==
  /\ At(t, "text")
  /\ log' = Append(log, Text(t))
  /\ Goto(t, "unlock")
  /\ UNCHANGED <<log_mutex, log_fp, test_log_fp, test_log, no, stage>>

\* testing_log calls test_log_msg next; the UI thread goes on with what it is at.
Unlock(t) ==
  /\ At(t, "unlock")
  /\ log_mutex' = Free
  /\ Goto(t, IF t # ui THEN "check" ELSE IF stage = "run" THEN "idle" ELSE "close")
  /\ UNCHANGED <<files, no, stage>>

-----------------------------------------------------------------------------
(* test_log_msg, without a lock.                                           *)

Check(t) ==
  /\ At(t, "check")
  /\ Goto(t, IF test_log_fp THEN "test_stamp" ELSE "idle")
  /\ UNCHANGED <<log_mutex, files, no, stage>>

\* A write to the file that log_close has closed in the meantime is undefined: here
\* it is lost, or, see Ends, it ends the program.
WriteTestStamp(t) ==
  /\ At(t, "test_stamp")
  /\ test_log' = IF test_log_fp THEN Append(test_log, Stamp(t)) ELSE test_log
  /\ Goto(t, "test_text")
  /\ UNCHANGED <<log_mutex, log_fp, test_log_fp, log, no, stage>>

WriteTestText(t) ==
  /\ At(t, "test_text")
  /\ test_log' = IF test_log_fp THEN Append(test_log, Text(t)) ELSE test_log
  /\ Goto(t, "idle")
  /\ UNCHANGED <<log_mutex, log_fp, test_log_fp, log, no, stage>>

-----------------------------------------------------------------------------
(* app_cleanup: a message, testing_log_close, which is log_close, a        *)
(* message of ui_cleanup; then main calls log_close again and ends.        *)

Quit ==
  /\ At(ui, "idle")
  /\ stage' = "quit"
  /\ no' = [no EXCEPT ![ui] = @ + 1]
  /\ Goto(ui, "lock")
  /\ UNCHANGED <<log_mutex, files>>

\* log_close.
CloseLock ==
  /\ At(ui, "close")
  /\ log_mutex = Free
  /\ log_mutex' = ui
  /\ no' = [no EXCEPT ![ui] = @ + 1]
  /\ Goto(ui, IF log_fp THEN "close_stamp" ELSE "test_close")
  /\ UNCHANGED <<files, stage>>

CloseStamp ==
  /\ At(ui, "close_stamp")
  /\ log' = Append(log, Stamp(ui))
  /\ Goto(ui, "close_text")
  /\ UNCHANGED <<log_mutex, log_fp, test_log_fp, test_log, no, stage>>

\* Mutant: the mutex is given up before testing.log is closed.
UnlocksEarly ==
  /\ At(ui, "close_text")
  /\ log' = Append(log, Text(ui))
  /\ log_fp' = FALSE
  /\ log_mutex' = Free
  /\ Goto(ui, "test_close")
  /\ UNCHANGED <<test_log_fp, test_log, no, stage>>

\* The text, fclose, log_fp = NULL.
CloseText ==
  /\ At(ui, "close_text")
  /\ log' = Append(log, Text(ui))
  /\ log_fp' = FALSE
  /\ Goto(ui, "test_close")
  /\ UNCHANGED <<log_mutex, test_log_fp, test_log, no, stage>>

\* test_log_close, within log_close.
TestClose ==
  /\ At(ui, "test_close")
  /\ Goto(ui, IF test_log_fp THEN "test_close_stamp" ELSE "closed")
  /\ UNCHANGED <<log_mutex, files, no, stage>>

TestCloseStamp ==
  /\ At(ui, "test_close_stamp")
  /\ test_log' = Append(test_log, Stamp(ui))
  /\ Goto(ui, "test_close_text")
  /\ UNCHANGED <<log_mutex, log_fp, test_log_fp, log, no, stage>>

TestCloseText ==
  /\ At(ui, "test_close_text")
  /\ test_log' = Append(test_log, Text(ui))
  /\ Goto(ui, "test_fclose")
  /\ UNCHANGED <<log_mutex, log_fp, test_log_fp, log, no, stage>>

TestFclose ==
  /\ At(ui, "test_fclose")
  /\ test_log_fp' = FALSE
  /\ Goto(ui, "closed")
  /\ UNCHANGED <<log_mutex, log_fp, log, test_log, no, stage>>

\* After the first log_close comes the message of ui_cleanup, after the second the end
\* of main.
Closed ==
  /\ At(ui, "closed")
  /\ log_mutex' = Free
  /\ IF stage = "quit"
     THEN /\ stage' = "cleanup"
          /\ no' = [no EXCEPT ![ui] = @ + 1]
          /\ Goto(ui, "lock")
     ELSE Goto(ui, "return") /\ UNCHANGED <<no, stage>>
  /\ UNCHANGED files

\* The end of the program, with every thread of it: when main returns, or, for a
\* test thread that writes to a closed file, at once.
Ends ==
  /\ \/ At(ui, "return")
     \/ ~test_log_fp /\ \E t \in Testers : At(t, "test_stamp") \/ At(t, "test_text")
  /\ pc' = [t \in Threads |-> "over"]
  /\ UNCHANGED <<log_mutex, files, no, stage>>

Message(t) ==
  \/ Call(t) \/ Lock(t) \/ WriteStamp(t) \/ WriteText(t) \/ Unlock(t)
  \/ Check(t) \/ WriteTestStamp(t) \/ WriteTestText(t)

Close ==
  \/ Quit \/ CloseLock \/ CloseStamp \/ CloseText
  \/ TestClose \/ TestCloseStamp \/ TestCloseText \/ TestFclose \/ Closed

Next == log_open \/ Close \/ Ends \/ \E t \in Threads : Message(t)

\* A thread in a call goes on with it.
Fairness ==
  /\ \A t \in Threads : WF_vars(~At(t, "idle") /\ Message(t))
  /\ WF_vars(~At(ui, "idle") /\ Close)

Spec == Init /\ [][Next]_vars /\ Fairness

-----------------------------------------------------------------------------
\* A file of whole lines: each stamp is followed by the text of the same message, and
\* only the last line may still be without one.
Whole(file) ==
  \A k \in 1 .. Len(file) :
    /\ k % 2 = 1 => file[k].part = "stamp"
    /\ k % 2 = 0 => file[k] = [file[k - 1] EXCEPT !.part = "text"]

\* No line of zapret2-tui.log is torn apart by one of another thread, although each
\* takes several calls to write.
AppLinesWhole == Whole(log)

\* Every message of a test thread in testing.log is also in zapret2-tui.log, the file
\* that is closed first when the program ends: a test thread gets past the first of
\* the two either before both are closed, or not to the second.  (When
\* zapret2-tui.log cannot be opened there is nothing in it.)
InBothLogs ==
  log # << >> =>
    \A k \in 1 .. Len(test_log) :
      test_log[k].by # ui => \E l \in 1 .. Len(log) : log[l] = test_log[k]

\* Whoever holds log_mutex gives it up, or the program ends: no path through log_msg
\* and log_close, the ones for a file that is not open included, keeps it.
MutexReleased == log_mutex # Free ~> (log_mutex = Free \/ At(ui, "over"))

-----------------------------------------------------------------------------
(* What the repository says, and the code does not do.                     *)

\* README.md:198: "[2026-06-19 09:20:19] [module] [LEVEL]: message" is a line of
\* either file.
TestLinesWhole == Whole(test_log)

\* README.md:189: "All actions are logged to two files": a message is in the log once
\* log_msg has returned.
Logged ==
  log # << >> => \A t \in Threads :
    At(t, "unlock") => \E k \in 1 .. Len(log) : log[k] = Text(t)
=============================================================================
