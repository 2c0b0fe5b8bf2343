------------------------------- MODULE NfqwsRun -------------------------------
(***************************************************************************)
(* One run of nfqws2 under a test: the process the test forked, the pipe   *)
(* its output goes through, and the test thread that waits for it to bind, *)
(* sends the request, stops it, collects what it printed and judges it.    *)
(* Testing takes these steps whole; here they are taken apart, for nobody  *)
(* reads the pipe during the request, both buffers end somewhere, and      *)
(* nfqws2 goes on printing until it is gone.                               *)
(*                                                                         *)
(* Output is counted in cells.  A marker is one cell, but the binding      *)
(* message is two: it can straddle the end of a buffer.                    *)
(***************************************************************************)
EXTENDS Verdict, Sequences, FiniteSets

CONSTANTS
  PipeSize,     \* cells the pipe holds before its writer blocks (64 KiB)
  WaitSize,     \* cells in the buffer of wait_for_nfqws2_ready (4095 bytes)
  LogSize,      \* cells in nfqws2_logs (16383 bytes)
  Boots,        \* what nfqws2 may print on its way to the queue
  MaxBoot       \* bound: how much of it

ASSUME SizesOK ==
  /\ PipeSize \in Nat \ {0, 1}
  /\ WaitSize \in Nat \ {0}
  /\ LogSize \in Nat \ {0}
  /\ Boots \subseteq {"noise", "error", "need_queue"}
  /\ MaxBoot \in Nat

VARIABLES
  pc,           \* where the test thread is
  confirmed,    \* binding_confirmed
  waitbuf,      \* what wait_for_nfqws2_ready has read, and will drop
  logs,         \* nfqws2_logs
  request,      \* the HTTPS request on its way
  http,         \* http_res.success
  verdict,
  summary,
  child,        \* the process
  code,         \* its exit code, as stop_nfqws2_and_collect_logs returns it
  signal,       \* the last signal it was sent, 0 for none
  pipe,         \* printed and not read
  printed       \* all it printed, in order

threadVars == <<pc, confirmed, waitbuf, logs, http, verdict, summary>>
childVars  == <<child, code>>
vars       == <<threadVars, childVars, request, signal, pipe, printed>>

Cells     == (Markers \ {"bind"}) \cup {"noise", "bind1", "bind2"}
Elems(s)  == {s[k] : k \in 1 .. Len(s)}
Least(m, n) == IF m < n THEN m ELSE n

\* What strstr finds in a buffer.
Found(buf) ==
  (Elems(buf) \cap Markers)
    \cup (IF {"bind1", "bind2"} \subseteq Elems(buf) THEN {"bind"} ELSE {})

\* start_nfqws2 has returned.
Init ==
  /\ pc = "wait"
  /\ confirmed = FALSE
  /\ waitbuf = << >>
  /\ logs = << >>
  /\ request = "none"
  /\ http = FALSE
  /\ verdict = "RUNNING"
  /\ summary = "none"
  /\ child = "forked"
  /\ code = 0
  /\ signal = 0
  /\ pipe = << >>
  /\ printed = << >>

-----------------------------------------------------------------------------
(* nfqws2.  It blocks when the pipe is full.                               *)

Alive == child \in {"forked", "booting", "bound"}

Prints(cells) ==
  /\ Len(pipe) + Len(cells) <= PipeSize
  /\ pipe' = pipe \o cells
  /\ printed' = printed \o cells

Exits(status) == child' = "zombie" /\ code' = status

Exec ==
  /\ child = "forked"
  /\ child' = "booting"
  /\ UNCHANGED <<threadVars, code, request, signal, pipe, printed>>

ExecFails ==
  /\ child = "forked"
  /\ Prints(<<"execv_failed">>)
  /\ Exits(1)
  /\ UNCHANGED <<threadVars, request, signal>>

BootPrints ==
  /\ child = "booting"
  /\ Len(printed) < MaxBoot
  /\ \E m \in Boots : Prints(<<m>>)
  /\ UNCHANGED <<threadVars, childVars, request, signal>>

Binds ==
  /\ child = "booting"
  /\ Prints(<<"bind1", "bind2">>)
  /\ child' = "bound"
  /\ UNCHANGED <<threadVars, code, request, signal>>

Receives ==
  /\ child = "bound"
  /\ request = "sent"
  /\ Prints(<<"packet">>)
  /\ request' = "received"
  /\ UNCHANGED <<threadVars, childVars, signal>>

Desyncs ==
  /\ child = "bound"
  /\ request = "received"
  /\ Prints(<<"lua_func">>)
  /\ request' = "altered"
  /\ UNCHANGED <<threadVars, childVars, signal>>

\* The packet goes on, as it is or altered, and the site answers or does not.
Passes ==
  /\ child = "bound"
  /\ request \in {"received", "altered"}
  /\ request' = "answered"
  /\ UNCHANGED <<threadVars, childVars, signal, pipe, printed>>

\* It complains about the packet.
Complains ==
  /\ child = "bound"
  /\ request = "received"
  /\ "error" \notin Elems(printed)
  /\ Prints(<<"error">>)
  /\ UNCHANGED <<threadVars, childVars, request, signal>>

\* It gives up by itself, or crashes on signal 11.
Dies ==
  /\ child \in {"booting", "bound"}
  /\ \E status \in {1, 128 + 11} : Exits(status)
  /\ UNCHANGED <<threadVars, request, signal, pipe, printed>>

\* SIGTERM ends it, by its handler or without one, unless it hangs.
Terminates ==
  /\ Alive
  /\ signal = SIGTERM
  /\ \/ Exits(128 + SIGTERM)
     \/ child # "forked" /\ Exits(0)
  /\ UNCHANGED <<threadVars, request, signal, pipe, printed>>

IsKilled ==
  /\ Alive
  /\ signal = SIGKILL
  /\ Exits(128 + SIGKILL)
  /\ UNCHANGED <<threadVars, request, signal, pipe, printed>>

Child ==
  \/ Exec \/ ExecFails \/ BootPrints \/ Binds \/ Receives \/ Desyncs \/ Passes
  \/ Complains \/ Dies \/ Terminates \/ IsKilled

-----------------------------------------------------------------------------
(* The test thread.                                                        *)

At(l)   == pc = l
Goto(l) == pc' = l

\* Mutant: what the buffer already holds is not subtracted from its size.
ReadPastEnd(buf, size) ==
  LET n == Least(Len(pipe), size) IN
  [ buf |-> buf \o SubSeq(pipe, 1, n), rest |-> SubSeq(pipe, n + 1, Len(pipe)) ]

\* read(): as much of the pipe as fits into a buffer of the given size.
Read(buf, size) ==
  LET n == Least(Len(pipe), size - Len(buf)) IN
  [ buf |-> buf \o SubSeq(pipe, 1, n), rest |-> SubSeq(pipe, n + 1, Len(pipe)) ]

Hangup == child \in {"zombie", "reaped"}

\* One poll and read of wait_for_nfqws2_ready.  A full buffer makes read return 0,
\* which ends the wait like the end of the output does.
WaitReads ==
  LET r == Read(waitbuf, WaitSize) IN
  /\ At("wait")
  /\ pipe # << >>
  /\ waitbuf' = r.buf
  /\ pipe' = r.rest
  /\ confirmed' = ("bind" \in Found(r.buf))
  /\ Goto(IF confirmed' \/ r.buf = waitbuf \/ Hangup THEN "http" ELSE "wait")
  /\ UNCHANGED <<logs, http, verdict, summary, childVars, request, signal, printed>>

\* 5 seconds are over, or there is nothing left to wait for.
WaitEnds ==
  /\ At("wait")
  /\ Goto("http")
  /\ UNCHANGED <<confirmed, waitbuf, logs, http, verdict, summary, childVars, request,
                 signal, pipe, printed>>

Sends ==
  /\ At("http")
  /\ request = "none"
  /\ request' = "sent"
  /\ UNCHANGED <<threadVars, childVars, signal, pipe, printed>>

\* send_https_test_raw returns, and stop_nfqws2_and_collect_logs sends SIGTERM.
Answered ==
  /\ At("http")
  /\ http' = TRUE
  /\ request = "answered"
  /\ signal' = SIGTERM
  /\ Goto("drain")
  /\ UNCHANGED <<confirmed, waitbuf, logs, verdict, summary, childVars, request, pipe, printed>>

\* No name, no connection, no answer in time, an answer that is not 2xx or 3xx.
NotAnswered ==
  /\ At("http")
  /\ signal' = SIGTERM
  /\ Goto("drain")
  /\ UNCHANGED <<confirmed, waitbuf, logs, http, verdict, summary, childVars, request, pipe,
                 printed>>

\* A round of the drain loop: read what there is, and leave at the end of output;
\* then see whether the process is gone, and leave if so.
DrainReads ==
  LET r == Read(logs, LogSize) IN
  /\ pc \in {"drain", "drain_on"}
  /\ Len(logs) < LogSize
  /\ logs' = r.buf
  /\ pipe' = r.rest
  /\ Goto(IF Hangup THEN "reap" ELSE "drain_wait")
  /\ UNCHANGED <<confirmed, waitbuf, http, verdict, summary, childVars, request, signal, printed>>

DrainWaits ==
  /\ At("drain_wait")
  /\ IF child = "zombie"
     THEN child' = "reaped" /\ Goto("judge")
     ELSE UNCHANGED child /\ Goto("drain_on")
  /\ UNCHANGED <<confirmed, waitbuf, logs, http, verdict, summary, code, request, signal,
                 pipe, printed>>

\* The buffer is full, or 5 seconds are over.
DrainEnds ==
  /\ At("drain_on")
  /\ Goto("reap")
  /\ UNCHANGED <<confirmed, waitbuf, logs, http, verdict, summary, childVars, request,
                 signal, pipe, printed>>

Reaps ==
  /\ pc \in {"reap", "kill_wait"}
  /\ child = "zombie"
  /\ child' = "reaped"
  /\ Goto("judge")
  /\ UNCHANGED <<confirmed, waitbuf, logs, http, verdict, summary, code, request, signal,
                 pipe, printed>>

\* Mutant: SIGTERM once more.
Insists ==
  /\ At("reap")
  /\ child # "zombie"
  /\ signal' = SIGTERM
  /\ Goto("kill_wait")
  /\ UNCHANGED <<confirmed, waitbuf, logs, http, verdict, summary, childVars, request, pipe,
                 printed>>

\* 2 seconds are over.
Kills ==
  /\ At("reap")
  /\ child # "zombie"
  /\ signal' = SIGKILL
  /\ Goto("kill_wait")
  /\ UNCHANGED <<confirmed, waitbuf, logs, http, verdict, summary, childVars, request, pipe,
                 printed>>

\* Mutant: a logged packet counts as a queue hit, without the binding message.
JudgesHit ==
  LET res == Repair(analyze_test(http, code, Found(logs)), TRUE) IN
  /\ At("judge")
  /\ verdict' = testing_profile_verdict(res)
  /\ summary' = testing_profile_summary(res)
  /\ Goto("done")
  /\ UNCHANGED <<confirmed, waitbuf, logs, http, childVars, request, signal, pipe, printed>>

Judges ==
  LET res == Repair(analyze_test(http, code, Found(logs)), confirmed) IN
  /\ At("judge")
  /\ verdict' = testing_profile_verdict(res)
  /\ summary' = testing_profile_summary(res)
  /\ Goto("done")
  /\ UNCHANGED <<confirmed, waitbuf, logs, http, childVars, request, signal, pipe, printed>>

Thread ==
  \/ WaitReads \/ WaitEnds \/ Sends \/ Answered \/ NotAnswered \/ DrainReads
  \/ DrainWaits \/ DrainEnds \/ Reaps \/ Kills \/ Judges

Next == Thread \/ Child

Spec == Init /\ [][Next]_vars

\* The thread is scheduled, the time of the drain runs out however often output or
\* another round keeps it going, and SIGKILL is not refused.
FairSpec == Spec /\ WF_vars(Thread) /\ SF_vars(DrainEnds) /\ WF_vars(IsKilled)

-----------------------------------------------------------------------------
\* Type invariant: the labels of both processes, and what the buffers can hold.
TypeOK ==
  /\ pc \in {"wait", "http", "drain", "drain_wait", "drain_on", "reap", "kill_wait",
             "judge", "done"}
  /\ confirmed \in BOOLEAN
  /\ waitbuf \in Seq(Cells) /\ Len(waitbuf) <= WaitSize
  /\ logs \in Seq(Cells) /\ Len(logs) <= LogSize
  /\ request \in {"none", "sent", "received", "altered", "answered"}
  /\ http \in BOOLEAN
  /\ verdict \in Results
  /\ summary \in DOMAIN SummaryWord \cup {"none"}
  /\ child \in {"forked", "booting", "bound", "zombie", "reaped"}
  /\ code \in Nat
  /\ signal \in {0, SIGTERM, SIGKILL}
  /\ pipe \in Seq(Cells) /\ Len(pipe) <= PipeSize
  /\ printed \in Seq(Cells)

Printed == Elems(printed)

\* A verdict other than ERROR is about the strategy: it is given only when nfqws2
\* received the request, whatever became of its output and of the process.
VerdictSound ==
  verdict \in {"SUCCESS", "PARTIAL", "FAIL"} => "packet" \in Printed

\* The buffers took what was printed: the binding message was not cut in two, and
\* the rest of the output had room.
Fits ==
  /\ "bind1" \in Elems(waitbuf) => "bind2" \in Elems(waitbuf)
  /\ Len(printed) - Len(waitbuf) <= LogSize

\* When the request came through and nfqws2 ended as it should, the verdict is not
\* ERROR, although wait_for_nfqws2_ready drops the binding message the verdict
\* looks for, and the drain may leave before the last of the output is read.
WorkingNotError ==
  pc = "done" /\ http /\ Fits /\ nfqws2_exit_is_expected(code) /\ "need_queue" \notin Printed
    => verdict # "ERROR"

\* The line SUMMARY of testing.log says what the menu shows: the two chains of
\* conditions, written separately, agree on every run.
SummaryAgrees == pc = "done" => SummaryWord[summary] = verdict

\* The run keeps to what Testing counts on, which takes it in three steps: the stages of
\* NfqwsContract, with the traces the test thread has not dropped.
stage ==
  CASE pc \in {"wait", "http"} -> pc
    [] pc = "done" -> "over"
    [] OTHER -> "stop"

Traces(cells) ==
  (cells \cap {"packet", "lua_func"})
    \cup (IF {"bind1", "bind2"} \subseteq cells THEN {"bind"} ELSE {})

NotDropped == IF pc = "wait" THEN Printed ELSE Elems(logs) \cup Elems(pipe)

Left == Traces(NotDropped)

Contract == INSTANCE NfqwsContract WITH log <- Left, binding <- confirmed

KeepsContract == Contract!Spec

\* The run ends, also when nfqws2 hangs, ignores SIGTERM, or is blocked because
\* nobody reads its output.
RunEnds == <>(pc = "done")

-----------------------------------------------------------------------------
(* What the repository says of a verdict, and the code does not do.        *)

\* testing_profiles.c:86, when no other reason for ERROR was found: "no packets
\* received AND no desync - nfqws2 not working".
ErrorMeansNoPackets ==
  pc = "done" /\ verdict = "ERROR" /\ nfqws2_exit_is_expected(code)
    /\ Found(logs) \cap {"execv_failed", "need_queue"} = {} => "packet" \notin Printed

\* testing_profiles.c:91: "SUCCESS: http_code=2xx desync=1 errors=0".
SuccessMeansNoErrors == verdict = "SUCCESS" => "error" \notin Printed

\* The help window, ui/ui.c:279-280: "(F) FAIL site unavailable".
FailMeansUnavailable == verdict = "FAIL" => ~http
=============================================================================
