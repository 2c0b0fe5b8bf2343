------------------------------- MODULE Verdict -------------------------------
(***************************************************************************)
(* How one profile test is judged: what analyze_test finds in the output   *)
(* of nfqws2, and the two decision chains that read it, the verdict shown  *)
(* in the menu and the summary written to the log.                         *)
(*                                                                         *)
(* The output is a set of markers, one for each text the code looks for    *)
(* with strstr; everything else nfqws2 prints is left out.                 *)
(***************************************************************************)
EXTENDS Naturals

Results == {"NOT_TESTED", "SUCCESS", "FAIL", "RUNNING", "ERROR", "PARTIAL"}

(***************************************************************************)
(* "bind": binding this socket to queue.  "packet": packet:                *)
(* "lua_call", "desync_word": the two halves of "* lua '...: desync".      *)
(* "lua_func": one of LUA: fake:, multisplit:, wssize:, pktmod:            *)
(* "error": [ERROR].  "execv_failed" is perror() of the forked child,      *)
(* "need_queue" is Need queue number.                                      *)
(***************************************************************************)
Markers == {"bind", "packet", "lua_call", "desync_word", "lua_func",
            "error", "execv_failed", "need_queue"}

SIGKILL == 9
SIGTERM == 15

nfqws2_exit_is_expected(code) == code \in {0, 1, 128 + SIGTERM}

\* The record analyze_test fills in.
analyze_test(success, code, logs) ==
  [ test_success    |-> success,
    nfqws_exit_code |-> code,
    logs            |-> logs,
    packet_received |-> "packet" \in logs,
    queue_hit       |-> {"bind", "packet"} \subseteq logs,
    desync_applied  |-> {"lua_call", "desync_word"} \subseteq logs
                          \/ "lua_func" \in logs,
    errors_detected |-> logs \cap {"error", "execv_failed"} # {} ]

\* Mutant: the test relies on the collected output alone.
NoRepair(res, binding_confirmed) == res

\* wait_for_nfqws2_ready has already read, and dropped, the binding message
\* it confirms, so the test puts queue_hit right afterwards.
Repair(res, binding_confirmed) ==
  [ res EXCEPT !.queue_hit = @ \/ (binding_confirmed /\ res.packet_received) ]

\* Mutant: nobody asks whether nfqws2 got the request at all.
NotBroken(res) ==
  \/ ~nfqws2_exit_is_expected(res.nfqws_exit_code)
  \/ "execv_failed" \in res.logs
  \/ "need_queue" \in res.logs

\* The four early returns both chains begin with.
Broken(res) ==
  \/ ~nfqws2_exit_is_expected(res.nfqws_exit_code)
  \/ "execv_failed" \in res.logs
  \/ "need_queue" \in res.logs
  \/ ~res.queue_hit /\ ~res.desync_applied

testing_profile_verdict(res) ==
  CASE Broken(res) -> "ERROR"
    [] ~Broken(res) /\ res.test_success /\ ~res.errors_detected ->
         IF res.desync_applied THEN "SUCCESS" ELSE "PARTIAL"
    [] OTHER -> "FAIL"

\* Mutant: the last-but-one case is forgotten.
SummaryWithoutErrors(res) ==
  IF Broken(res) THEN "not_working"
  ELSE IF res.test_success
       THEN IF res.desync_applied THEN "works" ELSE "no_desync"
       ELSE IF res.desync_applied THEN "breaks" ELSE "no_effect"

\* The line SUMMARY of testing.log.  The four texts of Broken are one here.
testing_profile_summary(res) ==
  CASE Broken(res) -> "not_working"
    [] ~Broken(res) /\ ~res.test_success ->
         IF res.desync_applied THEN "breaks" ELSE "no_effect"
    [] ~Broken(res) /\ res.test_success /\ res.errors_detected -> "errors"
    [] OTHER -> IF res.desync_applied THEN "works" ELSE "no_desync"

\* The first word of each summary.
SummaryWord == [ not_working |-> "ERROR", works |-> "SUCCESS", no_desync |-> "PARTIAL",
                 breaks |-> "FAIL", no_effect |-> "FAIL", errors |-> "FAIL" ]

\* The verdict of a finished run.
JudgeRun(success, code, logs, binding_confirmed) ==
  testing_profile_verdict(Repair(analyze_test(success, code, logs), binding_confirmed))

=============================================================================
