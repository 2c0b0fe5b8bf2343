----------------------------- MODULE NfqwsContract -----------------------------
(***************************************************************************)
(* What a test may count on in one run of nfqws2, whatever becomes of the  *)
(* process, its output and its buffers: the request is sent when the wait  *)
(* for the binding message is over, that wait confirms only a message that *)
(* was printed and loses nothing else, and the verdict is a judgement of   *)
(* what was left of the output.  Testing takes a run in these steps, and   *)
(* NfqwsRun takes it apart.                                                *)
(***************************************************************************)
EXTENDS Verdict

VARIABLES
  stage,    \* "none", or where the test is: "wait", "http", "stop"; "over" when judged
  log,      \* traces in the output that the test can still find
  binding,  \* binding_confirmed
  http,     \* http_res.success
  verdict
vars == <<stage, log, binding, http, verdict>>

Init ==
  /\ stage \in {"none", "wait"}
  /\ log = {}
  /\ binding = FALSE
  /\ http = FALSE
  /\ verdict \in Results

Starts ==
  /\ stage = "none"
  /\ stage' = "wait"
  /\ UNCHANGED <<log, binding, http, verdict>>

\* A desync is logged of a packet only.
Logs(traces) ==
  /\ "lua_func" \in traces => "packet" \in log \cup traces
  /\ log' = log \cup traces

\* There is no packet before the request.
Prints ==
  /\ \/ stage = "wait" /\ Logs({"bind"})
     \/ stage \in {"http", "stop"} /\ \E traces \in SUBSET {"bind", "packet", "lua_func"} : Logs(traces)
  /\ UNCHANGED <<stage, binding, http, verdict>>

\* What was read is dropped: of the traces, only the binding message.
WaitEnds ==
  /\ stage = "wait"
  /\ stage' = "http"
  /\ log' \in {log, log \ {"bind"}}
  /\ binding' \in BOOLEAN
  /\ binding' => "bind" \in log
  /\ UNCHANGED <<http, verdict>>

Requests ==
  /\ stage = "http"
  /\ stage' = "stop"
  /\ \E traces \in SUBSET {"packet", "lua_func"} : Logs(traces)
  /\ http' \in BOOLEAN
  /\ UNCHANGED <<binding, verdict>>

\* A part of the output may be missed; it may hold a complaint; nfqws2 may have ended as
\* expected or not.
Judges ==
  /\ stage = "stop"
  /\ stage' = "over"
  /\ \E code \in {0, 128 + SIGKILL}, found \in SUBSET (log \cup {"error"}) :
       verdict' = JudgeRun(http, code, found, binding)
  /\ log \cap {"packet"} \subseteq log'
  /\ log' \subseteq log
  /\ binding' \in BOOLEAN /\ http' \in BOOLEAN

\* The test goes on without nfqws2, or the program has ended.
Leaves ==
  /\ stage' = "none"
  /\ log' = {}
  /\ binding' = FALSE
  /\ http' = FALSE
  /\ verdict' \in Results

Next == Starts \/ Prints \/ WaitEnds \/ Requests \/ Judges \/ Leaves

Spec == Init /\ [][Next]_vars
=============================================================================
