---------------------------- MODULE TestLifecycle ----------------------------
(***************************************************************************)
(* What profile testing promises whoever looks at the menu: one test or    *)
(* one sweep at a time; a started test is RUNNING until it gets exactly    *)
(* one verdict; a sweep marks all profiles, settles them in menu order and *)
(* leaves none unsettled; a verdict is kept until the next test.           *)
(***************************************************************************)
EXTENDS Naturals

CONSTANT N

VARIABLES
  status,   \* what the menu shows of each profile
  mode      \* "idle", or what is going on: "one" test or a test of "all"

Menu    == 0 .. N-1
Settled == {"SUCCESS", "FAIL", "ERROR", "PARTIAL"}
Fresh   == [i \in Menu |-> "NOT_TESTED"]
Marked  == [i \in Menu |-> "RUNNING"]

Init == status = Fresh /\ mode = "idle"

StartOne(i) ==
  /\ mode = "idle"
  /\ status' = [status EXCEPT ![i] = "RUNNING"]
  /\ mode' = "one"

StartAll ==
  /\ mode = "idle"
  /\ status' = Marked
  /\ mode' = "all"

Verdict(i) ==
  /\ status[i] = "RUNNING"
  /\ mode = "all" => \A j \in 0 .. i-1 : status[j] # "RUNNING"
  /\ \E r \in Settled : status' = [status EXCEPT ![i] = r]
  /\ mode' = IF mode = "all" THEN "all" ELSE "idle"

SweepOver ==
  /\ mode = "all"
  /\ \A i \in Menu : status[i] \in Settled
  /\ mode' = "idle"
  /\ UNCHANGED status

\* The sweep could not be started.
SweepAborted ==
  /\ mode = "all"
  /\ status = Marked
  /\ status' = [i \in Menu |-> "ERROR"]
  /\ mode' = "idle"

\* The program ended and was started again.
Restarted == status' = Fresh /\ mode' = "idle"

Next ==
  \/ \E i \in Menu : StartOne(i) \/ Verdict(i)
  \/ StartAll \/ SweepOver \/ SweepAborted \/ Restarted

Spec == Init /\ [][Next]_<<status, mode>>
=============================================================================
