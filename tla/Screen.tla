-------------------------------- MODULE Screen --------------------------------
(***************************************************************************)
(* The copy of the results the menu is drawn from.  It belongs to the UI   *)
(* thread: refresh_testing_profiles brings it up to date on every pass of  *)
(* the main loop, and the T and A keys write to the copy and to the shared *)
(* table, so that the menu does not wait for the next pass.                *)
(***************************************************************************)
EXTENDS Testing

VARIABLE shown      \* state->testing_profiles

screenVars == <<vars, shown>>

Fresh == [i \in Profiles |-> "NOT_TESTED"]

ScreenInit == Init /\ shown = Fresh

\* Mutant: the last profile is never copied.
RefreshAllButLast ==
  shown' = [i \in Profiles |-> IF i < N - 1 THEN testing_results[i] ELSE shown[i]]

refresh_testing_profiles == shown' = testing_results

\* A pass of the loop up to the key: every core_update but the last refreshes.
ShowPoll == Poll /\ refresh_testing_profiles

\* Mutant: only the shared table gets the mark.
MarkOneNotShown ==
  \/ OneMark /\ UNCHANGED shown
  \/ OneSpawnFails /\ shown' = [shown EXCEPT ![menu_index] = "ERROR"]

ShowOne ==
  \/ OneMark /\ shown' = [shown EXCEPT ![menu_index] = "RUNNING"]
  \/ OneSpawnFails /\ shown' = [shown EXCEPT ![menu_index] = "ERROR"]

ShowAll ==
  \/ AllMark /\ shown' = IF testing_is_running_locked THEN shown
                         ELSE [i \in Profiles |-> "RUNNING"]
  \/ AllSpawnFails /\ shown' = [i \in Profiles |-> "ERROR"]

ShowUi ==
  \/ ShowPoll \/ ShowOne \/ ShowAll
  \/ (OneCheck \/ OneSpawn \/ AllSpawn) /\ UNCHANGED shown

\* core_init, for every start of the program.
ShowRestart == Restart /\ shown' = Fresh

NotShown == (Quit \/ Killed \/ Over \/ Background) /\ UNCHANGED shown

ScreenNext == ShowUi \/ ShowRestart \/ NotShown

ScreenSpec == ScreenInit /\ [][ScreenNext]_screenVars

\* getch() returns after 50 ms at the latest, so the loop goes on; every wait of a test
\* thread has a timeout.
FairScreenSpec ==
  ScreenSpec /\ WF_screenVars(ShowUi) /\ \A t \in Threads : WF_vars(TestThread(t))

-----------------------------------------------------------------------------
\* The menu may be late, in one way: it still says TESTING of a test that is over.
\* It never shows a verdict of an earlier test while a new one is running, nor a
\* verdict nobody published.  Needs RuleCreationWorks.
OnlyLate ==
  \A i \in Profiles : running => shown[i] \in {testing_results[i], "RUNNING"}

\* Every result that lasts comes to be shown.
ScreenCatchesUp ==
  \A i \in Profiles, r \in Results :
    testing_results[i] = r ~> ~running \/ shown[i] = r \/ testing_results[i] # r
=============================================================================
