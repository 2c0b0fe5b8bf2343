------------------------------ MODULE MenuProof ------------------------------
(***************************************************************************)
(* What the menu shows, for any number of profiles and threads, whatever   *)
(* fails but create_rule: the result table implements TestLifecycle, every *)
(* step of the keys and of the test threads being one of the menu's or     *)
(* none; and the UI thread's copy of the table is late at most.            *)
(***************************************************************************)
EXTENDS Screen, TestingProof

-----------------------------------------------------------------------------
(* The inductive invariant of the result table: how far a test or a sweep  *)
(* has come.                                                               *)

\* Only profile i may be RUNNING, and no sweep is on.
OnlyOne(i) ==
  /\ ~testing_all_running
  /\ \A j \in Profiles : testing_results[j] = "RUNNING" => j = i

\* The profiles below i are settled, the others still marked.
SweptTo(i) ==
  \A j \in Profiles :
    /\ j < i => testing_results[j] \in Abstract!Settled
    /\ j >= i => testing_results[j] = "RUNNING"

UiProgress ==
  /\ ui = "one_mark" => OnlyOne(NoProfile)
  /\ ui = "one_spawn" => OnlyOne(menu_index)
  /\ ui = "all_spawn" => SweptTo(0)

ThreadProgress(t) ==
  /\ loc[t].final \in Abstract!Settled
  /\ Live(t) /\ ~isAll[t] => OnlyOne(prof[t])
  /\ Live(t) /\ isAll[t] => SweptTo(IF pc[t] = "all_next" THEN prof[t] + 1 ELSE prof[t])

Progress == UiProgress /\ \A t \in Threads : ThreadProgress(t)

\* A step of the menu, or none.
Maps == Abstract!Next \/ UNCHANGED <<testing_results, mode>>

-----------------------------------------------------------------------------
(* What the result table says, and which mode that is.                     *)

LEMMA JudgeSettles ==
  \A success, exit, found, known : JudgeRun(success, exit, found, known) \in Abstract!Settled
  BY DEF JudgeRun, testing_profile_verdict, Abstract!Settled

LEMMA NoProfileIsNone == NoProfile \notin Profiles /\ 0 \in Profiles
  BY ConstantsOK DEF ConstantsOK, NoProfile, Profiles

LEMMA IdleMode ==
  ASSUME OnlyOne(NoProfile)
  PROVE  mode = "idle"
  BY NoProfileIsNone DEF OnlyOne, mode

LEMMA OneMode ==
  ASSUME NEW i \in Profiles, OnlyOne(i), testing_results[i] = "RUNNING"
  PROVE  mode = "one"
  BY DEF OnlyOne, mode

LEMMA SameMode ==
  ASSUME UNCHANGED sharedVars
  PROVE  UNCHANGED <<testing_results, mode>>
  BY DEF sharedVars, mode

\* Nothing of Progress is about a thread that does not exist.
LEMMA FreeProgress ==
  ASSUME NEW t \in Threads, pc'[t] = "free", loc'[t].final \in Abstract!Settled
  PROVE  ThreadProgress(t)'
  BY DEF ThreadProgress, Live

\* A step inside a test, or of its nfqws2: the menu is left alone.
LEMMA InnerStep ==
  ASSUME Progress, UNCHANGED <<sharedVars, uiVars, prof, isAll>>,
         \A u \in Threads :
           /\ loc'[u].final \in Abstract!Settled
           /\ pc'[u] # pc[u] => pc[u] \in CallLabels /\ pc'[u] \in CallLabels
  PROVE  Progress' /\ Maps
  <1>1. Maps
    BY SameMode DEF Maps
  <1>2. UiProgress'
    BY DEF Progress, UiProgress, OnlyOne, SweptTo, sharedVars, uiVars
  <1>3. ASSUME NEW u \in Threads PROVE ThreadProgress(u)'
    <2>1. /\ Live(u)' = Live(u)
          /\ (pc'[u] = "all_next") = (pc[u] = "all_next")
      BY DEF Live, CallLabels, HolderLabels
    <2>2. ThreadProgress(u)
      BY DEF Progress
    <2> QED BY <2>1, <2>2 DEF ThreadProgress, OnlyOne, SweptTo, sharedVars
  <1> QED BY <1>1, <1>2, <1>3 DEF Progress

-----------------------------------------------------------------------------
(* The keys.                                                               *)

LEMMA UiMaps ==
  ASSUME TypeOK, TestInv, Progress, UiThread
  PROVE  Progress' /\ Maps
  <1> USE DEF AtUi
  <1>a. /\ menu_index \in Profiles
        /\ \A t \in Threads : loc[t].final \in Abstract!Settled
    BY DEF TypeOK, Progress, ThreadProgress
  <1>b. ui \in Starting => \A t \in Threads : pc[t] = "free"
    BY DEF TestInv, ThreadInv, SeenInv, Live
  <1>1. CASE Poll \/ OneCheck
    <2>1. UNCHANGED <<sharedVars, threadVars>>
      BY <1>1 DEF Poll, NoKey, MoveCursor, KeyService, KeyTestOne, KeyTestAll, KeyTest, OneCheck
    <2>2. UiProgress'
      BY <1>1, <2>1 DEF Poll, NoKey, MoveCursor, KeyService, KeyTestOne, KeyTestAll, KeyTest,
         OneCheck, testing_is_running_locked, UiProgress, OnlyOne, sharedVars
    <2>3. \A t \in Threads : ThreadProgress(t)'
      BY <2>1 DEF Progress, ThreadProgress, Live, OnlyOne, SweptTo, sharedVars, threadVars
    <2> QED BY <2>1, <2>2, <2>3, SameMode DEF Progress, Maps
  <1>2. CASE OneMark
    <2>1. OnlyOne(NoProfile) /\ mode = "idle"
      BY <1>2, IdleMode DEF OneMark, Progress, UiProgress
    <2>2. /\ testing_results' = [testing_results EXCEPT ![menu_index] = "RUNNING"]
          /\ UNCHANGED <<testing_all_running, menu_index, pc, loc>> /\ ui' = "one_spawn"
          /\ ui \in Starting
      BY <1>2 DEF OneMark, threadVars, Starting
    <2>3. OnlyOne(menu_index)' /\ testing_results'[menu_index] = "RUNNING"
      BY <1>a, <2>1, <2>2, NoProfileIsNone DEF OnlyOne, TypeOK
    <2>4. mode' = "one"
      BY <1>a, <2>2, <2>3 DEF OnlyOne, mode
    <2>5. Abstract!StartOne(menu_index)
      BY <2>1, <2>2, <2>4 DEF Abstract!StartOne
    <2>6. Maps
      BY <1>a, <2>5 DEF Maps, Abstract!Next, Abstract!Menu, Profiles
    <2>7. \A t \in Threads : ThreadProgress(t)'
      BY <1>a, <1>b, <2>2, FreeProgress
    <2> QED BY <2>2, <2>3, <2>6, <2>7 DEF Progress, UiProgress
  <1>3. CASE AllMark /\ testing_is_running_locked
    <2>1. UNCHANGED <<sharedVars, threadVars>> /\ ui' = "poll"
      BY <1>3 DEF AllMark
    <2>2. \A t \in Threads : ThreadProgress(t)'
      BY <2>1 DEF Progress, ThreadProgress, Live, OnlyOne, SweptTo, sharedVars, threadVars
    <2> QED BY <2>1, <2>2, SameMode DEF Progress, UiProgress, Maps
  <1>4. CASE AllMark /\ ~testing_is_running_locked
    <2>1. mode = "idle" /\ \A t \in Threads : pc[t] = "free"
      BY <1>4, CanStart DEF testing_is_running_locked, mode
    <2>2. /\ testing_all_running' = TRUE
          /\ testing_results' = [i \in Profiles |-> "RUNNING"]
          /\ UNCHANGED <<pc, loc>> /\ ui' = "all_spawn"
      BY <1>4 DEF AllMark, threadVars
    <2>3. mode' = "all"
      BY <2>2 DEF mode
    <2>4. Abstract!StartAll
      BY <2>1, <2>2, <2>3 DEF Abstract!StartAll, Abstract!Marked, Abstract!Menu, Profiles
    <2>5. SweptTo(0)'
      BY <2>2 DEF SweptTo, Profiles
    <2>6. \A t \in Threads : ThreadProgress(t)'
      BY <1>a, <2>1, <2>2, FreeProgress
    <2> QED BY <2>2, <2>4, <2>5, <2>6 DEF Progress, UiProgress, Maps, Abstract!Next
  <1>5. CASE OneSpawn \/ AllSpawn
    <2>1. PICK t \in Threads : Spawn(t)
      BY <1>5 DEF OneSpawn, AllSpawn
    <2>2. /\ ui \in {"one_spawn", "all_spawn"} /\ ui' = "poll"
          /\ UNCHANGED <<sharedVars, loc, menu_index>>
      BY <1>5, <2>1 DEF OneSpawn, AllSpawn, Spawn
    <2>3. \A u \in Threads \ {t} : pc'[u] = "free"
      BY <1>b, <2>1, <2>2 DEF Spawn, Starting, TypeOK
    <2>4. /\ isAll'[t] = (ui = "all_spawn")
          /\ prof'[t] = IF ui = "all_spawn" THEN NoProfile ELSE menu_index
          /\ pc'[t] = IF ui = "all_spawn" THEN "all_next" ELSE "testing_profiles"
      BY <2>1 DEF Spawn, TypeOK
    <2>5. ThreadProgress(t)'
      <3>1. CASE ui = "all_spawn"
        <4>1. SweptTo(0) /\ NoProfile + 1 = 0
          BY <3>1 DEF Progress, UiProgress, NoProfile
        <4>2. SweptTo(0)'
          BY <2>2, <4>1 DEF SweptTo, sharedVars
        <4> QED BY <1>a, <2>2, <2>4, <3>1, <4>1, <4>2 DEF ThreadProgress
      <3>2. CASE ui = "one_spawn"
        <4>1. OnlyOne(menu_index)'
          BY <2>2, <3>2 DEF Progress, UiProgress, OnlyOne, sharedVars
        <4> QED BY <1>a, <2>2, <2>4, <3>2, <4>1 DEF ThreadProgress, OnlyOne
      <3> QED BY <2>2, <3>1, <3>2
    <2>6. \A u \in Threads : ThreadProgress(u)'
      BY <1>a, <2>2, <2>3, <2>5, FreeProgress
    <2> QED BY <2>2, <2>6, SameMode DEF Progress, UiProgress, Maps
  <1>6. CASE OneSpawnFails
    <2>1. /\ ui = "one_spawn" /\ ui' = "poll" /\ UNCHANGED <<testing_all_running, pc, loc>>
          /\ testing_results' = [testing_results EXCEPT ![menu_index] = "ERROR"]
      BY <1>6 DEF OneSpawnFails, threadVars
    <2>2. OnlyOne(menu_index) /\ testing_results[menu_index] = "RUNNING"
      BY <2>1 DEF Progress, UiProgress, TestInv, UiInv
    <2>3. mode = "one"
      BY <1>a, <2>2, OneMode
    <2>4. mode' = "idle"
      BY <1>a, <2>1, <2>2 DEF OnlyOne, mode, TypeOK
    <2>5. Abstract!Verdict(menu_index)
      BY <2>1, <2>2, <2>3, <2>4 DEF Abstract!Verdict, Abstract!Settled
    <2>6. Maps
      BY <1>a, <2>5 DEF Maps, Abstract!Next, Abstract!Menu, Profiles
    <2>7. \A t \in Threads : ThreadProgress(t)'
      BY <1>a, <1>b, <2>1, FreeProgress DEF Starting
    <2> QED BY <2>1, <2>6, <2>7 DEF Progress, UiProgress
  <1>7. CASE AllSpawnFails
    <2>1. /\ ui = "all_spawn" /\ ui' = "poll" /\ UNCHANGED <<pc, loc>>
          /\ testing_all_running' = FALSE
          /\ testing_results' = [i \in Profiles |-> "ERROR"]
      BY <1>7 DEF AllSpawnFails, threadVars
    <2>2. testing_all_running /\ SweptTo(0)
      BY <2>1 DEF Progress, UiProgress, TestInv, UiInv
    <2>3. testing_results = [i \in Profiles |-> "RUNNING"]
      BY <2>2 DEF SweptTo, Profiles, TypeOK
    <2>4. mode = "all" /\ mode' = "idle"
      BY <2>1, <2>2 DEF mode
    <2>5. Abstract!SweepAborted
      BY <2>1, <2>3, <2>4 DEF Abstract!SweepAborted, Abstract!Marked, Abstract!Menu, Profiles
    <2>6. \A t \in Threads : ThreadProgress(t)'
      BY <1>a, <1>b, <2>1, FreeProgress DEF Starting
    <2> QED BY <2>1, <2>5, <2>6 DEF Progress, UiProgress, Maps, Abstract!Next
  <1> QED
    BY <1>1, <1>2, <1>3, <1>4, <1>5, <1>6, <1>7 DEF UiThread

-----------------------------------------------------------------------------
(* The test threads.                                                       *)

\* A test publishes its verdict and returns.
LEMMA Publishes ==
  ASSUME TypeOK, TestInv, Progress, running, NEW t \in Threads, InTest(t),
         NEW r \in Abstract!Settled, testing_profile_set_result(t, r), Return(t),
         UNCHANGED <<uiVars, testing_all_running, isAll>>
  PROVE  Progress' /\ Maps
  <1> USE DEF Goto
  <1>a. prof[t] \in Profiles
    BY DEF TestInv, ThreadInv, SeenInv
  <1>b. PICK i \in Profiles : i = prof[t]
    BY <1>a
  <1>1. /\ Live(t) /\ pc[t] # "all_next" /\ testing_results[i] = "RUNNING" /\ ui \notin Starting
    BY <1>b DEF InTest, Live, CallLabels, HolderLabels, TestInv, ThreadInv, SeenInv
  <1>c. \A u \in Threads : loc'[u].final \in Abstract!Settled
    BY DEF Return, TypeOK, Progress, ThreadProgress, FreshLocals, Abstract!Settled
  <1>d. /\ pc'[t] = IF isAll[t] THEN "all_next" ELSE "free"
        /\ prof'[t] = IF isAll[t] THEN i ELSE NoProfile
        /\ isAll'[t] = isAll[t]
    BY <1>b DEF Return, TypeOK
  <1>2. /\ testing_results' = [testing_results EXCEPT ![i] = r] /\ r # "RUNNING"
        /\ pc'[t] = IF isAll[t] THEN "all_next" ELSE "free"
        /\ prof'[t] = IF isAll[t] THEN i ELSE NoProfile
        /\ isAll'[t] = isAll[t]
        /\ \A u \in Threads : loc'[u].final \in Abstract!Settled
    BY <1>b, <1>c, <1>d DEF testing_profile_set_result, Abstract!Settled
  <1>3. \A u \in Threads \ {t} : pc'[u] = "free"
    BY <1>1, Alone DEF Return, TypeOK
  <1>4. UiProgress'
    BY <1>1 DEF UiProgress, uiVars, Starting
  <1>5. CASE isAll[t]
    <2>1. SweptTo(i) /\ testing_all_running
      BY <1>b, <1>1, <1>5 DEF Progress, ThreadProgress, TestInv, ThreadInv, SeenInv
    <2>2. SweptTo(i + 1)'
      <3>1. ASSUME NEW j \in Profiles
            PROVE  /\ j < i + 1 => testing_results'[j] \in Abstract!Settled
                   /\ j >= i + 1 => testing_results'[j] = "RUNNING"
        <4>1. j \in Int /\ i \in Int
          BY DEF Profiles
        <4>2. CASE j = i
          BY <1>2, <4>1, <4>2 DEF TypeOK
        <4>3. CASE j # i
          BY <1>2, <2>1, <4>1, <4>3 DEF SweptTo, TypeOK
        <4> QED BY <4>2, <4>3
      <3> QED BY <3>1 DEF SweptTo
    <2>3. ThreadProgress(t)'
      BY <1>2, <1>5, <2>2 DEF ThreadProgress
    <2>4. mode = "all" /\ mode' = "all"
      BY <2>1 DEF mode
    <2>5. \A j \in 0 .. i - 1 : testing_results[j] # "RUNNING"
      <3>1. \A j \in 0 .. i - 1 : j \in Profiles /\ j < i
        BY <1>1, ConstantsOK DEF Profiles, ConstantsOK
      <3> QED BY <2>1, <3>1 DEF SweptTo, Abstract!Settled
    <2>6. Abstract!Verdict(i)
      BY <1>1, <1>2, <2>4, <2>5 DEF Abstract!Verdict
    <2>7. Maps
      BY <1>1, <2>6 DEF Maps, Abstract!Next, Abstract!Menu, Profiles
    <2> QED BY <1>2, <1>3, <1>4, <2>3, <2>7, FreeProgress DEF Progress
  <1>6. CASE ~isAll[t]
    <2>1. OnlyOne(i) /\ mode = "one"
      BY <1>b, <1>1, <1>6, OneMode DEF Progress, ThreadProgress
    <2>2. mode' = "idle"
      BY <1>1, <1>2, <2>1 DEF OnlyOne, mode, TypeOK
    <2>3. Abstract!Verdict(i)
      BY <1>1, <1>2, <2>1, <2>2 DEF Abstract!Verdict
    <2>4. Maps
      BY <1>1, <2>3 DEF Maps, Abstract!Next, Abstract!Menu, Profiles
    <2>5. \A u \in Threads : pc'[u] = "free"
      BY <1>2, <1>3, <1>6
    <2> QED BY <1>2, <1>4, <2>4, <2>5, FreeProgress DEF Progress
  <1> QED BY <1>5, <1>6

LEMMA ThreadMaps ==
  ASSUME RuleCreationWorks, TypeOK, TestInv, Progress, NEW t \in Threads, TestThread(t)
  PROVE  Progress' /\ Maps
  <1> USE DEF At, Goto
  <1>a. \A u \in Threads : loc[u].final \in Abstract!Settled
    BY DEF Progress, ThreadProgress
  <1>b. "ERROR" \in Abstract!Settled
    BY DEF Abstract!Settled
  <1>1. CASE AllNext(t)
    <2>1. /\ running /\ pc[t] = "all_next" /\ isAll[t] /\ ui \notin Starting /\ Live(t)
      BY <1>1 DEF AllNext, TestInv, ThreadInv, SeenInv, Live
    <2>a. prof[t] \in Profiles \cup {NoProfile} /\ prof[t] + 1 < N
      BY <1>1 DEF AllNext, TypeOK
    <2>b. prof[t] + 1 \in Profiles
      BY <2>a, ConstantsOK DEF Profiles, NoProfile, ConstantsOK
    <2>c. PICK i \in Profiles : i = prof[t] + 1
      BY <2>b
    <2>2. SweptTo(i)
      BY <2>1, <2>c DEF Progress, ThreadProgress
    <2>3. testing_results' = [testing_results EXCEPT ![i] = "RUNNING"]
      BY <1>1, <2>c DEF AllNext
    <2>4. testing_results[i] = "RUNNING"
      BY <2>2 DEF SweptTo, Profiles
    <2>5. testing_results' = testing_results /\ UNCHANGED <<sharedVars, uiVars, isAll, loc>>
      BY <1>1, <2>3, <2>4 DEF AllNext, TypeOK, sharedVars
    <2>6. /\ pc'[t] = "testing_profiles" /\ prof'[t] = i
          /\ \A u \in Threads \ {t} : pc'[u] = "free"
      BY <1>1, <2>1, <2>c, Alone DEF AllNext, TypeOK
    <2>7. ThreadProgress(t)'
      BY <1>a, <2>1, <2>2, <2>5, <2>6 DEF ThreadProgress, SweptTo, sharedVars
    <2>8. \A u \in Threads : ThreadProgress(u)'
      BY <1>a, <2>5, <2>6, <2>7, FreeProgress
    <2>9. UiProgress'
      BY <2>1, <2>5 DEF UiProgress, uiVars, Starting
    <2> QED BY <2>5, <2>8, <2>9, SameMode DEF Progress, Maps
  <1>2. CASE AllDone(t)
    <2>1. /\ pc[t] = "all_next" /\ isAll[t] /\ ui \notin Starting /\ Live(t)
          /\ testing_all_running
      BY <1>2 DEF AllDone, TestInv, ThreadInv, SeenInv, Live
    <2>2. SweptTo(prof[t] + 1) /\ prof[t] + 1 >= N /\ prof[t] \in Int
      BY <1>2, <2>1, ConstantsOK DEF AllDone, Progress, ThreadProgress, TypeOK, Profiles, NoProfile,
         ConstantsOK
    <2>3. \A j \in Profiles : testing_results[j] \in Abstract!Settled
      BY <2>2, ConstantsOK DEF SweptTo, Profiles, ConstantsOK
    <2>4. testing_all_running' = FALSE /\ UNCHANGED <<testing_results, uiVars, loc>>
      BY <1>2 DEF AllDone
    <2>5. mode = "all" /\ mode' = "idle"
      BY <2>1, <2>3, <2>4 DEF mode, Abstract!Settled
    <2>6. Abstract!SweepOver
      BY <2>3, <2>4, <2>5 DEF Abstract!SweepOver, Abstract!Menu, Profiles
    <2>7. \A u \in Threads : pc'[u] = "free"
      BY <1>2, <2>1, Alone DEF AllDone, TypeOK
    <2>8. \A u \in Threads : ThreadProgress(u)'
      BY <1>a, <2>4, <2>7, FreeProgress
    <2>9. UiProgress'
      BY <2>1, <2>4 DEF UiProgress, uiVars, Starting
    <2> QED BY <2>6, <2>8, <2>9 DEF Progress, Maps, Abstract!Next
  <1>3. CASE Refuse(t)
    <2>1. InTest(t)
      BY <1>3 DEF Refuse, InTest, CallLabels
    <2> QED BY <1>3, <1>b, <2>1, Publishes DEF Refuse
  <1>4. CASE SetResult(t)
    <2>1. InTest(t)
      BY <1>4 DEF SetResult, InTest, CallLabels
    <2> QED BY <1>4, <1>a, <2>1, Publishes DEF SetResult
  <1>5. CASE create_rule_fails(t) \/ RuleFailed(t)
    <2>1. pc[t] # "rule_failed" /\ (pc[t] = "create_rule" => conf.tables \in Backends)
      BY DEF TestInv, ThreadInv, RuleInv
    <2> QED BY <1>5, <2>1 DEF create_rule_fails, RuleFailed, RuleMayFail, RuleCreationWorks
  <1>6. CASE \/ get_test_queue(t) \/ create_rule(t) \/ build_nfqws2_args(t) \/ start_nfqws2(t)
             \/ start_nfqws2_fails(t) \/ wait_for_nfqws2_ready(t) \/ send_https_test_raw(t)
             \/ stop_nfqws2(t) \/ delete_rule(t) \/ delete_rule_fails(t)
    <2>1. UNCHANGED <<sharedVars, uiVars, prof, isAll>>
      BY <1>6 DEF get_test_queue, create_rule, build_nfqws2_args, start_nfqws2, start_nfqws2_fails,
         wait_for_nfqws2_ready, send_https_test_raw, stop_nfqws2, delete_rule, delete_rule_fails
    <2>2. \A u \in Threads : pc'[u] # pc[u] => pc[u] \in CallLabels /\ pc'[u] \in CallLabels
      BY <1>6 DEF get_test_queue, create_rule, build_nfqws2_args, start_nfqws2, start_nfqws2_fails,
         wait_for_nfqws2_ready, send_https_test_raw, stop_nfqws2, delete_rule, delete_rule_fails,
         TypeOK, CallLabels, HolderLabels
    <2>3. \A u \in Threads : loc'[u].final \in Abstract!Settled
      <3>1. CASE get_test_queue(t) \/ create_rule(t) \/ build_nfqws2_args(t) \/ start_nfqws2_fails(t)
                   \/ delete_rule(t)
        BY <1>a, <3>1 DEF get_test_queue, create_rule, build_nfqws2_args, start_nfqws2_fails,
           delete_rule
      <3>2. CASE start_nfqws2(t) \/ delete_rule_fails(t)
        BY <1>a, <1>b, <3>2 DEF start_nfqws2, delete_rule_fails, TypeOK, Locals
      <3>3. CASE wait_for_nfqws2_ready(t)
        BY <1>a, <3>3 DEF wait_for_nfqws2_ready, TypeOK, Locals
      <3>4. CASE send_https_test_raw(t)
        <4>1. ASSUME NEW ok, loc' = [loc EXCEPT ![t].http = ok]
              PROVE  \A v \in Threads : loc'[v].final = loc[v].final
          BY <4>1 DEF TypeOK, Locals
        <4>2. ASSUME NEW u \in Threads, NEW ok, NEW log,
                     loc' = [loc EXCEPT ![u].log = log, ![t].http = ok]
              PROVE  \A v \in Threads : loc'[v].final = loc[v].final
          BY <4>2 DEF TypeOK, Locals
        <4>3. \/ loc' = [loc EXCEPT ![t].http = FALSE] \/ loc' = [loc EXCEPT ![t].http = TRUE]
              \/ \E u \in Threads : \E ok, log : loc' = [loc EXCEPT ![u].log = log, ![t].http = ok]
          BY <3>4 DEF send_https_test_raw
        <4> QED BY <1>a, <4>1, <4>2, <4>3
      <3>5. CASE stop_nfqws2(t)
        <4>1. \E code, logs : loc' = [loc EXCEPT ![t] = [FreshLocals EXCEPT
                !.strategy = loc[t].strategy,
                !.log = loc[t].log \cap {"packet"},
                !.final = JudgeRun(loc[t].http, code, logs, loc[t].binding)]]
          BY <3>5 DEF stop_nfqws2
        <4>2. \E r \in Abstract!Settled : loc'[t].final = r /\ \A u \in Threads \ {t} : loc'[u] = loc[u]
          BY <4>1, JudgeSettles DEF TypeOK, FreshLocals
        <4> QED BY <1>a, <4>2
      <3> QED BY <1>6, <3>1, <3>2, <3>3, <3>4, <3>5
    <2> QED BY <2>1, <2>2, <2>3, InnerStep
  <1> QED
    BY <1>1, <1>2, <1>3, <1>4, <1>5, <1>6 DEF TestThread

-----------------------------------------------------------------------------
(* The result table implements TestLifecycle.                              *)

LEMMA InitMaps ==
  ASSUME Init
  PROVE  Progress /\ Abstract!Init
  <1>1. /\ testing_results = [i \in Profiles |-> "NOT_TESTED"] /\ ~testing_all_running
        /\ ui = "poll" /\ \A t \in Threads : pc[t] = "free" /\ loc[t] = FreshLocals
    BY DEF Init
  <1>2. mode = "idle"
    BY <1>1 DEF mode
  <1>3. Abstract!Init
    BY <1>1, <1>2 DEF Abstract!Init, Abstract!Fresh, Abstract!Menu, Profiles
  <1> QED
    BY <1>1, <1>3 DEF Progress, UiProgress, ThreadProgress, Live, FreshLocals, Abstract!Settled

LEMMA StepMaps ==
  ASSUME RuleCreationWorks, TypeOK, TestInv, Progress, [Next]_vars
  PROVE  Progress' /\ Maps
  <1>a. \A t \in Threads : loc[t].final \in Abstract!Settled
    BY DEF Progress, ThreadProgress
  <1>1. CASE Quit \/ Killed
    <2>1. /\ ui' = "poll" /\ UNCHANGED sharedVars
          /\ \A t \in Threads : pc'[t] = "free" /\ loc'[t].final = "ERROR"
      BY <1>1 DEF Quit, Killed, EndProcess, FreshLocals
    <2> QED
      BY <2>1, SameMode, FreeProgress DEF Progress, UiProgress, Maps, Abstract!Settled
  <1>2. CASE Restart
    <2>1. /\ ui' = "poll" /\ UNCHANGED <<pc, loc>>
          /\ \A t \in Threads : pc[t] = "free"
      BY <1>2 DEF Restart, TestInv, Ended, threadVars
    <2>2. testing_results' = [i \in Profiles |-> "NOT_TESTED"] /\ testing_all_running' = FALSE
      BY <1>2 DEF Restart
    <2>3. mode' = "idle"
      BY <2>2 DEF mode
    <2>4. Abstract!Restarted
      BY <2>2, <2>3 DEF Abstract!Restarted, Abstract!Fresh, Abstract!Menu, Profiles
    <2> QED
      BY <1>a, <2>1, <2>4, FreeProgress DEF Progress, UiProgress, Maps, Abstract!Next
  <1>3. CASE UiThread
    BY <1>3, UiMaps
  <1>4. ASSUME NEW t \in Threads, TestThread(t) PROVE Progress' /\ Maps
    BY <1>4, ThreadMaps
  <1>5. CASE OrphanDies \/ Over \/ UNCHANGED vars \/ \E t \in Threads : ChildBinds(t) \/ ChildDies(t)
    <2>1. UNCHANGED <<sharedVars, uiVars, prof, isAll, pc>>
      BY <1>5 DEF OrphanDies, Over, vars, ChildBinds, ChildDies, threadVars
    <2>2. \A u \in Threads : loc'[u].final \in Abstract!Settled
      BY <1>5, <1>a DEF OrphanDies, Over, vars, ChildBinds, ChildDies, threadVars, TypeOK, Locals
    <2> QED BY <2>1, <2>2, InnerStep
  <1> QED
    BY <1>1, <1>2, <1>3, <1>4, <1>5 DEF Next, Background

\* The menu can be trusted: with its critical sections taken apart and interleaved, the
\* result table behaves like TestLifecycle.  A started test gets one verdict, a sweep
\* settles the profiles in order and leaves none, across ends and restarts.
THEOREM ImplementsLifecycle ==
  ASSUME RuleCreationWorks
  PROVE  Spec => Lifecycle
  <1>1. Init => Progress /\ Abstract!Init
    BY InitMaps
  <1>2. TypeOK /\ TestInv /\ Progress /\ [Next]_vars
          => Progress' /\ [Abstract!Next]_<<testing_results, mode>>
    BY StepMaps DEF Maps
  <1> QED
    BY <1>1, <1>2, TypeCorrect, TestInvariant, PTL DEF Spec, Lifecycle, Abstract!Spec

-----------------------------------------------------------------------------
(* The copy of the result table.                                           *)

\* The copy constrains nothing: without it, Screen does what Testing does.
LEMMA ScreenTests == ScreenSpec => Spec
  <1>1. ScreenInit => Init
    BY DEF ScreenInit
  <1>2. ScreenNext => Next
    BY DEF ScreenNext, ShowUi, ShowPoll, ShowOne, ShowAll, ShowRestart, NotShown, Next, UiThread
  <1>3. [ScreenNext]_screenVars => [Next]_vars
    BY <1>2 DEF screenVars
  <1> QED BY <1>1, <1>3, PTL DEF ScreenSpec, Spec

LEMMA ProgressInvariant ==
  ASSUME RuleCreationWorks
  PROVE  Spec => []Progress
  <1>1. TypeOK /\ TestInv /\ Progress /\ [Next]_vars => Progress'
    BY StepMaps
  <1> QED BY <1>1, InitMaps, TypeCorrect, TestInvariant, PTL DEF Spec

\* Beside the UI thread, a result changes only from RUNNING, for which the copy has
\* RUNNING as well: the mark a sweep sets again is there already.
LEMMA OnlyVerdicts ==
  ASSUME RuleCreationWorks, TypeOK, TestInv, Progress, NEW t \in Threads, TestThread(t),
         NEW i \in Profiles
  PROVE  testing_results'[i] = testing_results[i] \/ testing_results[i] = "RUNNING"
  <1> USE DEF At
  <1>1. CASE AllNext(t)
    <2>1. pc[t] = "all_next" /\ isAll[t] /\ Live(t)
      BY <1>1 DEF AllNext, TestInv, ThreadInv, SeenInv, Live
    <2>2. prof[t] + 1 \in Int
      BY DEF TypeOK, Profiles, NoProfile
    <2>3. SweptTo(prof[t] + 1)
      BY <2>1 DEF Progress, ThreadProgress
    <2>4. CASE i = prof[t] + 1
      BY <2>2, <2>3, <2>4 DEF SweptTo
    <2>5. CASE i # prof[t] + 1
      BY <1>1, <2>5 DEF AllNext, TypeOK
    <2> QED BY <2>4, <2>5
  <1>2. CASE Refuse(t) \/ SetResult(t)
    <2>1. testing_results[prof[t]] = "RUNNING"
      BY <1>2 DEF Refuse, SetResult, InTest, CallLabels, TestInv, ThreadInv, SeenInv
    <2>2. PICK r : testing_results' = [testing_results EXCEPT ![prof[t]] = r]
      BY <1>2 DEF Refuse, SetResult, testing_profile_set_result
    <2> QED BY <2>1, <2>2 DEF TypeOK
  <1>3. CASE create_rule_fails(t) \/ RuleFailed(t)
    <2>1. pc[t] # "rule_failed" /\ (pc[t] = "create_rule" => conf.tables \in Backends)
      BY DEF TestInv, ThreadInv, RuleInv
    <2> QED BY <1>3, <2>1 DEF create_rule_fails, RuleFailed, RuleMayFail, RuleCreationWorks
  <1>4. CASE ~(AllNext(t) \/ Refuse(t) \/ SetResult(t) \/ create_rule_fails(t) \/ RuleFailed(t))
    BY <1>4 DEF TestThread, AllDone, get_test_queue, create_rule, build_nfqws2_args, start_nfqws2,
       start_nfqws2_fails, wait_for_nfqws2_ready, send_https_test_raw, stop_nfqws2, delete_rule,
       delete_rule_fails, sharedVars
  <1> QED BY <1>1, <1>2, <1>3, <1>4

\* OnlyLate is inductive beside Progress.
LateInv == shown \in [Profiles -> Results] /\ OnlyLate

LEMMA LateInit == ScreenInit => LateInv
  <1> SUFFICES ASSUME ScreenInit PROVE LateInv
    OBVIOUS
  <1>1. shown = [i \in Profiles |-> "NOT_TESTED"] /\ testing_results = shown
    BY DEF ScreenInit, Init, Fresh
  <1> QED BY <1>1 DEF LateInv, OnlyLate, Results

LEMMA LateStep ==
  ASSUME RuleCreationWorks, TypeOK, TestInv, Progress, LateInv, [ScreenNext]_screenVars
  PROVE  LateInv'
  <1>1. ASSUME UNCHANGED <<testing_results, shown>>, running' => running PROVE LateInv'
    BY <1>1 DEF LateInv, OnlyLate
  <1>2. ASSUME shown' = testing_results', testing_results' \in [Profiles -> Results]
        PROVE  LateInv'
    BY <1>2 DEF LateInv, OnlyLate
  <1>3. TypeOK'
    <2>1. [Next]_vars
      BY DEF ScreenNext, ShowUi, ShowPoll, ShowOne, ShowAll, ShowRestart, NotShown, Next, UiThread,
         screenVars
    <2> QED BY <2>1, TypeStep
  <1>4. CASE ShowPoll
    <2>1. UNCHANGED testing_results
      BY <1>4 DEF ShowPoll, Poll, NoKey, MoveCursor, KeyService, KeyTestOne, KeyTestAll, KeyTest,
         sharedVars
    <2> QED BY <1>2, <1>4, <2>1 DEF ShowPoll, refresh_testing_profiles, TypeOK
  <1>5. CASE ShowOne
    <2>1. PICK r \in {"RUNNING", "ERROR"} :
            /\ testing_results' = [testing_results EXCEPT ![menu_index] = r]
            /\ shown' = [shown EXCEPT ![menu_index] = r]
            /\ running' = running
      BY <1>5 DEF ShowOne, OneMark, OneSpawnFails, procVars
    <2>2. r \in Results
      BY DEF Results
    <2> QED BY <2>1, <2>2 DEF LateInv, OnlyLate, TypeOK
  <1>6. CASE ShowAll
    <2>1. CASE AllMark /\ testing_is_running_locked
      BY <1>1, <1>6, <2>1 DEF ShowAll, AllMark, AllSpawnFails, AtUi, procVars, sharedVars
    <2>2. CASE ~(AllMark /\ testing_is_running_locked)
      BY <1>2, <1>3, <1>6, <2>2 DEF ShowAll, AllMark, AllSpawnFails, TypeOK
    <2> QED BY <2>1, <2>2
  <1>7. CASE (OneCheck \/ OneSpawn \/ AllSpawn) /\ UNCHANGED shown
    BY <1>1, <1>7 DEF OneCheck, OneSpawn, AllSpawn, Spawn, procVars, sharedVars
  <1>8. CASE ShowRestart
    BY <1>2, <1>3, <1>8 DEF ShowRestart, Restart, Fresh, TypeOK
  <1>9. CASE (Quit \/ Killed \/ Over) /\ UNCHANGED shown
    BY <1>1, <1>9 DEF Quit, Killed, EndProcess, Over, vars, procVars, sharedVars
  <1>10. CASE Background /\ UNCHANGED shown
    <2>1. CASE \E t \in Threads : TestThread(t)
      <3>1. PICK t \in Threads : TestThread(t)
        BY <2>1
      <3>2. running
        BY <3>1 DEF TestThread, At, AllNext, AllDone, Refuse, get_test_queue, create_rule,
           create_rule_fails, RuleFailed, build_nfqws2_args, start_nfqws2, start_nfqws2_fails,
           wait_for_nfqws2_ready, send_https_test_raw, stop_nfqws2, delete_rule,
           delete_rule_fails, SetResult
      <3>3. ASSUME NEW i \in Profiles PROVE shown'[i] \in {testing_results'[i], "RUNNING"}
        <4>1. shown[i] \in {testing_results[i], "RUNNING"}
          BY <3>2 DEF LateInv, OnlyLate
        <4>2. testing_results'[i] = testing_results[i] \/ testing_results[i] = "RUNNING"
          BY <3>1, OnlyVerdicts
        <4> QED BY <1>10, <4>1, <4>2
      <3> QED BY <1>10, <3>3 DEF LateInv, OnlyLate
    <2>2. CASE OrphanDies \/ \E t \in Threads : ChildBinds(t) \/ ChildDies(t)
      BY <1>1, <1>10, <2>2 DEF OrphanDies, ChildBinds, ChildDies, procVars, sharedVars
    <2> QED BY <1>10, <2>1, <2>2 DEF Background
  <1>11. CASE UNCHANGED screenVars
    BY <1>1, <1>11 DEF screenVars, vars, procVars, sharedVars
  <1> QED
    BY <1>4, <1>5, <1>6, <1>7, <1>8, <1>9, <1>10, <1>11 DEF ScreenNext, ShowUi, NotShown

\* The menu is behind the result table in one way only, for any number of profiles and
\* sweeps: it may say TESTING of a test that is over.  A verdict it shows is the last one
\* published, never one from before a test that has begun since.
THEOREM MenuOnlyLate ==
  ASSUME RuleCreationWorks
  PROVE  ScreenSpec => []OnlyLate
  <1>1. TypeOK /\ TestInv /\ Progress /\ LateInv /\ [ScreenNext]_screenVars => LateInv'
    BY LateStep
  <1>2. Spec => [](TypeOK /\ TestInv /\ Progress)
    BY TypeCorrect, TestInvariant, ProgressInvariant, PTL
  <1>3. LateInv => OnlyLate
    BY DEF LateInv
  <1> QED BY <1>1, <1>2, <1>3, LateInit, ScreenTests, PTL DEF ScreenSpec
=============================================================================
