----------------------------- MODULE TestingProof -----------------------------
(***************************************************************************)
(* What holds of Testing for any number of profiles and threads.  First    *)
(* whatever fails, concurrent tests included: types, the packet-filter     *)
(* rules, sweeps, and who owns the status RUNNING.  Then while create_rule *)
(* works: that tests never overlap, and what follows from it.              *)
(***************************************************************************)
EXTENDS Testing, FiniteSetTheorems, TLAPS

-----------------------------------------------------------------------------
(* Type correctness.                                                       *)

\* Every way to judge a run ends in a result code.
LEMMA VerdictType ==
  ASSUME NEW success, NEW code, NEW logs, NEW confirmed
  PROVE  JudgeRun(success, code, logs, confirmed) \in Results
  BY DEF JudgeRun, testing_profile_verdict, Results

\* The modulo of the cursor stays in the menu.
LEMMA CursorType ==
  ASSUME NEW i \in Profiles
  PROVE  (i - 1 + N) % N \in Profiles /\ (i + 1) % N \in Profiles
  <1>1. \A a \in Int, n \in Nat \ {0} : a % n \in 0 .. n-1
    OBVIOUS
  <1>2. i - 1 + N \in Int /\ i + 1 \in Int /\ N \in Nat \ {0}
    BY ConstantsOK DEF ConstantsOK, Profiles
  <1> QED BY <1>1, <1>2 DEF Profiles

LEMMA FreshType == FreshLocals \in Locals
  BY DEF FreshLocals, Locals, Results

\* Each update of the locals that a step makes keeps them well typed.
LEMMA LocalsField == \A r \in Locals :
  /\ r.log \in SUBSET Markers
  /\ r.strategy \in Profiles \cup {NoProfile}
  /\ r.final \in Results
  /\ r.tries \in 0 .. 2
  BY DEF Locals

LEMMA LocalsStart == \A r \in Locals, i \in Profiles \cup {NoProfile} :
  [r EXCEPT !.strategy = i] \in Locals
  BY DEF Locals

LEMMA LocalsLog == \A r \in Locals, log \in SUBSET Markers : [r EXCEPT !.log = log] \in Locals
  BY DEF Locals

LEMMA LocalsWait == \A r \in Locals, b \in BOOLEAN, log \in SUBSET Markers :
  [r EXCEPT !.binding = b, !.log = log] \in Locals
  BY DEF Locals

LEMMA LocalsHttp == \A r \in Locals, b \in BOOLEAN : [r EXCEPT !.http = b] \in Locals
  BY DEF Locals

LEMMA LocalsFinal == \A r \in Locals, f \in Results : [r EXCEPT !.final = f] \in Locals
  BY DEF Locals

LEMMA LocalsTries == \A r \in Locals, k \in 0 .. 2 : [r EXCEPT !.tries = k] \in Locals
  BY DEF Locals

LEMMA LocalsStop ==
  \A i \in Profiles \cup {NoProfile}, log \in SUBSET Markers, f \in Results :
    [FreshLocals EXCEPT !.strategy = i, !.log = log, !.final = f] \in Locals
  BY FreshType DEF Locals

LEMMA TypeInit == Init => TypeOK
  <1> SUFFICES ASSUME Init PROVE TypeOK
    OBVIOUS
  <1> USE DEF Init
  <1>1. menu_index \in Profiles /\ sessions \in Nat
    BY ConstantsOK DEF ConstantsOK, Profiles
  <1>2. running \in BOOLEAN /\ conf \in Confs /\ ui \in UiLabels /\ orphan \in BOOLEAN
          /\ testing_all_running \in BOOLEAN /\ zapret2_active \in BOOLEAN
    BY DEF UiLabels
  <1>3. testing_results \in [Profiles -> Results]
    BY DEF Results
  <1>4. pc \in [Threads -> ThreadLabels] /\ isAll \in [Threads -> BOOLEAN]
    BY DEF ThreadLabels
  <1>5. prof \in [Threads -> Profiles \cup {NoProfile}]
          /\ nfqws2_args \in Profiles \cup {NoProfile}
    OBVIOUS
  <1>6. loc \in [Threads -> Locals]
    BY FreshType
  <1>7. child \in [Threads -> {"none", "booting", "bound", "dead"}] /\ rules \in [Backends -> Nat]
    OBVIOUS
  <1> QED BY <1>1, <1>2, <1>3, <1>4, <1>5, <1>6, <1>7 DEF TypeOK

LEMMA TypeUi == TypeOK /\ UiThread => TypeOK'
  <1> SUFFICES ASSUME TypeOK, UiThread PROVE TypeOK'
    OBVIOUS
  <1> USE DEF TypeOK, procVars, sharedVars, threadVars, osVars, AtUi, UiLabels, Results
  <1>1. CASE NoKey BY <1>1 DEF NoKey
  <1>2. CASE MoveCursor
    <2>1. menu_index' \in Profiles BY <1>2, CursorType DEF MoveCursor
    <2> QED BY <1>2, <2>1 DEF MoveCursor
  <1>3. CASE KeyService BY <1>3 DEF KeyService
  <1>4. CASE KeyTestOne \/ KeyTestAll BY <1>4 DEF KeyTestOne, KeyTestAll, KeyTest
  <1>5. CASE OneCheck BY <1>5 DEF OneCheck
  <1>6. CASE OneMark BY <1>6 DEF OneMark
  <1>7. CASE AllMark BY <1>7 DEF AllMark
  <1>8. CASE OneSpawn \/ AllSpawn
    <2>1. PICK t \in Threads : Spawn(t)
      BY <1>8 DEF OneSpawn, AllSpawn
    <2>2. pc' \in [Threads -> ThreadLabels]
      BY <2>1 DEF Spawn, ThreadLabels, CallLabels
    <2>3. prof' \in [Threads -> Profiles \cup {NoProfile}]
      BY <2>1 DEF Spawn
    <2>4. isAll' \in [Threads -> BOOLEAN]
      BY <2>1 DEF Spawn
    <2> QED BY <2>1, <2>2, <2>3, <2>4 DEF Spawn
  <1>9. CASE OneSpawnFails BY <1>9 DEF OneSpawnFails
  <1>10. CASE AllSpawnFails BY <1>10 DEF AllSpawnFails
  <1> QED
    BY <1>1, <1>2, <1>3, <1>4, <1>5, <1>6, <1>7, <1>8, <1>9, <1>10 DEF UiThread, Poll

LEMMA TypeThread == \A t \in Threads : TypeOK /\ TestThread(t) => TypeOK'
  <1> SUFFICES ASSUME NEW t \in Threads, TypeOK, TestThread(t) PROVE TypeOK'
    OBVIOUS
  <1> USE DEF TypeOK, procVars, uiVars, sharedVars, threadVars, osVars, At, Goto, ThreadLabels,
              CallLabels, HolderLabels
  <1> USE FreshType
  <1>1. CASE AllNext(t)
    BY <1>1, ConstantsOK, SMTT(30) DEF AllNext, Results, ConstantsOK, Profiles, NoProfile
  <1>2. CASE AllDone(t) BY <1>2 DEF AllDone
  <1>3. CASE Refuse(t) BY <1>3 DEF Refuse, testing_profile_set_result, Return, Results
  <1>4. CASE get_test_queue(t) BY <1>4 DEF get_test_queue
  <1>5. CASE create_rule(t) BY <1>5 DEF create_rule
  <1>6. CASE create_rule_fails(t)
    BY <1>6 DEF create_rule_fails, testing_profile_set_result, Results
  <1>7. CASE RuleFailed(t) BY <1>7 DEF RuleFailed, testing_profile_set_result, Return, Results
  <1>8. CASE build_nfqws2_args(t) BY <1>8 DEF build_nfqws2_args
  <1>9. CASE start_nfqws2(t) BY <1>9 DEF start_nfqws2, Locals
  <1>10. CASE start_nfqws2_fails(t) BY <1>10 DEF start_nfqws2_fails
  <1>11. CASE wait_for_nfqws2_ready(t)
    <2>1. PICK confirmed \in BOOLEAN, dropped \in SUBSET (loc[t].log \cap {"bind"}) :
            /\ confirmed => dropped # {}
            /\ loc' = [loc EXCEPT ![t] = [loc[t] EXCEPT !.binding = confirmed,
                                                        !.log = loc[t].log \ dropped]]
      BY <1>11, Zenon DEF wait_for_nfqws2_ready
    <2>2. loc' \in [Threads -> Locals]
      <3>1. loc[t] \in Locals /\ loc[t].log \ dropped \in SUBSET Markers
        BY LocalsField
      <3>2. [loc[t] EXCEPT !.binding = confirmed, !.log = loc[t].log \ dropped] \in Locals
        BY <3>1, LocalsWait
      <3> QED BY <2>1, <3>2
    <2> QED BY <1>11, <2>2 DEF wait_for_nfqws2_ready
  <1>12. CASE send_https_test_raw(t)
    <2>1. loc' \in [Threads -> Locals]
      <3>1. ASSUME NEW b \in BOOLEAN, loc' = [loc EXCEPT ![t].http = b]
            PROVE  loc' \in [Threads -> Locals]
        BY <3>1, LocalsHttp
      <3>2. ASSUME NEW u \in Threads, NEW ok \in BOOLEAN, NEW desync \in SUBSET {"lua_func"},
                   loc' = [loc EXCEPT ![u].log = @ \cup {"packet"} \cup desync, ![t].http = ok]
            PROVE  loc' \in [Threads -> Locals]
        <4> DEFINE log == loc[u].log \cup {"packet"} \cup desync
                   mid == [loc EXCEPT ![u] = [loc[u] EXCEPT !.log = log]]
        <4>1. log \in SUBSET Markers
          BY LocalsField DEF Markers
        <4>2. mid \in [Threads -> Locals]
          <5> HIDE DEF log
          <5> QED BY <4>1, LocalsLog
        <4>3. loc' = [mid EXCEPT ![t] = [mid[t] EXCEPT !.http = ok]]
          BY <3>2
        <4> HIDE DEF mid
        <4>4. mid[t] \in Locals
          BY <4>2
        <4>5. [mid[t] EXCEPT !.http = ok] \in Locals
          BY <4>4, LocalsHttp
        <4> QED BY <4>2, <4>3, <4>5
      <3> QED BY <1>12, <3>1, <3>2 DEF send_https_test_raw
    <2> QED BY <1>12, <2>1 DEF send_https_test_raw
  <1>13. CASE stop_nfqws2(t)
    <2>1. loc' \in [Threads -> Locals]
      <3>1. PICK code \in {0, 128 + SIGKILL}, logs \in SUBSET (loc[t].log \cup (Chatter \cap {"error"})) :
              loc' = [loc EXCEPT ![t] = [FreshLocals EXCEPT
                        !.strategy = loc[t].strategy,
                        !.log = loc[t].log \cap {"packet"},
                        !.final = JudgeRun(loc[t].http, code, logs, loc[t].binding)]]
        BY <1>13 DEF stop_nfqws2
      <3>2. loc[t].strategy \in Profiles \cup {NoProfile}
              /\ loc[t].log \cap {"packet"} \in SUBSET Markers
        BY LocalsField
      <3>3. JudgeRun(loc[t].http, code, logs, loc[t].binding) \in Results
        BY VerdictType
      <3> QED BY <3>1, <3>2, <3>3, LocalsStop
    <2> QED BY <1>13, <2>1 DEF stop_nfqws2
  <1>14. CASE delete_rule(t)
    <2>1. \A b \in Backends : rules[b] > 0 => rules[b] - 1 \in Nat
      OBVIOUS
    <2>2. rules' \in [Backends -> Nat]
      BY <1>14, <2>1 DEF delete_rule, Deletable, Backends
    <2> QED BY <1>14, <2>2 DEF delete_rule
  <1>15. CASE delete_rule_fails(t)
    <2>1. loc' \in [Threads -> Locals]
      <3>1. CASE loc[t].tries < 2
        <4>1. loc[t].tries + 1 \in 0 .. 2
          BY <3>1, LocalsField
        <4>2. loc' = [loc EXCEPT ![t] = [loc[t] EXCEPT !.tries = loc[t].tries + 1]]
          BY <1>15, <3>1 DEF delete_rule_fails
        <4>3. loc[t] \in Locals
          OBVIOUS
        <4> QED BY <4>1, <4>2, <4>3, LocalsTries
      <3>2. CASE ~(loc[t].tries < 2)
        <4>1. "ERROR" \in Results
          BY DEF Results
        <4> QED BY <1>15, <3>2, <4>1, LocalsFinal DEF delete_rule_fails
      <3> QED BY <3>1, <3>2
    <2> QED BY <1>15, <2>1 DEF delete_rule_fails
  <1>16. CASE SetResult(t) BY <1>16 DEF SetResult, testing_profile_set_result, Return, Locals
  <1> QED
    BY <1>1, <1>2, <1>3, <1>4, <1>5, <1>6, <1>7, <1>8, <1>9, <1>10, <1>11, <1>12, <1>13,
       <1>14, <1>15, <1>16 DEF TestThread

LEMMA TypeStep == TypeOK /\ [Next]_vars => TypeOK'
  <1> SUFFICES ASSUME TypeOK, [Next]_vars PROVE TypeOK'
    OBVIOUS
  <1> USE DEF TypeOK, procVars, uiVars, sharedVars, threadVars, osVars
  <1>1. CASE Quit \/ Killed
    <2>1. EndProcess
      BY <1>1 DEF Quit, Killed
    <2>2. pc' \in [Threads -> ThreadLabels] /\ isAll' \in [Threads -> BOOLEAN]
      BY <2>1 DEF EndProcess, ThreadLabels
    <2>3. prof' \in [Threads -> Profiles \cup {NoProfile}]
      BY <2>1 DEF EndProcess
    <2>4. loc' \in [Threads -> Locals] /\ child' \in [Threads -> {"none", "booting", "bound", "dead"}]
      BY <2>1, FreshType DEF EndProcess
    <2>5. orphan' \in BOOLEAN /\ ui' \in UiLabels
      BY <2>1 DEF EndProcess, UiLabels
    <2> QED BY <2>1, <2>2, <2>3, <2>4, <2>5 DEF EndProcess
  <1>2. CASE Restart
    <2>1. menu_index' \in Profiles
      BY <1>2, ConstantsOK DEF Restart, ConstantsOK, Profiles
    <2>2. testing_results' \in [Profiles -> Results]
      BY <1>2 DEF Restart, Results
    <2>3. nfqws2_args' \in Profiles \cup {NoProfile} /\ sessions' \in Nat
      BY <1>2 DEF Restart
    <2> QED BY <1>2, <2>1, <2>2, <2>3 DEF Restart
  <1>3. CASE Over \/ UNCHANGED vars BY <1>3 DEF Over, vars
  <1>4. CASE UiThread BY <1>4, TypeUi
  <1>5. ASSUME NEW t \in Threads, TestThread(t) PROVE TypeOK'
    BY <1>5, TypeThread
  <1>6. ASSUME NEW t \in Threads, ChildBinds(t) PROVE TypeOK'
    BY <1>6 DEF ChildBinds, Locals, Markers
  <1>7. ASSUME NEW t \in Threads, ChildDies(t) PROVE TypeOK'
    BY <1>7 DEF ChildDies
  <1>8. CASE OrphanDies BY <1>8 DEF OrphanDies
  <1> QED BY <1>1, <1>2, <1>3, <1>4, <1>5, <1>6, <1>7, <1>8 DEF Next, Background

\* Type correctness of the whole program: no step of the UI thread, of a test thread,
\* of nfqws2 or of a restart leaves the domains of TypeOK.
THEOREM TypeCorrect == Spec => []TypeOK
  BY TypeInit, TypeStep, PTL DEF Spec
-----------------------------------------------------------------------------
(* Rules and the tests that need them.                                     *)

Gone == ~running => \A t \in Threads : pc[t] = "free"

\* Beyond create_rule the packet filter is one the program knows.
Known == \A t \in Threads : pc[t] \in HolderLabels => conf.tables \in Backends

RuleCountInv == Gone /\ Known /\ RulesCovered

\* The holders are finitely many, and one more or less is counted as one.
LEMMA HoldersFinite == IsFiniteSet(Holders) /\ Cardinality(Holders) \in Nat
  <1>1. IsFiniteSet(Holders)
    BY ConstantsOK, FS_Subset DEF ConstantsOK, Holders
  <1> QED BY <1>1, FS_CardinalityType

LEMMA HolderAdded ==
  ASSUME NEW t \in Threads, t \notin Holders, Holders' = Holders \cup {t}
  PROVE  Cardinality(Holders') = Cardinality(Holders) + 1
  BY HoldersFinite, FS_AddElement

LEMMA HolderRemoved ==
  ASSUME NEW t \in Threads, t \in Holders, Holders' = Holders \ {t}
  PROVE  Cardinality(Holders') = Cardinality(Holders) - 1
  BY HoldersFinite, FS_RemoveElement

\* A step that moves thread t within HolderLabels, or outside of them.
LEMMA SameHolders ==
  ASSUME TypeOK, RuleCountInv, running, NEW t \in Threads, NEW l,
         pc' = [pc EXCEPT ![t] = l],
         pc[t] \in HolderLabels <=> l \in HolderLabels,
         UNCHANGED <<running, conf, rules>>
  PROVE  RuleCountInv'
  <1>1. \A u \in Threads : pc'[u] \in HolderLabels <=> pc[u] \in HolderLabels
    BY DEF TypeOK
  <1>2. Holders' = Holders
    BY <1>1 DEF Holders
  <1> QED BY <1>1, <1>2 DEF RuleCountInv, Gone, Known, RulesCovered

LEMMA NoHolders ==
  ASSUME TypeOK, \A t \in Threads : pc'[t] = "free", rules' = rules, conf' \in Confs
  PROVE  RuleCountInv'
  <1>1. Holders' = {}
    BY DEF Holders, HolderLabels
  <1>2. Cardinality(Holders') = 0
    BY <1>1, FS_EmptySet
  <1>3. conf'.tables \in Backends => rules'[conf'.tables] \in Nat
    BY DEF TypeOK
  <1>4. RulesCovered'
    BY <1>2, <1>3 DEF RulesCovered
  <1> QED BY <1>4 DEF RuleCountInv, Gone, Known, HolderLabels

LEMMA RuleThread ==
  ASSUME TypeOK, RuleCountInv, NEW t \in Threads, TestThread(t)
  PROVE  RuleCountInv'
  <1> USE DEF At, Goto, procVars, uiVars, sharedVars, threadVars, osVars
  <1>1. CASE AllNext(t) BY <1>1, SameHolders DEF AllNext, HolderLabels
  <1>2. CASE AllDone(t) BY <1>2, SameHolders DEF AllDone, HolderLabels
  <1>3. CASE Refuse(t) BY <1>3, SameHolders DEF Refuse, Return, HolderLabels
  <1>4. CASE get_test_queue(t) BY <1>4, SameHolders DEF get_test_queue, HolderLabels
  <1>5. CASE create_rule(t)
    <2>1. t \notin Holders /\ Holders' = Holders \cup {t}
      BY <1>5 DEF create_rule, Holders, HolderLabels, TypeOK
    <2>2. Cardinality(Holders') = Cardinality(Holders) + 1
      BY <2>1, HolderAdded
    <2>3. rules'[conf.tables] = rules[conf.tables] + 1 /\ rules[conf.tables] \in Nat
      BY <1>5 DEF create_rule, TypeOK
    <2>4. RulesCovered'
      BY <1>5, <2>2, <2>3, HoldersFinite DEF create_rule, RuleCountInv, RulesCovered
    <2>5. Gone' /\ Known'
      BY <1>5 DEF create_rule, RuleCountInv, Gone, Known, TypeOK
    <2> QED BY <2>4, <2>5 DEF RuleCountInv
  <1>6. CASE create_rule_fails(t) BY <1>6, SameHolders DEF create_rule_fails, HolderLabels
  <1>7. CASE RuleFailed(t) BY <1>7, SameHolders DEF RuleFailed, Return, HolderLabels
  <1>8. CASE build_nfqws2_args(t) BY <1>8, SameHolders DEF build_nfqws2_args, HolderLabels
  <1>9. CASE start_nfqws2(t) BY <1>9, SameHolders DEF start_nfqws2, HolderLabels
  <1>10. CASE start_nfqws2_fails(t) BY <1>10, SameHolders DEF start_nfqws2_fails, HolderLabels
  <1>11. CASE wait_for_nfqws2_ready(t)
    BY <1>11, SameHolders DEF wait_for_nfqws2_ready, HolderLabels
  <1>12. CASE send_https_test_raw(t) BY <1>12, SameHolders DEF send_https_test_raw, HolderLabels
  <1>13. CASE stop_nfqws2(t) BY <1>13, SameHolders DEF stop_nfqws2, HolderLabels
  <1>14. ASSUME At(t, "delete_rule"), Goto(t, "set_result"), UNCHANGED <<running, conf>>,
                rules' = rules \/ rules' = [rules EXCEPT ![conf.tables] = @ - 1]
         PROVE  RuleCountInv'
    <2>1. t \in Holders /\ Holders' = Holders \ {t}
      BY <1>14 DEF Holders, HolderLabels, TypeOK
    <2>2. Cardinality(Holders') = Cardinality(Holders) - 1
      BY <2>1, HolderRemoved
    <2>3. conf.tables \in Backends /\ rules[conf.tables] \in Nat
      BY <1>14 DEF RuleCountInv, Known, HolderLabels, TypeOK
    <2>4. rules'[conf.tables] \in {rules[conf.tables], rules[conf.tables] - 1}
      BY <1>14, <2>3 DEF TypeOK
    <2>5. RulesCovered'
      BY <1>14, <2>2, <2>3, <2>4, HoldersFinite DEF RuleCountInv, RulesCovered
    <2>6. Gone' /\ Known'
      BY <1>14, <2>3 DEF RuleCountInv, Gone, Known
    <2> QED BY <2>5, <2>6 DEF RuleCountInv
  <1>15. CASE delete_rule(t) BY <1>14, <1>15 DEF delete_rule
  <1>16. CASE delete_rule_fails(t)
    <2>1. CASE loc[t].tries < 2
      BY <1>16, <2>1 DEF delete_rule_fails, RuleCountInv, Gone, Known, RulesCovered, Holders
    <2>2. CASE ~(loc[t].tries < 2)
      BY <1>14, <1>16, <2>2 DEF delete_rule_fails
    <2> QED BY <2>1, <2>2
  <1>17. CASE SetResult(t) BY <1>17, SameHolders DEF SetResult, Return, HolderLabels
  <1> QED
    BY <1>1, <1>2, <1>3, <1>4, <1>5, <1>6, <1>7, <1>8, <1>9, <1>10, <1>11, <1>12, <1>13,
       <1>15, <1>16, <1>17 DEF TestThread

LEMMA RuleStep == TypeOK /\ RuleCountInv /\ [Next]_vars => RuleCountInv'
  <1> SUFFICES ASSUME TypeOK, RuleCountInv, [Next]_vars PROVE RuleCountInv'
    OBVIOUS
  <1> USE DEF procVars, uiVars, sharedVars, threadVars, osVars
  <1>1. ASSUME UNCHANGED <<running, conf, pc, rules>> PROVE RuleCountInv'
    BY <1>1 DEF RuleCountInv, Gone, Known, RulesCovered, Holders
  <1>2. CASE Quit \/ Killed
    BY <1>2, NoHolders DEF Quit, Killed, EndProcess, TypeOK
  <1>3. CASE Restart
    BY <1>3, NoHolders DEF Restart, RuleCountInv, Gone
  <1>4. CASE Over \/ UNCHANGED vars
    BY <1>1, <1>4 DEF Over, vars
  <1>5. CASE UiThread
    <2>1. CASE OneSpawn \/ AllSpawn
      <3>1. PICK t \in Threads : Spawn(t) /\ running
        BY <2>1 DEF OneSpawn, AllSpawn, AtUi
      <3> QED BY <3>1, SameHolders DEF Spawn, FreeSlots, HolderLabels
    <2>2. CASE ~(OneSpawn \/ AllSpawn)
      BY <1>1, <1>5, <2>2 DEF UiThread, Poll, NoKey, MoveCursor, KeyService, KeyTestOne, KeyTestAll,
         KeyTest, OneCheck, OneMark, OneSpawnFails, AllMark, AllSpawnFails
    <2> QED BY <2>1, <2>2
  <1>6. ASSUME NEW t \in Threads, TestThread(t) PROVE RuleCountInv'
    BY <1>6, RuleThread
  <1>7. ASSUME NEW t \in Threads, ChildBinds(t) \/ ChildDies(t) PROVE RuleCountInv'
    BY <1>1, <1>7 DEF ChildBinds, ChildDies
  <1>8. CASE OrphanDies
    BY <1>1, <1>8 DEF OrphanDies
  <1> QED BY <1>2, <1>3, <1>4, <1>5, <1>6, <1>7, <1>8 DEF Next, Background

LEMMA RuleInit == Init => RuleCountInv
  <1> SUFFICES ASSUME Init PROVE RuleCountInv
    OBVIOUS
  <1>1. Holders = {}
    BY DEF Init, Holders, HolderLabels
  <1>2. Cardinality(Holders) = 0
    BY <1>1, FS_EmptySet
  <1> QED BY <1>2 DEF Init, RuleCountInv, Gone, Known, RulesCovered, HolderLabels

LEMMA RuleInvariant == Spec => []RuleCountInv
  BY RuleInit, RuleStep, TypeCorrect, PTL DEF Spec

\* Tests that share the text of one rule never leave one of them without: with any number
\* of tests, sessions, left-over rules and failed deletions there is a rule for each.
THEOREM RuleForEachTest == Spec => []RulesCovered
  <1>1. RuleCountInv => RulesCovered
    BY DEF RuleCountInv
  <1> QED BY <1>1, RuleInvariant, PTL

-----------------------------------------------------------------------------
(* No rule is left behind, while iptables -D works.                        *)

LeakInv == sessions >= 1 /\ NoLeakedRule

\* A holder has a rule, so its deletion finds one.
LEMMA HolderHasRule ==
  ASSUME TypeOK, RuleCountInv, NEW t \in Threads, pc[t] \in HolderLabels
  PROVE  conf.tables \in Backends /\ rules[conf.tables] # 0
  <1>1. t \in Holders
    BY DEF Holders
  <1>2. Cardinality(Holders) # 0
    BY <1>1, HoldersFinite, FS_EmptySet
  <1>3. conf.tables \in Backends /\ Cardinality(Holders) <= rules[conf.tables]
    BY DEF RuleCountInv, Known, RulesCovered
  <1> QED BY <1>2, <1>3, HoldersFinite DEF TypeOK

\* A step of thread t that neither takes a rule nor gives one back.
LEMMA SameRules ==
  ASSUME TypeOK, LeakInv, running, NEW t \in Threads, NEW l,
         pc' = [pc EXCEPT ![t] = l],
         pc[t] \in HolderLabels <=> l \in HolderLabels,
         UNCHANGED <<running, sessions, conf, rules>>
  PROVE  LeakInv'
  <1>1. \A u \in Threads : pc'[u] \in HolderLabels <=> pc[u] \in HolderLabels
    BY DEF TypeOK
  <1>2. Holders' = Holders
    BY <1>1 DEF Holders
  <1> QED BY <1>2 DEF LeakInv, NoLeakedRule

LEMMA LeakThread ==
  ASSUME "delete_rule" \notin Faults, TypeOK, RuleCountInv, LeakInv,
         NEW t \in Threads, TestThread(t)
  PROVE  LeakInv'
  <1> USE DEF At, Goto, procVars, osVars
  <1>1. CASE AllNext(t) BY <1>1, SameRules DEF AllNext, HolderLabels
  <1>2. CASE AllDone(t) BY <1>2, SameRules DEF AllDone, HolderLabels
  <1>3. CASE Refuse(t) BY <1>3, SameRules DEF Refuse, Return, HolderLabels
  <1>4. CASE get_test_queue(t) BY <1>4, SameRules DEF get_test_queue, HolderLabels
  <1>5. CASE create_rule(t)
    <2>1. t \notin Holders /\ Holders' = Holders \cup {t}
      BY <1>5 DEF create_rule, Holders, HolderLabels, TypeOK
    <2>2. Cardinality(Holders') = Cardinality(Holders) + 1
      BY <2>1, HolderAdded
    <2>3. /\ UNCHANGED <<running, sessions, conf>>
          /\ rules'[conf.tables] = rules[conf.tables] + 1
      BY <1>5 DEF create_rule, TypeOK
    <2> QED BY <1>5, <2>2, <2>3 DEF create_rule, LeakInv, NoLeakedRule
  <1>6. CASE create_rule_fails(t) BY <1>6, SameRules DEF create_rule_fails, HolderLabels
  <1>7. CASE RuleFailed(t) BY <1>7, SameRules DEF RuleFailed, Return, HolderLabels
  <1>8. CASE build_nfqws2_args(t) BY <1>8, SameRules DEF build_nfqws2_args, HolderLabels
  <1>9. CASE start_nfqws2(t) BY <1>9, SameRules DEF start_nfqws2, HolderLabels
  <1>10. CASE start_nfqws2_fails(t) BY <1>10, SameRules DEF start_nfqws2_fails, HolderLabels
  <1>11. CASE wait_for_nfqws2_ready(t)
    BY <1>11, SameRules DEF wait_for_nfqws2_ready, HolderLabels
  <1>12. CASE send_https_test_raw(t) BY <1>12, SameRules DEF send_https_test_raw, HolderLabels
  <1>13. CASE stop_nfqws2(t) BY <1>13, SameRules DEF stop_nfqws2, HolderLabels
  <1>14. CASE delete_rule(t)
    <2>1. t \in Holders /\ Holders' = Holders \ {t}
      BY <1>14 DEF delete_rule, Holders, HolderLabels, TypeOK
    <2>2. Cardinality(Holders') = Cardinality(Holders) - 1
      BY <2>1, HolderRemoved
    <2>3. conf.tables \in Backends
      BY <1>14, HolderHasRule DEF delete_rule, HolderLabels
    <2>4. /\ UNCHANGED <<running, sessions, conf>>
          /\ rules'[conf.tables] = rules[conf.tables] - 1
      BY <1>14, <2>3 DEF delete_rule, TypeOK
    <2> QED BY <1>14, <2>2, <2>3, <2>4 DEF delete_rule, LeakInv, NoLeakedRule
  <1>15. CASE delete_rule_fails(t)
    <2>1. rules[conf.tables] # 0 /\ rules[conf.tables] \in Nat
      BY <1>15, HolderHasRule DEF delete_rule_fails, HolderLabels, TypeOK
    <2>2. conf.tables # "iptables"
      BY <1>15, <2>1 DEF delete_rule_fails, DeletionMayFail, Deletable
    <2> QED BY <1>15, <2>2 DEF delete_rule_fails, LeakInv, NoLeakedRule
  <1>16. CASE SetResult(t) BY <1>16, SameRules DEF SetResult, Return, HolderLabels
  <1> QED
    BY <1>1, <1>2, <1>3, <1>4, <1>5, <1>6, <1>7, <1>8, <1>9, <1>10, <1>11, <1>12, <1>13,
       <1>14, <1>15, <1>16 DEF TestThread

LEMMA LeakStep ==
  ASSUME "delete_rule" \notin Faults, TypeOK, RuleCountInv, LeakInv, [Next]_vars
  PROVE  LeakInv'
  <1> USE DEF procVars, threadVars, osVars
  <1>1. ASSUME UNCHANGED <<running, sessions, conf, pc, rules>> PROVE LeakInv'
    BY <1>1 DEF LeakInv, NoLeakedRule, Holders
  <1>2. CASE Quit \/ Killed
    BY <1>2 DEF Quit, Killed, EndProcess, LeakInv, NoLeakedRule
  <1>3. CASE Restart
    BY <1>3 DEF Restart, LeakInv, NoLeakedRule, TypeOK
  <1>4. CASE Over \/ UNCHANGED vars
    BY <1>1, <1>4 DEF Over, vars
  <1>5. CASE UiThread
    <2>1. CASE OneSpawn \/ AllSpawn
      <3>1. PICK t \in Threads : Spawn(t) /\ running
        BY <2>1 DEF OneSpawn, AllSpawn, AtUi
      <3> QED BY <3>1, SameRules DEF Spawn, FreeSlots, HolderLabels
    <2>2. CASE ~(OneSpawn \/ AllSpawn)
      BY <1>1, <1>5, <2>2 DEF UiThread, Poll, NoKey, MoveCursor, KeyService, KeyTestOne, KeyTestAll,
         KeyTest, OneCheck, OneMark, OneSpawnFails, AllMark, AllSpawnFails
    <2> QED BY <2>1, <2>2
  <1>6. ASSUME NEW t \in Threads, TestThread(t) PROVE LeakInv'
    BY <1>6, LeakThread
  <1>7. ASSUME NEW t \in Threads, ChildBinds(t) \/ ChildDies(t) PROVE LeakInv'
    BY <1>1, <1>7 DEF ChildBinds, ChildDies
  <1>8. CASE OrphanDies
    BY <1>1, <1>8 DEF OrphanDies
  <1> QED BY <1>2, <1>3, <1>4, <1>5, <1>6, <1>7, <1>8 DEF Next, Background

LEMMA LeakInit == Init => LeakInv
  <1> SUFFICES ASSUME Init PROVE LeakInv
    OBVIOUS
  <1>1. Holders = {}
    BY DEF Init, Holders, HolderLabels
  <1>2. Cardinality(Holders) = 0
    BY <1>1, FS_EmptySet
  <1> QED BY <1>2 DEF Init, LeakInv, NoLeakedRule, Backends

\* With iptables, whatever else fails, tests that overlap included, no exit of a test
\* forgets its rule: until the program first ends there are as many rules as tests that
\* still need one.
THEOREM RulesTakenBack ==
  ASSUME "delete_rule" \notin Faults
  PROVE  Spec => []NoLeakedRule
  <1>1. TypeOK /\ RuleCountInv /\ LeakInv /\ [Next]_vars => LeakInv'
    BY LeakStep
  <1>2. LeakInv => NoLeakedRule
    BY DEF LeakInv
  <1> QED BY <1>1, <1>2, LeakInit, TypeCorrect, RuleInvariant, PTL DEF Spec

-----------------------------------------------------------------------------
(* One sweep, and nothing left RUNNING.                                    *)

\* Who will replace the status RUNNING of profile i.
Owned(i) ==
  \/ ui = "one_spawn" /\ menu_index = i
  \/ ui = "all_spawn"
  \/ \E t \in Threads : \/ InTest(t) /\ prof[t] = i
                        \/ Sweep(t) /\ prof[t] < i

SweepInv ==
  /\ ~running => ui = "poll" /\ \A t \in Threads : pc[t] = "free"
  /\ \A t \in Threads : pc[t] = "all_next" => isAll[t]
  /\ \A t \in Threads : loc[t].final # "RUNNING"
  /\ ui = "all_spawn" => testing_all_running /\ \A t \in Threads : ~Sweep(t)
  /\ OneSweep
  /\ NoDanglingRunning

LEMMA DanglingOwned ==
  NoDanglingRunning <=> \A i \in Profiles : running /\ testing_results[i] = "RUNNING" => Owned(i)
  BY DEF NoDanglingRunning, Owned

LEMMA SweepInit == Init => SweepInv
  BY DEF Init, SweepInv, OneSweep, NoDanglingRunning, Live, Sweep, FreshLocals

LEMMA SweepUi ==
  ASSUME TypeOK, SweepInv, UiThread
  PROVE  SweepInv'
  <1> USE DEF procVars, uiVars, sharedVars, threadVars, osVars, AtUi, Live, Sweep, InTest
  <1>a. running /\ UNCHANGED <<running, loc>>
    BY DEF UiThread, Poll, NoKey, MoveCursor, KeyService, KeyTestOne, KeyTestAll, KeyTest,
           OneCheck, OneMark, OneSpawn, OneSpawnFails, AllMark, AllSpawn, AllSpawnFails, Spawn
  <1>1. CASE Poll
    BY <1>1 DEF Poll, NoKey, MoveCursor, KeyService, KeyTestOne, KeyTestAll, KeyTest, SweepInv,
       OneSweep, NoDanglingRunning
  <1>2. CASE OneCheck
    BY <1>2 DEF OneCheck, SweepInv, OneSweep, NoDanglingRunning
  <1>3. CASE OneMark
    BY <1>3 DEF OneMark, SweepInv, OneSweep, NoDanglingRunning, TypeOK
  <1>4. CASE AllMark
    <2>1. CASE testing_is_running_locked
      BY <1>4, <2>1 DEF AllMark, SweepInv, OneSweep, NoDanglingRunning
    <2>2. CASE ~testing_is_running_locked
      BY <1>4, <2>2 DEF AllMark, testing_is_running_locked, SweepInv, OneSweep, NoDanglingRunning
    <2> QED BY <2>1, <2>2
  <1>5. CASE OneSpawnFails
    BY <1>5 DEF OneSpawnFails, SweepInv, OneSweep, NoDanglingRunning, TypeOK
  <1>6. CASE AllSpawnFails
    BY <1>6 DEF AllSpawnFails, SweepInv, OneSweep, NoDanglingRunning
  <1>7. CASE OneSpawn \/ AllSpawn
    <2>1. PICK t \in Threads : Spawn(t)
      BY <1>7 DEF OneSpawn, AllSpawn
    <2>2. /\ ui \in {"one_spawn", "all_spawn"} /\ ui' = "poll"
          /\ UNCHANGED <<running, menu_index, testing_results, testing_all_running, loc>>
      BY <1>7, <2>1 DEF OneSpawn, AllSpawn, Spawn
    <2>3. \A u \in Threads \ {t} : pc'[u] = pc[u] /\ isAll'[u] = isAll[u] /\ prof'[u] = prof[u]
      BY <2>1 DEF Spawn, TypeOK
    <2>4. /\ pc[t] = "free"
          /\ isAll'[t] = (ui = "all_spawn")
          /\ prof'[t] = IF ui = "all_spawn" THEN NoProfile ELSE menu_index
          /\ pc'[t] = IF ui = "all_spawn" THEN "all_next" ELSE "testing_profiles"
      BY <2>1 DEF Spawn, FreeSlots, TypeOK
    <2>5. OneSweep'
      BY <2>2, <2>3, <2>4, ZenonT(60) DEF SweepInv, OneSweep
    <2>6. ASSUME NEW i \in Profiles, running, testing_results[i] = "RUNNING" PROVE Owned(i)'
      <3>1. CASE ui = "all_spawn"
        <4>1. Sweep(t)' /\ prof'[t] < i
          <5>1. pc'[t] = "all_next" /\ prof'[t] = -1 /\ isAll'[t]
            BY <2>4, <3>1 DEF NoProfile
          <5>2. -1 < i
            BY ConstantsOK DEF ConstantsOK, Profiles
          <5> QED BY <5>1, <5>2
        <4> QED BY <4>1 DEF Owned
      <3>2. CASE ui = "one_spawn" /\ menu_index = i
        BY <2>4, <3>2 DEF Owned, CallLabels
      <3>3. CASE \E u \in Threads : (InTest(u) /\ prof[u] = i) \/ (Sweep(u) /\ prof[u] < i)
        <4>1. PICK u \in Threads : (InTest(u) /\ prof[u] = i) \/ (Sweep(u) /\ prof[u] < i)
          BY <3>3
        <4>2. u # t
          BY <2>4, <4>1 DEF CallLabels, HolderLabels
        <4> QED BY <2>3, <4>1, <4>2 DEF Owned
      <3>4. Owned(i)
        BY <2>6, DanglingOwned DEF SweepInv
      <3>5. \/ ui = "one_spawn" /\ menu_index = i
            \/ ui = "all_spawn"
            \/ \E u \in Threads : (InTest(u) /\ prof[u] = i) \/ (Sweep(u) /\ prof[u] < i)
        BY <3>4, Zenon DEF Owned
      <3> QED BY <3>1, <3>2, <3>3, <3>5, Zenon
    <2>7. NoDanglingRunning'
      BY <2>2, <2>6 DEF NoDanglingRunning, Owned
    <2>8. \A u \in Threads : pc'[u] = "all_next" => isAll'[u]
      BY <2>3, <2>4 DEF SweepInv
    <2> QED BY <1>a, <2>2, <2>5, <2>7, <2>8 DEF SweepInv
  <1> QED
    BY <1>1, <1>2, <1>3, <1>4, <1>5, <1>6, <1>7 DEF UiThread

\* A step of thread t that neither ends nor begins a test or a sweep, and may settle
\* the profile it tests.
LEMMA SameOwner ==
  ASSUME TypeOK, SweepInv, running, NEW t \in Threads, NEW l \in CallLabels,
         InTest(t),
         pc' = [pc EXCEPT ![t] = l],
         UNCHANGED <<running, uiVars, testing_all_running, prof, isAll>>,
         \A u \in Threads : loc'[u].final # "RUNNING",
         \A i \in Profiles : testing_results'[i] = "RUNNING" => testing_results[i] = "RUNNING"
  PROVE  SweepInv'
  <1> USE DEF uiVars
  <1>1. \A u \in Threads : (InTest(u)' <=> InTest(u)) /\ (Sweep(u)' <=> Sweep(u))
    BY DEF InTest, Sweep, Live, TypeOK, CallLabels, HolderLabels
  <1>2. OneSweep' /\ NoDanglingRunning'
    BY <1>1 DEF SweepInv, OneSweep, NoDanglingRunning
  <1>3. \A u \in Threads : pc'[u] = "all_next" => isAll'[u]
    BY DEF SweepInv, TypeOK, CallLabels, HolderLabels
  <1> QED BY <1>1, <1>2, <1>3 DEF SweepInv

\* A thread returns from testing_profiles: it has settled its profile.
LEMMA ReturnOwner ==
  ASSUME TypeOK, SweepInv, running, NEW t \in Threads, InTest(t),
         NEW r \in Results \ {"RUNNING"}, testing_profile_set_result(t, r), Return(t),
         UNCHANGED <<running, uiVars, testing_all_running, isAll>>
  PROVE  SweepInv'
  <1> USE DEF uiVars
  <1>1. \A u \in Threads \ {t} :
          pc'[u] = pc[u] /\ prof'[u] = prof[u] /\ isAll'[u] = isAll[u] /\ loc'[u] = loc[u]
    BY DEF Return, Goto, TypeOK
  <1>2. /\ pc'[t] = IF isAll[t] THEN "all_next" ELSE "free"
        /\ isAll[t] => prof'[t] = prof[t]
        /\ loc'[t] = FreshLocals
    BY DEF Return, Goto, TypeOK
  <1>3. \A u \in Threads : Sweep(u)' <=> Sweep(u)
    BY <1>1, <1>2 DEF Sweep, Live, InTest, CallLabels, HolderLabels
  <1>4. OneSweep'
    BY <1>3 DEF SweepInv, OneSweep
  <1>5. ASSUME NEW i \in Profiles, testing_results'[i] = "RUNNING" PROVE Owned(i)'
    <2>1. testing_results[i] = "RUNNING" /\ i # prof[t]
      BY <1>5 DEF testing_profile_set_result, TypeOK
    <2>2. Owned(i)
      BY <2>1, DanglingOwned DEF SweepInv
    <2>3. CASE (ui = "one_spawn" /\ menu_index = i) \/ ui = "all_spawn"
      BY <2>3 DEF Owned
    <2>4. ASSUME NEW u \in Threads, (InTest(u) /\ prof[u] = i) \/ (Sweep(u) /\ prof[u] < i)
          PROVE  Owned(i)'
      <3>1. CASE u = t
        BY <1>2, <1>3, <2>1, <2>4, <3>1 DEF Owned, Sweep
      <3>2. CASE u # t
        BY <1>1, <1>3, <2>4, <3>2 DEF Owned, InTest
      <3> QED BY <3>1, <3>2
    <2> QED BY <2>2, <2>3, <2>4, Zenon DEF Owned
  <1>6. NoDanglingRunning'
    BY <1>5 DEF NoDanglingRunning, Owned
  <1>7. \A u \in Threads : loc'[u].final # "RUNNING" /\ (pc'[u] = "all_next" => isAll'[u])
    BY <1>1, <1>2 DEF SweepInv, FreshLocals
  <1> QED BY <1>3, <1>4, <1>6, <1>7 DEF SweepInv

LEMMA NotRunning ==
  ASSUME NEW success, NEW code, NEW logs, NEW confirmed
  PROVE  JudgeRun(success, code, logs, confirmed) # "RUNNING"
  BY DEF JudgeRun, testing_profile_verdict

LEMMA SweepThread ==
  ASSUME TypeOK, SweepInv, NEW t \in Threads, TestThread(t)
  PROVE  SweepInv'
  <1> USE DEF At, Goto, procVars, sharedVars, threadVars, osVars
  <1>a. /\ running
        /\ pc[t] \in CallLabels => InTest(t)
        /\ \A u \in Threads : loc[u] \in Locals /\ loc[u].final # "RUNNING"
    BY DEF TestThread, AllNext, AllDone, Refuse, get_test_queue, create_rule, create_rule_fails,
           RuleFailed, build_nfqws2_args, start_nfqws2, start_nfqws2_fails, wait_for_nfqws2_ready,
           send_https_test_raw, stop_nfqws2, delete_rule, delete_rule_fails, SetResult, InTest,
           SweepInv, TypeOK
  <1>1. CASE AllNext(t)
    <2>1. /\ UNCHANGED <<running, ui, menu_index, testing_all_running, isAll, loc>>
          /\ pc[t] = "all_next" /\ isAll[t]
          /\ prof[t] \in Profiles \cup {NoProfile} /\ prof[t] + 1 < N
      BY <1>1 DEF AllNext, SweepInv, TypeOK, uiVars
    <2>2. /\ pc'[t] = "testing_profiles" /\ prof'[t] = prof[t] + 1
          /\ \A u \in Threads \ {t} : pc'[u] = pc[u] /\ prof'[u] = prof[u]
      BY <1>1 DEF AllNext, TypeOK
    <2>3. \A u \in Threads : Sweep(u)' <=> Sweep(u)
      BY <2>1, <2>2 DEF Sweep, Live
    <2>4. OneSweep'
      BY <2>1, <2>3 DEF SweepInv, OneSweep
    <2>5. ASSUME NEW i \in Profiles, testing_results'[i] = "RUNNING" PROVE Owned(i)'
      <3>1. CASE i = prof[t] + 1
        BY <2>2, <3>1 DEF Owned, InTest, CallLabels
      <3>2. CASE i # prof[t] + 1
        <4>1. testing_results[i] = "RUNNING"
          BY <1>1, <2>5, <3>2 DEF AllNext, TypeOK
        <4>2. Owned(i)
          BY <1>a, <4>1, DanglingOwned DEF SweepInv
        <4>3. prof[t] < i => prof[t] + 1 < i
          BY <2>1, <3>2, ConstantsOK DEF ConstantsOK, Profiles, NoProfile
        <4> QED
          BY <2>1, <2>2, <2>3, <4>2, <4>3 DEF Owned, InTest, CallLabels, HolderLabels
      <3> QED BY <3>1, <3>2
    <2>6. NoDanglingRunning'
      BY <2>5 DEF NoDanglingRunning, Owned
    <2> QED BY <1>a, <2>1, <2>2, <2>3, <2>4, <2>6 DEF SweepInv
  <1>2. CASE AllDone(t)
    <2>1. /\ UNCHANGED <<running, ui, menu_index, testing_results, loc>>
          /\ pc[t] = "all_next" /\ isAll[t] /\ Sweep(t)
          /\ prof[t] \in Profiles \cup {NoProfile} /\ ~(prof[t] + 1 < N)
      BY <1>2 DEF AllDone, SweepInv, TypeOK, uiVars, Sweep, Live
    <2>2. /\ pc'[t] = "free"
          /\ \A u \in Threads \ {t} :
               pc'[u] = pc[u] /\ prof'[u] = prof[u] /\ isAll'[u] = isAll[u]
      BY <1>2 DEF AllDone, TypeOK
    <2>3. \A u \in Threads : ~Sweep(u)'
      BY <2>1, <2>2 DEF SweepInv, OneSweep, Sweep, Live
    <2>4. ASSUME NEW i \in Profiles, testing_results[i] = "RUNNING" PROVE Owned(i)'
      <3>1. Owned(i)
        BY <1>a, <2>4, DanglingOwned DEF SweepInv
      <3>2. ~(prof[t] < i)
        BY <2>1, ConstantsOK DEF ConstantsOK, Profiles, NoProfile
      <3> QED
        BY <2>1, <2>2, <3>1, <3>2 DEF Owned, InTest, CallLabels, HolderLabels, SweepInv, OneSweep
    <2>5. NoDanglingRunning'
      BY <2>1, <2>4 DEF NoDanglingRunning, Owned
    <2>6. ui # "all_spawn"
      BY <2>1 DEF SweepInv
    <2> QED BY <1>a, <2>1, <2>2, <2>3, <2>5, <2>6 DEF SweepInv, OneSweep
  <1>3. CASE Refuse(t)
    BY <1>3, <1>a, ReturnOwner DEF Refuse, CallLabels, Results
  <1>4. CASE get_test_queue(t)
    BY <1>4, <1>a, SameOwner DEF get_test_queue, CallLabels
  <1>5. CASE create_rule(t)
    BY <1>5, <1>a, SameOwner DEF create_rule, CallLabels, HolderLabels
  <1>6. CASE create_rule_fails(t)
    <2>1. \A i \in Profiles : testing_results'[i] = "RUNNING" => testing_results[i] = "RUNNING"
      BY <1>6 DEF create_rule_fails, testing_profile_set_result, TypeOK
    <2> QED BY <1>6, <1>a, <2>1, SameOwner DEF create_rule_fails, CallLabels
  <1>7. CASE RuleFailed(t)
    BY <1>7, <1>a, ReturnOwner DEF RuleFailed, CallLabels, Results
  <1>8. CASE build_nfqws2_args(t)
    <2>1. PICK l \in {"start_nfqws2", "delete_rule"} : Goto(t, l)
      BY <1>8 DEF build_nfqws2_args
    <2> QED BY <1>8, <1>a, <2>1, SameOwner DEF build_nfqws2_args, CallLabels, HolderLabels
  <1>9. CASE start_nfqws2(t)
    <2>1. \A u \in Threads : loc'[u].final # "RUNNING"
      BY <1>9, <1>a DEF start_nfqws2, Locals, TypeOK
    <2> QED BY <1>9, <1>a, <2>1, SameOwner DEF start_nfqws2, CallLabels, HolderLabels
  <1>10. CASE start_nfqws2_fails(t)
    BY <1>10, <1>a, SameOwner DEF start_nfqws2_fails, CallLabels, HolderLabels
  <1>11. CASE wait_for_nfqws2_ready(t)
    <2>1. \A u \in Threads : loc'[u].final # "RUNNING"
      BY <1>11, <1>a DEF wait_for_nfqws2_ready, Locals, TypeOK
    <2> QED BY <1>11, <1>a, <2>1, SameOwner DEF wait_for_nfqws2_ready, CallLabels, HolderLabels
  <1>12. CASE send_https_test_raw(t)
    <2>1. \A u \in Threads : loc'[u].final # "RUNNING"
      <3>1. ASSUME NEW b \in BOOLEAN, loc' = [loc EXCEPT ![t].http = b]
            PROVE  \A u \in Threads : loc'[u].final = loc[u].final
        BY <1>a, <3>1 DEF Locals, TypeOK
      <3>2. ASSUME NEW v \in Threads, NEW b \in BOOLEAN, NEW desync,
                   loc' = [loc EXCEPT ![v].log = @ \cup {"packet"} \cup desync, ![t].http = b]
            PROVE  \A u \in Threads : loc'[u].final = loc[u].final
        BY <1>a, <3>2 DEF Locals, TypeOK
      <3>3. \A u \in Threads : loc'[u].final = loc[u].final
        <4>1. CASE loc' = [loc EXCEPT ![t].http = FALSE]
          BY <3>1, <4>1
        <4>2. CASE loc' = [loc EXCEPT ![t].http = TRUE]
          BY <3>1, <4>2
        <4>3. ASSUME NEW v \in Threads, NEW ok \in BOOLEAN, NEW desync,
                     loc' = [loc EXCEPT ![v].log = @ \cup {"packet"} \cup desync, ![t].http = ok]
              PROVE  \A u \in Threads : loc'[u].final = loc[u].final
          BY <3>2, <4>3
        <4> QED BY <1>12, <4>1, <4>2, <4>3, ZenonT(30) DEF send_https_test_raw
      <3> QED BY <1>a, <3>3
    <2> QED BY <1>12, <1>a, <2>1, SameOwner DEF send_https_test_raw, CallLabels, HolderLabels
  <1>13. CASE stop_nfqws2(t)
    <2>1. \A u \in Threads : loc'[u].final # "RUNNING"
      <3>1. PICK code \in {0, 128 + SIGKILL},
                 logs \in SUBSET (loc[t].log \cup (Chatter \cap {"error"})) :
              loc' = [loc EXCEPT ![t] = [FreshLocals EXCEPT
                        !.strategy = loc[t].strategy,
                        !.log = loc[t].log \cap {"packet"},
                        !.final = JudgeRun(loc[t].http, code, logs, loc[t].binding)]]
        BY <1>13 DEF stop_nfqws2
      <3>2. loc'[t].final = JudgeRun(loc[t].http, code, logs, loc[t].binding)
        BY <3>1 DEF FreshLocals, TypeOK
      <3>3. loc'[t].final # "RUNNING"
        BY <3>2, NotRunning
      <3>4. \A u \in Threads \ {t} : loc'[u] = loc[u]
        BY <3>1 DEF TypeOK
      <3> QED BY <1>a, <3>3, <3>4
    <2> QED BY <1>13, <1>a, <2>1, SameOwner DEF stop_nfqws2, CallLabels, HolderLabels
  <1>14. CASE delete_rule(t)
    BY <1>14, <1>a, SameOwner DEF delete_rule, CallLabels, HolderLabels
  <1>15. CASE delete_rule_fails(t)
    <2>1. \A u \in Threads : loc'[u].final # "RUNNING"
      BY <1>15, <1>a DEF delete_rule_fails, Locals, TypeOK
    <2>2. PICK l \in {"delete_rule", "set_result"} : pc' = [pc EXCEPT ![t] = l]
      BY <1>15 DEF delete_rule_fails, TypeOK
    <2> QED BY <1>15, <1>a, <2>1, <2>2, SameOwner DEF delete_rule_fails, CallLabels, HolderLabels
  <1>16. CASE SetResult(t)
    <2>1. loc[t].final \in Results \ {"RUNNING"}
      BY <1>a DEF Locals
    <2> QED BY <1>16, <1>a, <2>1, ReturnOwner DEF SetResult, CallLabels
  <1> QED
    BY <1>1, <1>2, <1>3, <1>4, <1>5, <1>6, <1>7, <1>8, <1>9, <1>10, <1>11, <1>12, <1>13,
       <1>14, <1>15, <1>16 DEF TestThread

LEMMA SweepStep == TypeOK /\ SweepInv /\ [Next]_vars => SweepInv'
  <1> SUFFICES ASSUME TypeOK, SweepInv, [Next]_vars PROVE SweepInv'
    OBVIOUS
  <1> USE DEF procVars, uiVars, sharedVars, threadVars, osVars
  <1>1. ASSUME UNCHANGED <<running, ui, menu_index, testing_results, testing_all_running, pc,
                           prof, isAll>>,
               \A u \in Threads : loc'[u].final # "RUNNING"
        PROVE  SweepInv'
    BY <1>1 DEF SweepInv, OneSweep, NoDanglingRunning, InTest, Sweep, Live
  <1>2. CASE Quit \/ Killed
    BY <1>2 DEF Quit, Killed, EndProcess, SweepInv, OneSweep, NoDanglingRunning, Sweep, Live,
       FreshLocals
  <1>3. CASE Restart
    BY <1>3 DEF Restart, SweepInv, OneSweep, NoDanglingRunning, Sweep, Live
  <1>4. CASE Over \/ UNCHANGED vars
    BY <1>1, <1>4 DEF Over, vars, SweepInv
  <1>5. CASE UiThread
    BY <1>5, SweepUi
  <1>6. ASSUME NEW t \in Threads, TestThread(t) PROVE SweepInv'
    BY <1>6, SweepThread
  <1>7. ASSUME NEW t \in Threads, ChildBinds(t) \/ ChildDies(t) PROVE SweepInv'
    BY <1>1, <1>7 DEF ChildBinds, ChildDies, SweepInv, TypeOK, Locals
  <1>8. CASE OrphanDies
    BY <1>1, <1>8 DEF OrphanDies, SweepInv
  <1> QED BY <1>2, <1>3, <1>4, <1>5, <1>6, <1>7, <1>8 DEF Next, Background

LEMMA SweepInvariant == Spec => []SweepInv
  BY SweepInit, SweepStep, TypeCorrect, PTL DEF Spec

\* testing_all_running belongs to one sweep: two never run at a time, and the flag is set
\* for as long as the sweep lives, whatever other tests do.
THEOREM SweepAlone == Spec => []OneSweep
  <1>1. SweepInv => OneSweep
    BY DEF SweepInv
  <1> QED BY <1>1, SweepInvariant, PTL

\* No profile is stuck at TESTING, which would keep can_start false for good: somebody is
\* there to replace the status, though tests overlap and threads cannot be created.
THEOREM RunningOwned == Spec => []NoDanglingRunning
  <1>1. SweepInv => NoDanglingRunning
    BY DEF SweepInv
  <1> QED BY <1>1, SweepInvariant, PTL
-----------------------------------------------------------------------------
(* Tests never overlap while create_rule works: the inductive invariant.   *)

\* No thread outlives the process.
Ended == ~running => ui = "poll" /\ \A t \in Threads : pc[t] = "free"

\* The UI thread is past can_start, where it relies on there being no test.
Starting == {"one_mark", "one_spawn", "all_spawn"}

UiInv ==
  /\ ui = "one_spawn" => testing_results[menu_index] = "RUNNING"
  /\ ui = "all_spawn" => testing_all_running

\* A live thread is seen by can_start: as the sweep, or by the status of its profile.
SeenInv(t) ==
  /\ Live(t) => ui \notin Starting
  /\ pc[t] = "all_next" => isAll[t]
  /\ Live(t) /\ isAll[t] => testing_all_running
  /\ InTest(t) => prof[t] \in Profiles /\ testing_results[prof[t]] = "RUNNING"

\* create_rule is reached with a known packet filter only, so it does not fail.
RuleInv(t) ==
  /\ pc[t] # "rule_failed"
  /\ pc[t] = "create_rule" => conf.tables \in Backends

\* The argument buffer, then the process, hold the strategy of the tested profile.
Started == {"wait_ready", "http_test", "stop_nfqws2"}

StrategyInv(t) ==
  /\ pc[t] = "start_nfqws2" => nfqws2_args = prof[t]
  /\ child[t] # "none" => pc[t] \in Started
  /\ pc[t] \in Started => loc[t].strategy = prof[t]

\* A desync is logged of a packet only, and no verdict is good before stop_nfqws2.
Good == {"SUCCESS", "PARTIAL"}

LogInv(t) ==
  /\ loc[t].log \subseteq {"bind", "packet", "lua_func"}
  /\ "lua_func" \in loc[t].log => "packet" \in loc[t].log
  /\ loc[t].final \in Good =>
       /\ pc[t] \in {"delete_rule", "set_result"}
       /\ "packet" \in loc[t].log
       /\ loc[t].strategy = prof[t]

ThreadInv(t) == SeenInv(t) /\ RuleInv(t) /\ StrategyInv(t) /\ LogInv(t)

TestInv ==
  /\ Ended
  /\ TestsExclusive
  /\ UiInv
  /\ \A t \in Threads : ThreadInv(t)

LEMMA TestInit == Init => TestInv
  <1> SUFFICES ASSUME Init PROVE TestInv
    OBVIOUS
  <1>1. \A t \in Threads : pc[t] = "free" /\ child[t] = "none" /\ loc[t] = FreshLocals
    BY DEF Init
  <1>2. Ended /\ TestsExclusive /\ UiInv
    BY <1>1 DEF Init, Ended, TestsExclusive, UiInv, Live
  <1>3. \A t \in Threads : SeenInv(t) /\ RuleInv(t) /\ StrategyInv(t)
    BY <1>1 DEF SeenInv, RuleInv, StrategyInv, Live, InTest, CallLabels, HolderLabels, Started
  <1>4. \A t \in Threads : LogInv(t)
    BY <1>1 DEF LogInv, FreshLocals, Good
  <1> QED BY <1>2, <1>3, <1>4 DEF TestInv, ThreadInv

LEMMA FreshInv ==
  ASSUME ui' = "poll",
         \A t \in Threads : pc'[t] = "free" /\ child'[t] = "none" /\ loc'[t] = FreshLocals
  PROVE  TestInv'
  <1>1. Ended' /\ TestsExclusive' /\ UiInv'
    BY DEF Ended, TestsExclusive, UiInv, Live
  <1>2. \A t \in Threads : (SeenInv(t) /\ RuleInv(t) /\ StrategyInv(t))'
    BY DEF SeenInv, RuleInv, StrategyInv, Live, InTest, CallLabels, HolderLabels, Started
  <1>3. \A t \in Threads : LogInv(t)'
    BY DEF LogInv, FreshLocals, Good
  <1> QED BY <1>1, <1>2, <1>3 DEF TestInv, ThreadInv

\* can_start is right: while a thread lives, a test or a sweep is seen to run.
LEMMA CanStart ==
  ASSUME TypeOK, TestInv, ~testing_is_running_locked
  PROVE  \A t \in Threads : pc[t] = "free"
  <1> SUFFICES ASSUME NEW t \in Threads, pc[t] # "free" PROVE FALSE
    OBVIOUS
  <1>1. SeenInv(t)
    BY DEF TestInv, ThreadInv
  <1>2. CASE pc[t] = "all_next"
    BY <1>1, <1>2 DEF SeenInv, Live, testing_is_running_locked
  <1>3. CASE pc[t] # "all_next"
    <2>1. InTest(t)
      BY <1>3 DEF InTest, TypeOK, ThreadLabels
    <2> QED BY <2>1, <1>1 DEF SeenInv, testing_is_running_locked
  <1> QED BY <1>2, <1>3

LEMMA TestUi == TypeOK /\ TestInv /\ UiThread => TestInv'
  <1> SUFFICES ASSUME TypeOK, TestInv, UiThread PROVE TestInv'
    OBVIOUS
  <1> USE DEF TestInv, ThreadInv
  <1>a. running /\ UNCHANGED <<running, conf, loc, nfqws2_args, child>>
    BY DEF UiThread, Poll, NoKey, MoveCursor, KeyService, KeyTestOne, KeyTestAll, KeyTest,
           OneCheck, OneMark, OneSpawn, OneSpawnFails, AllMark, AllSpawn, AllSpawnFails, Spawn,
           AtUi, procVars, threadVars, osVars
  <1>b. Ended'
    BY <1>a DEF Ended
  <1>1. ASSUME UNCHANGED <<threadVars, sharedVars>>,
               ui' \notin Starting \/ (\A t \in Threads : pc[t] = "free"),
               UiInv'
        PROVE  TestInv'
    BY <1>1, <1>a, <1>b DEF threadVars, sharedVars, TestsExclusive, SeenInv, RuleInv, StrategyInv,
          LogInv, Live, InTest
  <1>2. CASE Poll
    BY <1>1, <1>2 DEF Poll, NoKey, MoveCursor, KeyService, KeyTestOne, KeyTestAll, KeyTest, AtUi,
          Starting, UiInv
  <1>3. CASE OneCheck
    BY <1>1, <1>3, CanStart DEF OneCheck, AtUi, Starting, UiInv
  <1>4. ASSUME \A t \in Threads : pc[t] = "free", UNCHANGED threadVars, UiInv'
        PROVE  TestInv'
    BY <1>4, <1>a, <1>b DEF threadVars, TestsExclusive, SeenInv, RuleInv, StrategyInv, LogInv,
          Live, InTest, CallLabels, HolderLabels, Started
  <1>5. ui \in Starting => \A t \in Threads : pc[t] = "free"
    BY DEF SeenInv, Live
  <1>6. CASE OneMark
    BY <1>4, <1>5, <1>6 DEF OneMark, AtUi, Starting, UiInv, TypeOK
  <1>7. CASE AllMark
    <2>1. CASE testing_is_running_locked
      BY <1>1, <1>7, <2>1 DEF AllMark, AtUi, Starting, UiInv
    <2>2. CASE ~testing_is_running_locked
      BY <1>4, <1>7, <2>2, CanStart DEF AllMark, AtUi, UiInv
    <2> QED BY <2>1, <2>2
  <1>8. CASE OneSpawnFails \/ AllSpawnFails
    BY <1>4, <1>5, <1>8 DEF OneSpawnFails, AllSpawnFails, AtUi, Starting, UiInv
  <1>9. CASE OneSpawn \/ AllSpawn
    <2>1. PICK t \in Threads : Spawn(t)
      BY <1>9 DEF OneSpawn, AllSpawn
    <2>2. ui \in {"one_spawn", "all_spawn"} /\ ui' = "poll" /\ UNCHANGED sharedVars
      BY <1>9, <2>1 DEF OneSpawn, AllSpawn, AtUi, Spawn
    <2>3. \A u \in Threads : pc[u] = "free"
      BY <1>5, <2>2 DEF Starting
    <2>4. \A u \in Threads : u # t => pc'[u] = "free" /\ isAll'[u] = isAll[u] /\ prof'[u] = prof[u]
      BY <2>1, <2>3 DEF Spawn, TypeOK
    <2>5. /\ isAll'[t] = (ui = "all_spawn")
          /\ prof'[t] = IF ui = "all_spawn" THEN NoProfile ELSE menu_index
          /\ pc'[t] = IF ui = "all_spawn" THEN "all_next" ELSE "testing_profiles"
      BY <2>1 DEF Spawn, TypeOK
    <2>6. TestsExclusive' /\ UiInv'
      BY <2>2, <2>4 DEF TestsExclusive, Live, UiInv
    <2>7. ASSUME NEW u \in Threads, u # t PROVE ThreadInv(u)'
      BY <2>3, <2>4, <2>7, <1>a DEF SeenInv, RuleInv, StrategyInv, LogInv, Live, InTest, CallLabels,
            HolderLabels, Started
    <2>8. SeenInv(t)'
      BY <2>2, <2>5 DEF SeenInv, Live, InTest, CallLabels, HolderLabels, Starting, UiInv, TypeOK,
            sharedVars
    <2>9. (RuleInv(t) /\ StrategyInv(t) /\ LogInv(t))'
      BY <2>3, <2>5, <1>a DEF RuleInv, StrategyInv, LogInv, Started
    <2> QED BY <1>b, <2>6, <2>7, <2>8, <2>9
  <1> QED
    BY <1>2, <1>3, <1>6, <1>7, <1>8, <1>9 DEF UiThread

\* A test thread is alone, so a step of it only has to keep what is said of itself.
LEMMA Alone ==
  ASSUME TestInv, NEW t \in Threads, Live(t)
  PROVE  \A u \in Threads \ {t} : pc[u] = "free" /\ child[u] = "none"
  BY DEF TestInv, ThreadInv, TestsExclusive, StrategyInv, Live, Started

OthersSame(t) ==
  /\ UNCHANGED <<running, conf, ui, menu_index>>
  /\ \A u \in Threads \ {t} :
       /\ pc'[u] = pc[u]
       /\ prof'[u] = prof[u]
       /\ isAll'[u] = isAll[u]
       /\ loc'[u] = loc[u]
       /\ child'[u] = child[u]

LEMMA OwnStep ==
  ASSUME TypeOK, TestInv, NEW t \in Threads, Live(t), running, OthersSame(t), ThreadInv(t)'
  PROVE  TestInv'
  <1>1. \A u \in Threads \ {t} : pc'[u] = "free" /\ child'[u] = "none"
    BY Alone DEF OthersSame
  <1>2. Ended' /\ TestsExclusive'
    BY <1>1 DEF OthersSame, Ended, TestsExclusive, Live
  <1>3. UiInv'
    BY DEF OthersSame, TestInv, ThreadInv, SeenInv, Starting, UiInv
  <1>4. ASSUME NEW u \in Threads \ {t} PROVE ThreadInv(u)'
    <2>1. (SeenInv(u) /\ RuleInv(u) /\ StrategyInv(u))'
      BY <1>1 DEF SeenInv, RuleInv, StrategyInv, Live, InTest, CallLabels, HolderLabels, Started
    <2>2. LogInv(u)'
      BY DEF OthersSame, TestInv, ThreadInv, LogInv
    <2> QED BY <2>1, <2>2 DEF ThreadInv
  <1> QED BY <1>2, <1>3, <1>4 DEF TestInv

\* The request reaches no nfqws2 but that of the test, and a desync is logged of it only.
LEMMA Request ==
  ASSUME TypeOK, TestInv, NEW t \in Threads, send_https_test_raw(t)
  PROVE  /\ \A u \in Threads \ {t} : loc'[u] = loc[u]
         /\ loc'[t].strategy = loc[t].strategy
         /\ \E traces \in SUBSET {"packet", "lua_func"} :
              /\ "lua_func" \in traces => "packet" \in traces
              /\ loc'[t].log = loc[t].log \cup traces
              /\ loc'[t].http \in BOOLEAN
              /\ loc'[t].binding = loc[t].binding /\ loc'[t].final = loc[t].final
  <1> DEFINE Asked(traces) ==
               /\ \A u \in Threads \ {t} : loc'[u] = loc[u]
               /\ loc'[t].strategy = loc[t].strategy
               /\ loc'[t].log = loc[t].log \cup traces
               /\ loc'[t].http \in BOOLEAN
               /\ loc'[t].binding = loc[t].binding /\ loc'[t].final = loc[t].final
  <1>1. loc[t] \in Locals
    BY DEF TypeOK
  <1>2. \A u \in Threads : child[u] = "bound" => u = t
    BY Alone DEF send_https_test_raw, At, Live
  <1>3. ASSUME NEW ok \in BOOLEAN, loc' = [loc EXCEPT ![t].http = ok] PROVE Asked({})
    BY <1>1, <1>3 DEF TypeOK, Locals
  <1>4. ASSUME NEW ok \in BOOLEAN, NEW desync \in SUBSET {"lua_func"},
               loc' = [loc EXCEPT ![t].log = @ \cup {"packet"} \cup desync, ![t].http = ok]
        PROVE  Asked({"packet"} \cup desync)
    BY <1>1, <1>4 DEF TypeOK, Locals
  <1> HIDE DEF Asked
  <1>5. CASE \E ok \in BOOLEAN : loc' = [loc EXCEPT ![t].http = ok]
    <2>1. Asked({})
      BY <1>3, <1>5
    <2>2. {} \in SUBSET {"packet", "lua_func"} /\ "lua_func" \notin {}
      OBVIOUS
    <2> QED BY <2>1, <2>2, Zenon DEF Asked
  <1>6. CASE \E u \in Threads, ok \in BOOLEAN, desync \in SUBSET {"lua_func"} :
               /\ child[u] = "bound"
               /\ loc' = [loc EXCEPT ![u].log = @ \cup {"packet"} \cup desync, ![t].http = ok]
    <2>1. PICK u \in Threads, ok \in BOOLEAN, desync \in SUBSET {"lua_func"} :
               /\ child[u] = "bound"
               /\ loc' = [loc EXCEPT ![u].log = @ \cup {"packet"} \cup desync, ![t].http = ok]
      BY <1>6, Zenon
    <2>2. u = t
      BY <1>2, <2>1
    <2>3. Asked({"packet"} \cup desync)
      BY <1>4, <2>1, <2>2, Zenon
    <2>4. {"packet"} \cup desync \in SUBSET {"packet", "lua_func"}
            /\ "packet" \in {"packet"} \cup desync
      OBVIOUS
    <2> QED BY <2>3, <2>4, Zenon DEF Asked
  <1>7. \/ \E ok \in BOOLEAN : loc' = [loc EXCEPT ![t].http = ok]
        \/ \E u \in Threads, ok \in BOOLEAN, desync \in SUBSET (Chatter \cap {"lua_func"}) :
             /\ child[u] = "bound"
             /\ loc' = [loc EXCEPT ![u].log = @ \cup {"packet"} \cup desync, ![t].http = ok]
    BY Zenon DEF send_https_test_raw
  <1>8. \A desync \in SUBSET (Chatter \cap {"lua_func"}) : desync \in SUBSET {"lua_func"}
    OBVIOUS
  <1> QED BY <1>5, <1>6, <1>7, <1>8, Zenon

\* A good verdict needs a trace of the request in the output that was collected.
LEMMA GoodVerdict ==
  ASSUME NEW success, NEW code, NEW logs, NEW confirmed,
         logs \subseteq {"bind", "packet", "lua_func", "error"},
         JudgeRun(success, code, logs, confirmed) \in Good
  PROVE  "packet" \in logs \/ "lua_func" \in logs
  <1> DEFINE res == Repair(analyze_test(success, code, logs), confirmed)
  <1>1. ~Broken(res)
    BY DEF JudgeRun, testing_profile_verdict, Good
  <1>2. res.queue_hit \/ res.desync_applied
    BY <1>1 DEF Broken
  <1>3. /\ res.desync_applied => "lua_func" \in logs
        /\ res.queue_hit => "packet" \in logs
    BY DEF Repair, analyze_test
  <1> QED BY <1>2, <1>3

\* The return from testing_profiles with a verdict.
LEMMA ReturnStep ==
  ASSUME TypeOK, TestInv, NEW t \in Threads, At(t, "testing_profiles") \/ At(t, "set_result"),
         NEW r, testing_profile_set_result(t, r), Return(t),
         UNCHANGED <<procVars, uiVars, testing_all_running, isAll, nfqws2_args, osVars>>
  PROVE  TestInv'
  <1> USE DEF At, Goto, procVars, uiVars, osVars
  <1>1. Live(t) /\ running /\ ThreadInv(t)
    BY DEF TestInv, Live
  <1>2. OthersSame(t)
    BY DEF Return, OthersSame, TypeOK
  <1>3. /\ pc'[t] = IF isAll[t] THEN "all_next" ELSE "free"
        /\ loc'[t] = FreshLocals
    BY DEF Return, TypeOK
  <1>4. child'[t] = "none"
    BY <1>1 DEF ThreadInv, StrategyInv, Started
  <1>5. SeenInv(t)'
    BY <1>1, <1>3 DEF ThreadInv, SeenInv, Live, InTest, CallLabels, HolderLabels
  <1>6. (RuleInv(t) /\ StrategyInv(t) /\ LogInv(t))'
    BY <1>3, <1>4 DEF RuleInv, StrategyInv, LogInv, FreshLocals, Started, Good
  <1> QED BY <1>1, <1>2, <1>5, <1>6, OwnStep DEF ThreadInv

LEMMA TestThreadStep ==
  ASSUME RuleCreationWorks, TypeOK, TestInv, NEW t \in Threads, TestThread(t)
  PROVE  TestInv'
  <1> USE DEF At, Goto, procVars, uiVars, sharedVars, threadVars, osVars
  <1>a. Live(t) /\ running /\ ThreadInv(t)
    BY DEF TestInv, Live, TestThread, AllNext, AllDone, Refuse, get_test_queue, create_rule,
           create_rule_fails, RuleFailed, build_nfqws2_args, start_nfqws2, start_nfqws2_fails,
           wait_for_nfqws2_ready, send_https_test_raw, stop_nfqws2, delete_rule,
           delete_rule_fails, SetResult
  <1>b. \A u \in Threads \ {t} : pc[u] = "free" /\ child[u] = "none"
    BY <1>a, Alone
  <1>c. ASSUME OthersSame(t), ThreadInv(t)' PROVE TestInv'
    BY <1>a, <1>c, OwnStep
  <1>1. CASE AllNext(t)
    <2>1. OthersSame(t) BY <1>1 DEF AllNext, OthersSame, TypeOK
    <2>2. /\ pc'[t] = "testing_profiles" /\ prof'[t] = prof[t] + 1 /\ prof'[t] \in Profiles
          /\ testing_results'[prof'[t]] = "RUNNING"
      <3>1. prof[t] \in Profiles \cup {NoProfile} /\ prof[t] + 1 < N
        BY <1>1 DEF AllNext, TypeOK
      <3>2. prof[t] + 1 \in Profiles
        BY <3>1, ConstantsOK DEF ConstantsOK, Profiles, NoProfile
      <3> QED BY <1>1, <3>2 DEF AllNext, TypeOK
    <2>3. SeenInv(t)'
      BY <1>1, <1>a, <2>2 DEF AllNext, ThreadInv, SeenInv, Live
    <2>4. (RuleInv(t) /\ StrategyInv(t) /\ LogInv(t))'
      BY <1>1, <1>a, <2>2 DEF AllNext, ThreadInv, RuleInv, StrategyInv, LogInv, Started
    <2> QED BY <1>c, <2>1, <2>3, <2>4 DEF ThreadInv
  <1>2. CASE AllDone(t)
    <2>1. OthersSame(t) BY <1>2 DEF AllDone, OthersSame, TypeOK
    <2>2. pc'[t] = "free" BY <1>2 DEF AllDone, TypeOK
    <2> QED
      BY <1>c, <1>2, <1>a, <2>1, <2>2 DEF AllDone, ThreadInv, SeenInv, RuleInv, StrategyInv, LogInv,
         Live, InTest, CallLabels, HolderLabels, Started
  <1>3. CASE Refuse(t)
    BY <1>3, ReturnStep DEF Refuse
  <1>4. CASE get_test_queue(t)
    <2>1. OthersSame(t) /\ pc'[t] = "create_rule" BY <1>4 DEF get_test_queue, OthersSame, TypeOK
    <2>2. conf'.tables \in Backends
      BY <1>4 DEF get_test_queue, Refused, RuleCreationWorks, TypeOK
    <2> QED
      BY <1>c, <1>4, <1>a, <2>1, <2>2 DEF get_test_queue, ThreadInv, SeenInv, RuleInv, StrategyInv,
         LogInv, Live, InTest, CallLabels, Started
  <1>5. CASE create_rule(t)
    <2>1. OthersSame(t) /\ pc'[t] = "build_args" BY <1>5 DEF create_rule, OthersSame, TypeOK
    <2> QED
      BY <1>c, <1>5, <1>a, <2>1 DEF create_rule, ThreadInv, SeenInv, RuleInv, StrategyInv,
         LogInv, Live, InTest, CallLabels, HolderLabels, Started
  <1>6. CASE create_rule_fails(t)
    BY <1>6, <1>a DEF create_rule_fails, RuleMayFail, RuleCreationWorks, ThreadInv, RuleInv
  <1>7. CASE RuleFailed(t)
    BY <1>7, <1>a DEF RuleFailed, ThreadInv, RuleInv
  <1>8. CASE build_nfqws2_args(t)
    <2>1. OthersSame(t) /\ pc'[t] \in {"start_nfqws2", "delete_rule"}
      BY <1>8 DEF build_nfqws2_args, OthersSame, TypeOK
    <2> QED
      BY <1>c, <1>8, <1>a, <2>1 DEF build_nfqws2_args, ThreadInv, SeenInv, RuleInv, StrategyInv,
         LogInv, Live, InTest, CallLabels, HolderLabels, Started
  <1>9. CASE start_nfqws2(t)
    <2>1. OthersSame(t) /\ pc'[t] = "wait_ready" BY <1>9 DEF start_nfqws2, OthersSame, TypeOK
    <2>2. loc'[t] = [loc[t] EXCEPT !.strategy = nfqws2_args] /\ loc[t] \in Locals
      BY <1>9 DEF start_nfqws2, TypeOK
    <2>3. loc'[t].strategy = prof[t] /\ loc'[t].log = loc[t].log /\ loc'[t].final = loc[t].final
      BY <1>9, <1>a, <2>2 DEF start_nfqws2, ThreadInv, StrategyInv, Locals
    <2> QED
      BY <1>c, <1>9, <1>a, <2>1, <2>3 DEF start_nfqws2, ThreadInv, SeenInv, RuleInv, StrategyInv,
         LogInv, Live, InTest, CallLabels, HolderLabels, Started
  <1>10. CASE start_nfqws2_fails(t)
    <2>1. OthersSame(t) /\ pc'[t] = "delete_rule"
      BY <1>10 DEF start_nfqws2_fails, OthersSame, TypeOK
    <2> QED
      BY <1>c, <1>10, <1>a, <2>1 DEF start_nfqws2_fails, ThreadInv, SeenInv, RuleInv, StrategyInv,
         LogInv, Live, InTest, CallLabels, HolderLabels, Started
  <1>11. CASE wait_for_nfqws2_ready(t)
    <2>1. OthersSame(t) /\ pc'[t] = "http_test"
      BY <1>11 DEF wait_for_nfqws2_ready, OthersSame, TypeOK
    <2>2. /\ loc'[t].log \subseteq loc[t].log
          /\ loc[t].log \ loc'[t].log \subseteq {"bind"}
          /\ loc'[t].final = loc[t].final /\ loc'[t].strategy = loc[t].strategy
      BY <1>11 DEF wait_for_nfqws2_ready, TypeOK, Locals
    <2> QED
      BY <1>c, <1>11, <1>a, <2>1, <2>2 DEF wait_for_nfqws2_ready, ThreadInv, SeenInv, RuleInv,
         StrategyInv, LogInv, Live, InTest, CallLabels, HolderLabels, Started, Good
  <1>12. CASE send_https_test_raw(t)
    <2>1. /\ UNCHANGED <<running, conf, ui, menu_index, testing_results, testing_all_running,
                         prof, isAll, nfqws2_args, child>>
          /\ pc' = [pc EXCEPT ![t] = "stop_nfqws2"]
      BY <1>12 DEF send_https_test_raw
    <2>2. /\ \A u \in Threads \ {t} : loc'[u] = loc[u]
          /\ loc'[t].final = loc[t].final /\ loc'[t].strategy = loc[t].strategy
          /\ \E traces \in SUBSET {"packet", "lua_func"} :
               /\ "lua_func" \in traces => "packet" \in traces
               /\ loc'[t].log = loc[t].log \cup traces
      BY <1>12, Request, Zenon
    <2>3. OthersSame(t) /\ pc'[t] = "stop_nfqws2"
      BY <2>1, <2>2 DEF OthersSame, TypeOK
    <2>4. LogInv(t)'
      BY <1>12, <1>a, <2>1, <2>2 DEF ThreadInv, LogInv, send_https_test_raw, Good
    <2> QED
      BY <1>c, <1>12, <1>a, <2>1, <2>2, <2>3, <2>4 DEF send_https_test_raw, ThreadInv, SeenInv,
         RuleInv, StrategyInv, Live, InTest, CallLabels, HolderLabels, Started
  <1>13. CASE stop_nfqws2(t)
    <2>1. OthersSame(t) /\ pc'[t] = "delete_rule" /\ child'[t] = "none"
      BY <1>13 DEF stop_nfqws2, OthersSame, TypeOK
    <2>2. PICK code \in {0, 128 + SIGKILL}, logs \in SUBSET (loc[t].log \cup (Chatter \cap {"error"})) :
            loc' = [loc EXCEPT ![t] = [FreshLocals EXCEPT
                      !.strategy = loc[t].strategy,
                      !.log = loc[t].log \cap {"packet"},
                      !.final = JudgeRun(loc[t].http, code, logs, loc[t].binding)]]
      BY <1>13 DEF stop_nfqws2
    <2>3. /\ loc'[t].strategy = loc[t].strategy
          /\ loc'[t].log = loc[t].log \cap {"packet"}
          /\ loc'[t].final = JudgeRun(loc[t].http, code, logs, loc[t].binding)
      BY <2>2 DEF FreshLocals, TypeOK
    <2>4. logs \subseteq {"bind", "packet", "lua_func", "error"}
      BY <1>a DEF ThreadInv, LogInv
    <2>5. loc'[t].final \in Good => "packet" \in logs \/ "lua_func" \in logs
      <3>1. CASE JudgeRun(loc[t].http, code, logs, loc[t].binding) \in Good
        BY <2>4, <3>1, GoodVerdict, Zenon
      <3> QED BY <2>3, <3>1
    <2>6. LogInv(t)'
      BY <1>13, <1>a, <2>1, <2>3, <2>5 DEF stop_nfqws2, ThreadInv, StrategyInv, LogInv, Started
    <2> QED
      BY <1>c, <1>13, <1>a, <2>1, <2>6 DEF stop_nfqws2, ThreadInv, SeenInv, RuleInv,
         StrategyInv, Live, InTest, CallLabels, HolderLabels, Started
  <1>14. CASE delete_rule(t)
    <2>1. OthersSame(t) /\ pc'[t] = "set_result"
      BY <1>14 DEF delete_rule, OthersSame, TypeOK
    <2> QED
      BY <1>c, <1>14, <1>a, <2>1 DEF delete_rule, ThreadInv, SeenInv, RuleInv, StrategyInv,
         LogInv, Live, InTest, CallLabels, HolderLabels, Started
  <1>15. CASE delete_rule_fails(t)
    <2>1. OthersSame(t) /\ pc'[t] \in {"delete_rule", "set_result"}
      BY <1>15 DEF delete_rule_fails, OthersSame, TypeOK
    <2>2. /\ loc'[t].log = loc[t].log /\ loc'[t].strategy = loc[t].strategy
          /\ loc'[t].final \in {loc[t].final, "ERROR"}
      BY <1>15 DEF delete_rule_fails, TypeOK, Locals
    <2> QED
      BY <1>c, <1>15, <1>a, <2>1, <2>2 DEF delete_rule_fails, ThreadInv, SeenInv, RuleInv,
         StrategyInv, LogInv, Live, InTest, CallLabels, HolderLabels, Started, Good
  <1>16. CASE SetResult(t)
    BY <1>16, ReturnStep DEF SetResult
  <1> QED
    BY <1>1, <1>2, <1>3, <1>4, <1>5, <1>6, <1>7, <1>8, <1>9, <1>10, <1>11, <1>12, <1>13,
       <1>14, <1>15, <1>16 DEF TestThread

LEMMA TestStep == RuleCreationWorks /\ TypeOK /\ TestInv /\ [Next]_vars => TestInv'
  <1> SUFFICES ASSUME RuleCreationWorks, TypeOK, TestInv, [Next]_vars PROVE TestInv'
    OBVIOUS
  <1> USE DEF procVars, uiVars, sharedVars, threadVars, osVars
  <1>1. CASE Quit \/ Killed
    <2>1. EndProcess
      BY <1>1 DEF Quit, Killed
    <2>2. /\ running' = FALSE /\ ui' = "poll"
          /\ \A t \in Threads : pc'[t] = "free" /\ child'[t] = "none" /\ loc'[t] = FreshLocals
      BY <2>1 DEF EndProcess
    <2> QED BY <2>2, FreshInv
  <1>2. CASE Restart
    <2>1. /\ UNCHANGED <<ui, pc, child, loc>> /\ ui = "poll"
          /\ \A t \in Threads : pc[t] = "free"
      BY <1>2 DEF Restart, TestInv, Ended
    <2>2. \A t \in Threads : child[t] = "none"
      BY <2>1 DEF TestInv, ThreadInv, StrategyInv, Started
    <2>3. ASSUME NEW t \in Threads PROVE LogInv(t)'
      BY <2>1 DEF TestInv, ThreadInv, LogInv
    <2> QED
      BY <2>1, <2>2, <2>3 DEF TestInv, ThreadInv, Ended, TestsExclusive, UiInv, SeenInv, RuleInv,
         StrategyInv, Live, InTest, CallLabels, HolderLabels, Started
  <1>3. CASE Over \/ UNCHANGED vars
    BY <1>3 DEF Over, vars, TestInv, ThreadInv, Ended, TestsExclusive, UiInv, SeenInv, RuleInv,
       StrategyInv, LogInv, Live, InTest
  <1>4. CASE UiThread BY <1>4, TestUi
  <1>5. ASSUME NEW t \in Threads, TestThread(t) PROVE TestInv'
    BY <1>5, TestThreadStep
  <1>6. ASSUME NEW t \in Threads, ChildBinds(t) \/ ChildDies(t) PROVE TestInv'
    <2>1. child[t] # "none" /\ ThreadInv(t) /\ Live(t)
      BY <1>6 DEF ChildBinds, ChildDies, TestInv, ThreadInv, StrategyInv, Live, Started
    <2>2. running
      BY <2>1 DEF TestInv, Ended, Live
    <2>3. OthersSame(t) /\ UNCHANGED <<testing_results, testing_all_running, pc, prof, isAll, nfqws2_args>>
      BY <1>6 DEF ChildBinds, ChildDies, OthersSame, TypeOK
    <2>4. /\ loc'[t].log \in {loc[t].log, loc[t].log \cup {"bind"}}
          /\ loc'[t].final = loc[t].final /\ loc'[t].strategy = loc[t].strategy
      BY <1>6 DEF ChildBinds, ChildDies, TypeOK, Locals
    <2>5. ThreadInv(t)'
      BY <2>1, <2>3, <2>4 DEF OthersSame, ThreadInv, SeenInv, RuleInv, StrategyInv, LogInv, Live,
         InTest
    <2> QED BY <2>1, <2>2, <2>3, <2>5, OwnStep
  <1>7. CASE OrphanDies
    BY <1>7 DEF OrphanDies, TestInv, ThreadInv, Ended, TestsExclusive, UiInv, SeenInv, RuleInv,
       StrategyInv, LogInv, Live, InTest
  <1> QED
    BY <1>1, <1>2, <1>3, <1>4, <1>5, <1>6, <1>7 DEF Next, Background

LEMMA TestInvariant ==
  ASSUME RuleCreationWorks
  PROVE  Spec => []TestInv
  <1>1. TypeOK /\ TestInv /\ [Next]_vars => TestInv'
    BY TestStep
  <1> QED BY <1>1, TestInit, TypeCorrect, PTL DEF Spec

-----------------------------------------------------------------------------
(* What follows from it.                                                   *)

\* can_start keeps tests apart: with any number of keys pressed, threads created and
\* programs restarted there is never a second test thread, single or sweep.
THEOREM ExclusiveTests ==
  ASSUME RuleCreationWorks
  PROVE  Spec => []TestsExclusive
  <1>1. TestInv => TestsExclusive
    BY DEF TestInv
  <1> QED BY <1>1, TestInvariant, PTL

\* The menu is right about a test in progress: nobody takes RUNNING from its profile.
THEOREM RunningShown ==
  ASSUME RuleCreationWorks
  PROVE  Spec => []StatusShowsTest
  <1>1. TestInv => StatusShowsTest
    BY DEF TestInv, ThreadInv, SeenInv, StatusShowsTest
  <1> QED BY <1>1, TestInvariant, PTL

\* The static argument buffer is never written between its use by a test and the
\* start of the nfqws2 of that test.
THEOREM StrategyOfTest ==
  ASSUME RuleCreationWorks
  PROVE  Spec => []OwnStrategy
  <1>1. TestInv => OwnStrategy
    BY DEF TestInv, ThreadInv, StrategyInv, OwnStrategy
  <1> QED BY <1>1, TestInvariant, PTL

\* SUCCESS and PARTIAL rest on a request that the nfqws2 of this very test saw, even
\* with an orphaned nfqws2 on the queue or without a rule.
THEOREM EarnedVerdict ==
  ASSUME RuleCreationWorks
  PROVE  Spec => []VerdictEarned
  <1>1. TestInv => VerdictEarned
    BY DEF TestInv, ThreadInv, LogInv, Good, VerdictEarned
  <1> QED BY <1>1, TestInvariant, PTL

-----------------------------------------------------------------------------
(* The run of nfqws2 in a test is taken in the steps of NfqwsContract.     *)

\* The locals of testing_profiles are as declared until nfqws2 is started.
Untouched(t) ==
  pc[t] \notin Started \cup {"delete_rule", "set_result"} => loc[t] = FreshLocals

RunInv == \A t \in Threads : Untouched(t)

\* What a step means to the run of one thread.
KeepsRun(t) == Run(t)!Next \/ UNCHANGED Run(t)!vars

\* The contract judges as the test does.
LEMMA SameJudge ==
  ASSUME NEW t \in Threads
  PROVE  /\ \A success, code, found, known :
              Run(t)!JudgeRun(success, code, found, known) = JudgeRun(success, code, found, known)
         /\ Run(t)!Results = Results /\ Run(t)!SIGKILL = SIGKILL
  BY DEF Results, Run!Results, SIGKILL, Run!SIGKILL, SIGTERM, Run!SIGTERM, JudgeRun,
         Run!JudgeRun, testing_profile_verdict, Run!testing_profile_verdict, Broken, Run!Broken,
         nfqws2_exit_is_expected, Run!nfqws2_exit_is_expected, Repair, Run!Repair, analyze_test,
         Run!analyze_test

LEMMA SameRun ==
  ASSUME NEW t \in Threads, pc'[t] = pc[t], loc'[t] = loc[t]
  PROVE  KeepsRun(t) /\ (Untouched(t) => Untouched(t)')
  BY DEF KeepsRun, Run!vars, RunStage, InRun, Untouched

\* A test without a run, or the end of one.
LEMMA NoRun ==
  ASSUME TypeOK', NEW t \in Threads, RunStage(t)' = "none"
  PROVE  KeepsRun(t)
  <1>1. loc'[t].final \in Results
    BY LocalsField DEF TypeOK
  <1>2. Run(t)!Leaves
    BY <1>1, SameJudge DEF Run!Leaves, InRun
  <1> QED BY <1>2 DEF KeepsRun, Run!Next

\* A step of a test leaves the locals of every other thread alone.
LEMMA OthersUntouched ==
  ASSUME TypeOK, TestInv, NEW t \in Threads, TestThread(t)
  PROVE  \A u \in Threads \ {t} : pc'[u] = pc[u] /\ loc'[u] = loc[u]
  <1> USE DEF TypeOK, Goto, Return, threadVars
  <1>1. CASE AllNext(t) \/ AllDone(t) \/ Refuse(t) \/ get_test_queue(t)
    BY <1>1 DEF AllNext, AllDone, Refuse, get_test_queue
  <1>2. CASE create_rule(t) \/ create_rule_fails(t) \/ RuleFailed(t) \/ build_nfqws2_args(t)
    BY <1>2 DEF create_rule, create_rule_fails, RuleFailed, build_nfqws2_args
  <1>3. CASE start_nfqws2(t) \/ start_nfqws2_fails(t) \/ wait_for_nfqws2_ready(t)
    BY <1>3 DEF start_nfqws2, start_nfqws2_fails, wait_for_nfqws2_ready
  <1>4. CASE send_https_test_raw(t)
    BY <1>4, Request DEF send_https_test_raw
  <1>5. CASE stop_nfqws2(t) \/ delete_rule(t) \/ delete_rule_fails(t) \/ SetResult(t)
    BY <1>5 DEF stop_nfqws2, delete_rule, delete_rule_fails, SetResult
  <1> QED BY <1>1, <1>2, <1>3, <1>4, <1>5 DEF TestThread

LEMMA RunThread ==
  ASSUME TypeOK, TypeOK', TestInv, RunInv, NEW t \in Threads, TestThread(t)
  PROVE  KeepsRun(t) /\ Untouched(t)'
  <1> USE DEF At, Goto
  <1>a. ThreadInv(t) /\ Untouched(t)
    BY DEF TestInv, RunInv
  <1>b. loc[t] \in Locals /\ pc[t] \in ThreadLabels
    BY DEF TypeOK
  <1>1. CASE AllNext(t) \/ AllDone(t) \/ get_test_queue(t) \/ create_rule(t) \/ create_rule_fails(t)
    <2>1. /\ pc'[t] \in {"testing_profiles", "free", "create_rule", "build_args", "rule_failed"}
          /\ loc'[t] = loc[t] /\ pc[t] \in {"all_next", "testing_profiles", "create_rule"}
      BY <1>1 DEF AllNext, AllDone, get_test_queue, create_rule, create_rule_fails, TypeOK
    <2> QED BY <1>a, <2>1, NoRun DEF RunStage, Untouched, Started
  <1>2. CASE Refuse(t) \/ RuleFailed(t) \/ SetResult(t)
    <2>1. pc'[t] \in {"all_next", "free"} /\ loc'[t] = FreshLocals
      BY <1>2 DEF Refuse, RuleFailed, SetResult, Return, TypeOK
    <2> QED BY <2>1, NoRun DEF RunStage, Untouched
  <1>3. CASE build_nfqws2_args(t) \/ start_nfqws2_fails(t)
    <2>1. /\ pc'[t] \in {"start_nfqws2", "delete_rule"} /\ loc'[t] = loc[t]
          /\ pc[t] \in {"build_args", "start_nfqws2"}
      BY <1>3 DEF build_nfqws2_args, start_nfqws2_fails, TypeOK
    <2>2. loc[t] = FreshLocals
      BY <1>a, <2>1 DEF Untouched, Started
    <2> QED BY <2>1, <2>2, NoRun DEF RunStage, Untouched, FreshLocals
  <1>4. CASE start_nfqws2(t)
    <2>1. pc[t] = "start_nfqws2" /\ pc'[t] = "wait_ready"
      BY <1>4 DEF start_nfqws2, TypeOK
    <2>2. loc[t] = FreshLocals
      BY <1>a, <2>1 DEF Untouched, Started
    <2>3. loc'[t] = [FreshLocals EXCEPT !.strategy = nfqws2_args]
      BY <1>4, <2>2 DEF start_nfqws2, TypeOK
    <2>4. /\ loc'[t].log = {} /\ loc'[t].binding = FALSE /\ loc'[t].http = FALSE
          /\ loc'[t].final = loc[t].final
      BY <2>2, <2>3 DEF FreshLocals
    <2>5. RunStage(t) = "none" /\ RunStage(t)' = "wait"
      BY <2>1 DEF RunStage
    <2>6. Run(t)!Starts
      BY <2>4, <2>5 DEF Run!Starts, InRun
    <2> QED BY <2>1, <2>6 DEF KeepsRun, Run!Next, Untouched, Started
  <1>5. CASE wait_for_nfqws2_ready(t)
    <2>1. pc[t] = "wait_ready" /\ pc'[t] = "http_test"
      BY <1>5 DEF wait_for_nfqws2_ready, TypeOK
    <2>2. PICK confirmed \in BOOLEAN, dropped \in SUBSET (loc[t].log \cap {"bind"}) :
            /\ confirmed => dropped # {}
            /\ loc' = [loc EXCEPT ![t] = [loc[t] EXCEPT !.binding = confirmed,
                                                        !.log = loc[t].log \ dropped]]
      BY <1>5, Zenon DEF wait_for_nfqws2_ready
    <2>3. /\ loc'[t].log = loc[t].log \ dropped /\ loc'[t].binding = confirmed
          /\ loc'[t].http = loc[t].http /\ loc'[t].final = loc[t].final
      BY <1>b, <2>2 DEF TypeOK, Locals
    <2>4. loc'[t].log \in {loc[t].log, loc[t].log \ {"bind"}}
      BY <2>3
    <2>5. loc'[t].binding => "bind" \in loc[t].log
      BY <2>2, <2>3
    <2>6. RunStage(t) = "wait" /\ RunStage(t)' = "http"
      BY <2>1 DEF RunStage
    <2>7. Run(t)!WaitEnds
      BY <2>3, <2>4, <2>5, <2>6 DEF Run!WaitEnds, InRun
    <2> QED BY <2>1, <2>7 DEF KeepsRun, Run!Next, Untouched, Started
  <1>6. CASE send_https_test_raw(t)
    <2>1. pc[t] = "http_test" /\ pc'[t] = "stop_nfqws2" /\ Live(t)
      BY <1>6 DEF send_https_test_raw, TypeOK, Live
    <2>4. PICK traces \in SUBSET {"packet", "lua_func"} :
            /\ "lua_func" \in traces => "packet" \in traces
            /\ loc'[t].log = loc[t].log \cup traces
            /\ loc'[t].http \in BOOLEAN
            /\ loc'[t].binding = loc[t].binding /\ loc'[t].final = loc[t].final
      BY <1>6, Request, Zenon
    <2>6. RunStage(t) = "http" /\ RunStage(t)' = "stop"
      BY <2>1 DEF RunStage
    <2>7. Run(t)!Logs(traces)
      BY <2>4, <2>6 DEF Run!Logs, InRun
    <2>8. Run(t)!Requests
      BY <2>4, <2>6, <2>7 DEF Run!Requests, InRun
    <2> QED BY <2>1, <2>8 DEF KeepsRun, Run!Next, Untouched, Started
  <1>7. CASE stop_nfqws2(t)
    <2>1. pc[t] = "stop_nfqws2" /\ pc'[t] = "delete_rule"
      BY <1>7 DEF stop_nfqws2, TypeOK
    <2>2. PICK code \in {0, 128 + SIGKILL}, logs \in SUBSET (loc[t].log \cup (Chatter \cap {"error"})) :
            loc' = [loc EXCEPT ![t] = [FreshLocals EXCEPT
                      !.strategy = loc[t].strategy,
                      !.log = loc[t].log \cap {"packet"},
                      !.final = JudgeRun(loc[t].http, code, logs, loc[t].binding)]]
      BY <1>7 DEF stop_nfqws2
    <2>3. /\ loc'[t].log = loc[t].log \cap {"packet"} /\ loc'[t].strategy = loc[t].strategy
          /\ loc'[t].binding = FALSE /\ loc'[t].http = FALSE
          /\ loc'[t].final = JudgeRun(loc[t].http, code, logs, loc[t].binding)
      BY <2>2 DEF FreshLocals, TypeOK
    <2>4. loc[t].strategy # NoProfile
      <3>1. loc[t].strategy = prof[t] /\ prof[t] \in Profiles
        BY <1>a, <2>1 DEF ThreadInv, StrategyInv, SeenInv, InTest, CallLabels, HolderLabels, Started
      <3>2. NoProfile \notin Profiles
        BY ConstantsOK DEF ConstantsOK, NoProfile, Profiles
      <3> QED BY <3>1, <3>2
    <2>5. RunStage(t) = "stop" /\ RunStage(t)' = "over"
      BY <2>1, <2>3, <2>4 DEF RunStage
    <2>6. logs \in SUBSET (loc[t].log \cup {"error"})
      OBVIOUS
    <2>7. \E exit \in {0, 128 + SIGKILL}, found \in SUBSET (loc[t].log \cup {"error"}) :
            loc'[t].final = JudgeRun(loc[t].http, exit, found, loc[t].binding)
      BY <2>3, <2>6
    <2>8. loc[t].http \in BOOLEAN /\ loc[t].binding \in BOOLEAN
      BY <1>b DEF Locals
    <2>9. /\ (IF InRun(t) THEN loc[t].log ELSE {}) = loc[t].log
          /\ (InRun(t) /\ loc[t].http) = loc[t].http
          /\ (InRun(t) /\ loc[t].binding) = loc[t].binding
      BY <2>5, <2>8 DEF InRun
    <2>10. Run(t)!Judges
      BY <2>3, <2>5, <2>7, <2>9, SameJudge DEF Run!Judges, InRun
    <2> QED BY <2>1, <2>10 DEF KeepsRun, Run!Next, Untouched
  <1>8. CASE delete_rule(t)
    <2>1. pc'[t] = "set_result"
      BY <1>8 DEF delete_rule, TypeOK
    <2> QED BY <2>1, NoRun DEF RunStage, Untouched
  <1>9. CASE delete_rule_fails(t)
    <2>1. CASE loc[t].tries < 2
      <3>1. /\ pc[t] = "delete_rule" /\ pc'[t] = "delete_rule"
            /\ loc'[t] = [loc[t] EXCEPT !.tries = @ + 1]
        BY <1>9, <2>1 DEF delete_rule_fails, TypeOK
      <3>2. /\ loc'[t].log = loc[t].log /\ loc'[t].strategy = loc[t].strategy
            /\ loc'[t].binding = loc[t].binding /\ loc'[t].http = loc[t].http
            /\ loc'[t].final = loc[t].final
        BY <1>b, <3>1 DEF Locals
      <3> QED BY <3>1, <3>2 DEF KeepsRun, Run!vars, RunStage, InRun, Untouched
    <2>2. CASE ~(loc[t].tries < 2)
      <3>1. pc'[t] = "set_result"
        BY <1>9, <2>2 DEF delete_rule_fails, TypeOK
      <3> QED BY <3>1, NoRun DEF RunStage, Untouched
    <2> QED BY <2>1, <2>2
  <1> QED BY <1>1, <1>2, <1>3, <1>4, <1>5, <1>6, <1>7, <1>8, <1>9 DEF TestThread

LEMMA RunStep ==
  TypeOK /\ TypeOK' /\ TestInv /\ RunInv /\ [Next]_vars =>
    RunInv' /\ \A t \in Threads : KeepsRun(t)
  <1> SUFFICES ASSUME TypeOK, TypeOK', TestInv, RunInv, [Next]_vars, NEW t \in Threads
               PROVE  KeepsRun(t) /\ Untouched(t)'
    BY DEF RunInv
  <1>a. Untouched(t)
    BY DEF RunInv
  <1>1. CASE Quit \/ Killed
    <2>1. pc'[t] = "free" /\ loc'[t] = FreshLocals
      BY <1>1 DEF Quit, Killed, EndProcess
    <2> QED BY <2>1, NoRun DEF RunStage, Untouched
  <1>2. CASE Restart \/ Over \/ OrphanDies \/ UNCHANGED vars
    BY <1>2, <1>a, SameRun DEF Restart, Over, OrphanDies, vars, threadVars
  <1>3. CASE UiThread
    <2>1. loc' = loc
      BY <1>3 DEF UiThread, Poll, NoKey, MoveCursor, KeyService, KeyTestOne, KeyTestAll, KeyTest,
            OneCheck, OneMark, OneSpawn, OneSpawnFails, AllMark, AllSpawn, AllSpawnFails, Spawn,
            threadVars
    <2>2. CASE pc'[t] = pc[t]
      BY <1>a, <2>1, <2>2, SameRun
    <2>3. CASE pc'[t] # pc[t]
      <3>1. PICK u \in Threads : Spawn(u)
        BY <1>3, <2>3 DEF UiThread, Poll, NoKey, MoveCursor, KeyService, KeyTestOne, KeyTestAll,
              KeyTest, OneCheck, OneMark, OneSpawn, OneSpawnFails, AllMark, AllSpawn,
              AllSpawnFails, threadVars
      <3>2. pc[t] = "free" /\ pc'[t] \in {"all_next", "testing_profiles"}
        BY <2>3, <3>1 DEF Spawn, FreeSlots, TypeOK
      <3>3. loc'[t] = FreshLocals
        BY <1>a, <2>1, <3>2 DEF Untouched, Started
      <3> QED BY <3>2, <3>3, NoRun DEF RunStage, Untouched
    <2> QED BY <2>2, <2>3
  <1>4. ASSUME NEW u \in Threads, TestThread(u) PROVE KeepsRun(t) /\ Untouched(t)'
    BY <1>4, <1>a, RunThread, OthersUntouched, SameRun
  <1>5. ASSUME NEW u \in Threads, ChildBinds(u) PROVE KeepsRun(t) /\ Untouched(t)'
    <2>1. CASE u # t
      BY <1>5, <1>a, <2>1, SameRun DEF ChildBinds, TypeOK
    <2>2. CASE u = t
      <3>1. pc[t] \in Started /\ pc'[t] = pc[t]
        BY <1>5, <2>2 DEF ChildBinds, TestInv, ThreadInv, StrategyInv
      <3>2. /\ loc'[t].log = loc[t].log \cup {"bind"}
            /\ loc'[t].binding = loc[t].binding /\ loc'[t].http = loc[t].http
            /\ loc'[t].final = loc[t].final
        BY <1>5, <2>2 DEF ChildBinds, TypeOK, Locals
      <3>3. RunStage(t) \in {"wait", "http", "stop"} /\ RunStage(t)' = RunStage(t)
        BY <3>1 DEF RunStage, Started
      <3>4. Run(t)!Logs({"bind"})
        BY <3>2, <3>3 DEF Run!Logs, InRun
      <3>5. Run(t)!Prints
        BY <3>2, <3>3, <3>4 DEF Run!Prints, InRun
      <3> QED BY <3>1, <3>5 DEF KeepsRun, Run!Next, Untouched
    <2> QED BY <2>1, <2>2
  <1>6. ASSUME NEW u \in Threads, ChildDies(u) PROVE KeepsRun(t) /\ Untouched(t)'
    BY <1>6, <1>a, SameRun DEF ChildDies, threadVars
  <1> QED BY <1>1, <1>2, <1>3, <1>4, <1>5, <1>6 DEF Next, Background

LEMMA RunInit == Init => RunInv /\ \A t \in Threads : Run(t)!Init
  <1> SUFFICES ASSUME Init, NEW t \in Threads PROVE Untouched(t) /\ Run(t)!Init
    BY DEF RunInv
  <1>1. pc[t] = "free" /\ loc[t] = FreshLocals
    BY DEF Init
  <1>2. RunStage(t) = "none" /\ loc[t].final \in Results
    BY <1>1 DEF RunStage, FreshLocals, Results
  <1> QED BY <1>1, <1>2, SameJudge DEF Untouched, Run!Init, InRun

\* Every thread takes its nfqws2 through the steps of NfqwsContract, which are those of
\* the run that NfqwsRun takes apart: what stops in the middle, keys, restarts, rules and
\* processes left behind never mix two runs.
THEOREM TestsKeepContract ==
  ASSUME RuleCreationWorks
  PROVE  Spec => RunsKeepContract
  <1>1. TypeOK /\ TypeOK' /\ TestInv /\ RunInv /\ [Next]_vars =>
          RunInv' /\ \A t \in Threads : Run(t)!Next \/ UNCHANGED Run(t)!vars
    BY RunStep DEF KeepsRun
  <1>2. Init => RunInv /\ \A t \in Threads : Run(t)!Init
    BY RunInit
  <1> QED BY <1>1, <1>2, TypeCorrect, TestInvariant, PTL DEF Spec, RunsKeepContract

-----------------------------------------------------------------------------
(* How long a test can take, whatever fails and whoever interferes.        *)

\* The steps from a label to the end of testing_profiles; a deletion is tried three
\* times.
TestSteps(t) ==
  CASE pc[t] = "testing_profiles" -> 11 [] pc[t] = "create_rule" -> 10
    [] pc[t] = "build_args" -> 9        [] pc[t] = "start_nfqws2" -> 8
    [] pc[t] = "wait_ready" -> 7        [] pc[t] = "http_test" -> 6
    [] pc[t] = "stop_nfqws2" -> 5       [] pc[t] = "delete_rule" -> 4 - loc[t].tries
    [] pc[t] = "set_result" -> 1        [] pc[t] = "rule_failed" -> 1
    [] pc[t] \in {"free", "all_next"} -> 0

\* For each profile a sweep has yet to come to, a test and the step of the loop to it.
SweepSteps(t) == IF isAll[t] THEN 12 * (N - 1 - prof[t]) + 1 ELSE 0

StepsLeft(t) == IF Live(t) THEN TestSteps(t) + SweepSteps(t) ELSE 0

\* A test begins with 11 steps and a sweep with 12 for each profile and one; each of
\* its own steps uses one up, and nothing else that happens adds to them.
StepsRunOut ==
  [][\A t \in Threads :
       /\ TestThread(t) => StepsLeft(t)' < StepsLeft(t)
       /\ Live(t) => StepsLeft(t)' <= StepsLeft(t)
       /\ ~Live(t) /\ Live(t)' => StepsLeft(t)' = IF isAll'[t] THEN 12 * N + 1 ELSE 11]_vars

LEMMA StepsType ==
  ASSUME TypeOK, NEW t \in Threads
  PROVE  TestSteps(t) \in 0 .. 11 /\ SweepSteps(t) \in Nat /\ StepsLeft(t) \in Nat
<1>1. pc[t] \in ThreadLabels /\ prof[t] \in Profiles \cup {NoProfile} /\ loc[t] \in Locals
  BY DEF TypeOK
<1>2. loc[t].tries \in 0 .. 2
  BY <1>1, LocalsField
<1>3. TestSteps(t) \in 0 .. 11
  BY <1>1, <1>2 DEF TestSteps, ThreadLabels, CallLabels, HolderLabels
<1>4. N - 1 - prof[t] \in Nat
  BY <1>1, ConstantsOK DEF ConstantsOK, Profiles, NoProfile
<1>5. SweepSteps(t) \in Nat
  BY <1>4 DEF SweepSteps
<1> QED
  BY <1>3, <1>5 DEF StepsLeft

\* What the number of steps depends on.
LEMMA SameSteps ==
  ASSUME NEW t \in Threads, pc'[t] = pc[t], prof'[t] = prof[t], isAll'[t] = isAll[t],
         loc'[t].tries = loc[t].tries
  PROVE  StepsLeft(t)' = StepsLeft(t) /\ (Live(t)' <=> Live(t))
BY DEF StepsLeft, Live, TestSteps, SweepSteps

\* Another test may write to the log of this one, and to nothing else of it.
LEMMA OthersSteps ==
  ASSUME TypeOK, NEW t \in Threads, NEW u \in Threads \ {t}, TestThread(u)
  PROVE  StepsLeft(t)' = StepsLeft(t) /\ (Live(t)' <=> Live(t))
<1> USE DEF TypeOK, Goto, Return, threadVars
<1>1. CASE AllNext(u) \/ AllDone(u) \/ Refuse(u) \/ get_test_queue(u)
  BY <1>1, SameSteps DEF AllNext, AllDone, Refuse, get_test_queue
<1>2. CASE create_rule(u) \/ create_rule_fails(u) \/ RuleFailed(u) \/ build_nfqws2_args(u)
  BY <1>2, SameSteps DEF create_rule, create_rule_fails, RuleFailed, build_nfqws2_args
<1>3. CASE start_nfqws2(u) \/ start_nfqws2_fails(u) \/ wait_for_nfqws2_ready(u)
  BY <1>3, SameSteps DEF start_nfqws2, start_nfqws2_fails, wait_for_nfqws2_ready
<1>4. CASE send_https_test_raw(u)
  <2>1. loc'[t].tries = loc[t].tries
    <3>1. ASSUME NEW b, loc' = [loc EXCEPT ![u].http = b]
          PROVE  loc'[t].tries = loc[t].tries
      BY <3>1
    <3>2. ASSUME NEW w \in Threads, NEW ok, NEW desync,
                 loc' = [loc EXCEPT ![w].log = @ \cup {"packet"} \cup desync, ![u].http = ok]
          PROVE  loc'[t].tries = loc[t].tries
      BY <3>2 DEF Locals
    <3> QED
      BY <1>4, <3>1, <3>2 DEF send_https_test_raw
  <2> QED
    BY <1>4, <2>1, SameSteps DEF send_https_test_raw
<1>5. CASE stop_nfqws2(u) \/ delete_rule(u) \/ delete_rule_fails(u) \/ SetResult(u)
  BY <1>5, SameSteps DEF stop_nfqws2, delete_rule, delete_rule_fails, SetResult
<1> QED
  BY <1>1, <1>2, <1>3, <1>4, <1>5 DEF TestThread

\* A test goes on to a later label, or tries the deletion again.
LEMMA StepWithin ==
  ASSUME TypeOK, TypeOK', NEW t \in Threads, Live(t), Live(t)',
         UNCHANGED <<prof, isAll>>, TestSteps(t)' < TestSteps(t)
  PROVE  StepsLeft(t)' < StepsLeft(t) /\ StepsLeft(t)' <= StepsLeft(t)
<1>1. TestSteps(t) \in Int /\ SweepSteps(t) \in Nat /\ SweepSteps(t)' = SweepSteps(t)
  BY StepsType DEF SweepSteps
<1>2. TestSteps(t)' \in Int
  <2>1. pc'[t] \in ThreadLabels /\ loc'[t] \in Locals
    BY DEF TypeOK
  <2>2. loc'[t].tries \in 0 .. 2
    BY <2>1, LocalsField
  <2> QED
    BY <2>1, <2>2 DEF TestSteps, ThreadLabels, CallLabels, HolderLabels
<1> QED
  BY <1>1, <1>2 DEF StepsLeft

\* It returns: to the loop of its sweep, with the counter where it was, or for good.
LEMMA StepBack ==
  ASSUME TypeOK, NEW t \in Threads, InTest(t), Return(t), isAll' = isAll
  PROVE  StepsLeft(t)' < StepsLeft(t) /\ StepsLeft(t)' <= StepsLeft(t)
<1>1. Live(t) /\ TestSteps(t) \in 1 .. 11
  <2>1. loc[t].tries \in 0 .. 2
    BY LocalsField DEF TypeOK
  <2> QED
    BY <2>1 DEF InTest, Live, TestSteps, CallLabels, HolderLabels
<1>2. SweepSteps(t) \in Nat /\ StepsLeft(t) = TestSteps(t) + SweepSteps(t)
  BY <1>1, StepsType DEF StepsLeft
<1>3. CASE isAll[t]
  <2>1. pc'[t] = "all_next" /\ prof'[t] = prof[t]
    BY <1>3 DEF Return, Goto, TypeOK
  <2>2. TestSteps(t)' = 0 /\ SweepSteps(t)' = SweepSteps(t)
    BY <2>1 DEF TestSteps, SweepSteps
  <2> QED
    BY <1>1, <1>2, <2>1, <2>2 DEF StepsLeft, Live
<1>4. CASE ~isAll[t]
  <2>1. pc'[t] = "free"
    BY <1>4 DEF Return, Goto, TypeOK
  <2> QED
    BY <1>1, <1>2, <2>1 DEF StepsLeft, Live
<1> QED
  BY <1>3, <1>4 DEF TypeOK

LEMMA OwnSteps ==
  ASSUME TypeOK, TypeOK', SweepInv, NEW t \in Threads, TestThread(t)
  PROVE  StepsLeft(t)' < StepsLeft(t) /\ StepsLeft(t)' <= StepsLeft(t)
<1>a. loc[t] \in Locals /\ loc[t].tries \in 0 .. 2
  BY LocalsField DEF TypeOK
<1>b. loc'[t].tries \in 0 .. 2
  BY LocalsField DEF TypeOK
<1>c. pc \in [Threads -> ThreadLabels] /\ prof \in [Threads -> Profiles \cup {NoProfile}]
  BY DEF TypeOK
<1> USE DEF At, Goto
<1>1. CASE AllNext(t)
  <2>1. isAll[t] /\ isAll'[t]
    BY <1>1 DEF AllNext, SweepInv
  <2>2. prof'[t] = prof[t] + 1 /\ pc'[t] = "testing_profiles" /\ pc[t] = "all_next"
    BY <1>1, <1>c DEF AllNext
  <2>3. prof[t] \in Int /\ N \in Int
    BY <1>c, ConstantsOK DEF ConstantsOK, Profiles, NoProfile
  <2>4. StepsLeft(t) = 12 * (N - 1 - prof[t]) + 1
    BY <2>1, <2>2, <2>3 DEF StepsLeft, Live, TestSteps, SweepSteps
  <2>5. StepsLeft(t)' = 11 + (12 * (N - 1 - (prof[t] + 1)) + 1)
    BY <2>1, <2>2, <2>3 DEF StepsLeft, Live, TestSteps, SweepSteps
  <2> QED
    BY <2>3, <2>4, <2>5
<1>2. CASE AllDone(t)
  <2>1. isAll[t] /\ pc[t] = "all_next" /\ pc'[t] = "free"
    BY <1>2, <1>c DEF AllDone, SweepInv
  <2>2. N - 1 - prof[t] \in Nat
    BY <1>c, ConstantsOK DEF ConstantsOK, Profiles, NoProfile
  <2>3. StepsLeft(t) = 12 * (N - 1 - prof[t]) + 1
    BY <2>1, <2>2 DEF StepsLeft, Live, TestSteps, SweepSteps
  <2>4. StepsLeft(t)' = 0
    BY <2>1 DEF StepsLeft, Live
  <2> QED
    BY <2>2, <2>3, <2>4
<1>3. CASE Refuse(t) \/ RuleFailed(t) \/ SetResult(t)
  <2>1. InTest(t) /\ Return(t) /\ isAll' = isAll
    BY <1>3 DEF Refuse, RuleFailed, SetResult, InTest, CallLabels
  <2> QED
    BY <2>1, StepBack
<1>4. CASE \/ get_test_queue(t) \/ create_rule(t) \/ create_rule_fails(t)
           \/ build_nfqws2_args(t) \/ start_nfqws2(t) \/ start_nfqws2_fails(t)
           \/ wait_for_nfqws2_ready(t) \/ send_https_test_raw(t) \/ stop_nfqws2(t)
           \/ delete_rule(t) \/ delete_rule_fails(t)
  <2>1. UNCHANGED <<prof, isAll>>
    BY <1>4 DEF get_test_queue, create_rule, create_rule_fails, build_nfqws2_args, start_nfqws2,
       start_nfqws2_fails, wait_for_nfqws2_ready, send_https_test_raw, stop_nfqws2, delete_rule,
       delete_rule_fails
  <2>2. Live(t) /\ Live(t)' /\ TestSteps(t)' < TestSteps(t)
    <3>1. CASE get_test_queue(t) \/ create_rule(t) \/ create_rule_fails(t)
      BY <3>1, <1>c DEF get_test_queue, create_rule, create_rule_fails, Live, TestSteps
    <3>2. CASE build_nfqws2_args(t) \/ start_nfqws2(t) \/ start_nfqws2_fails(t)
      <4>1. CASE build_nfqws2_args(t)
        <5>1. pc[t] = "build_args" /\ pc'[t] \in {"start_nfqws2", "delete_rule"}
          BY <4>1, <1>c DEF build_nfqws2_args
        <5> QED
          BY <5>1, <1>b DEF Live, TestSteps
      <4>2. CASE start_nfqws2(t) \/ start_nfqws2_fails(t)
        <5>1. pc[t] = "start_nfqws2" /\ pc'[t] \in {"wait_ready", "delete_rule"}
          BY <4>2, <1>c DEF start_nfqws2, start_nfqws2_fails
        <5> QED
          BY <5>1, <1>b DEF Live, TestSteps
      <4> QED
        BY <3>2, <4>1, <4>2
    <3>3. CASE wait_for_nfqws2_ready(t) \/ send_https_test_raw(t) \/ stop_nfqws2(t)
      <4>1. \/ pc[t] = "wait_ready" /\ pc'[t] = "http_test"
            \/ pc[t] = "http_test" /\ pc'[t] = "stop_nfqws2"
            \/ pc[t] = "stop_nfqws2" /\ pc'[t] = "delete_rule"
        BY <3>3, <1>c DEF wait_for_nfqws2_ready, send_https_test_raw, stop_nfqws2
      <4> QED
        BY <4>1, <1>b DEF Live, TestSteps
    <3>4. CASE delete_rule(t)
      BY <3>4, <1>a, <1>c DEF delete_rule, Live, TestSteps
    <3>5. CASE delete_rule_fails(t)
      <4>1. CASE loc[t].tries < 2
        <5>1. loc'[t] = [loc[t] EXCEPT !.tries = loc[t].tries + 1]
          BY <3>5, <4>1 DEF delete_rule_fails, TypeOK
        <5>2. loc'[t].tries = loc[t].tries + 1
          BY <1>a, <5>1 DEF Locals
        <5>3. pc[t] = "delete_rule" /\ pc'[t] = "delete_rule"
          BY <3>5, <4>1 DEF delete_rule_fails
        <5> QED
          BY <1>a, <5>2, <5>3 DEF Live, TestSteps
      <4>2. CASE ~(loc[t].tries < 2)
        BY <3>5, <4>2, <1>a, <1>c DEF delete_rule_fails, Live, TestSteps
      <4> QED
        BY <4>1, <4>2
    <3> QED
      BY <1>4, <3>1, <3>2, <3>3, <3>4, <3>5
  <2> QED
    BY <2>1, <2>2, StepWithin
<1> QED
  BY <1>1, <1>2, <1>3, <1>4 DEF TestThread

\* pthread_create: the new thread has all its steps before it, the others keep theirs.
LEMMA SpawnSteps ==
  ASSUME TypeOK, NEW t \in Threads, NEW u \in Threads, Spawn(u)
  PROVE  \/ (Live(t)' <=> Live(t)) /\ StepsLeft(t)' = StepsLeft(t)
         \/ ~Live(t) /\ StepsLeft(t)' = IF isAll'[t] THEN 12 * N + 1 ELSE 11
<1> USE DEF TypeOK
<1>1. CASE t # u
  <2>1. StepsLeft(t)' = StepsLeft(t) /\ (Live(t)' <=> Live(t))
    BY <1>1, SameSteps DEF Spawn
  <2> QED
    BY <2>1
<1>2. CASE t = u
  <2>1. ~Live(t) /\ N \in Int
    BY <1>2, ConstantsOK DEF Spawn, FreeSlots, Live, ConstantsOK
  <2>2. isAll'[t] = (ui = "all_spawn")
    BY <1>2 DEF Spawn
  <2>3. CASE ui = "all_spawn"
    <3>1. pc'[t] = "all_next" /\ prof'[t] = -1 /\ isAll'[t]
      BY <1>2, <2>2, <2>3 DEF Spawn, NoProfile
    <3>2. StepsLeft(t)' = 12 * N + 1
      BY <2>1, <3>1 DEF StepsLeft, Live, TestSteps, SweepSteps
    <3> QED
      BY <2>1, <3>1, <3>2
  <2>4. CASE ui # "all_spawn"
    <3>1. pc'[t] = "testing_profiles" /\ ~isAll'[t]
      BY <1>2, <2>2, <2>4 DEF Spawn
    <3>2. StepsLeft(t)' = 11
      BY <3>1 DEF StepsLeft, Live, TestSteps, SweepSteps
    <3> QED
      BY <2>1, <3>1, <3>2
  <2> QED
    BY <2>3, <2>4
<1> QED
  BY <1>1, <1>2

\* Every test ends within 11 steps of its own and every sweep within 12 * N + 1, for any
\* number of profiles and threads, though calls fail and several tests run at a time: no
\* loop of testing_profiles or testing_all_profiles is prolonged, by others or by retries.
THEOREM TestStepsBounded == Spec => [](\A t \in Threads : StepsLeft(t) \in Nat) /\ StepsRunOut
<1>1. TypeOK => \A t \in Threads : StepsLeft(t) \in Nat
  BY StepsType
<1>2. TypeOK /\ TypeOK' /\ SweepInv /\ [Next]_vars
        => [\A t \in Threads :
              /\ TestThread(t) => StepsLeft(t)' < StepsLeft(t)
              /\ Live(t) => StepsLeft(t)' <= StepsLeft(t)
              /\ ~Live(t) /\ Live(t)'
                   => StepsLeft(t)' = IF isAll'[t] THEN 12 * N + 1 ELSE 11]_vars
  <2> SUFFICES ASSUME TypeOK, TypeOK', SweepInv, Next, NEW t \in Threads
               PROVE  /\ TestThread(t) => StepsLeft(t)' < StepsLeft(t)
                      /\ Live(t) => StepsLeft(t)' <= StepsLeft(t)
                      /\ ~Live(t) /\ Live(t)'
                           => StepsLeft(t)' = IF isAll'[t] THEN 12 * N + 1 ELSE 11
    BY DEF vars
  <2>1. StepsLeft(t) \in Nat
    BY <1>1
  <2>2. TestThread(t) => StepsLeft(t)' < StepsLeft(t) /\ StepsLeft(t)' <= StepsLeft(t) /\ Live(t)
    <3>1. TestThread(t) => Live(t)
      BY DEF TestThread, AllNext, AllDone, Refuse, get_test_queue, create_rule,
         create_rule_fails, RuleFailed, build_nfqws2_args, start_nfqws2, start_nfqws2_fails,
         wait_for_nfqws2_ready, send_https_test_raw, stop_nfqws2, delete_rule,
         delete_rule_fails, SetResult, At, Live
    <3> QED
      BY <3>1, OwnSteps
  <2>3. ASSUME ~TestThread(t)
        PROVE  /\ Live(t) => StepsLeft(t)' <= StepsLeft(t)
               /\ ~Live(t) /\ Live(t)'
                    => StepsLeft(t)' = IF isAll'[t] THEN 12 * N + 1 ELSE 11
    <3>1. CASE Quit \/ Killed
      <4>1. ~Live(t)'
        BY <3>1 DEF Quit, Killed, EndProcess, Live
      <4>2. StepsLeft(t)' = 0
        BY <4>1 DEF StepsLeft
      <4> QED
        BY <2>1, <4>1, <4>2
    <3>2. ASSUME StepsLeft(t)' = StepsLeft(t), Live(t)' <=> Live(t)
          PROVE  /\ Live(t) => StepsLeft(t)' <= StepsLeft(t)
                 /\ ~Live(t) /\ Live(t)'
                      => StepsLeft(t)' = IF isAll'[t] THEN 12 * N + 1 ELSE 11
      BY <2>1, <3>2
    <3>3. CASE Restart \/ Over \/ OrphanDies
      BY <3>2, <3>3, SameSteps DEF Restart, Over, OrphanDies, vars, threadVars
    <3>4. CASE UiThread
      <4>1. CASE OneSpawn \/ AllSpawn
        <5>1. PICK u \in Threads : Spawn(u)
          BY <4>1 DEF OneSpawn, AllSpawn
        <5> QED
          BY <5>1, <3>2, SpawnSteps
      <4>2. CASE ~(OneSpawn \/ AllSpawn)
        <5>1. UNCHANGED threadVars
          BY <3>4, <4>2 DEF UiThread, Poll, NoKey, MoveCursor, KeyService, KeyTestOne, KeyTestAll,
             KeyTest, OneCheck, OneMark, OneSpawnFails, AllMark, AllSpawnFails
        <5> QED
          BY <3>2, <5>1, SameSteps DEF threadVars
      <4> QED
        BY <4>1, <4>2
    <3>5. ASSUME NEW u \in Threads, TestThread(u)
          PROVE  StepsLeft(t)' = StepsLeft(t) /\ (Live(t)' <=> Live(t))
      BY <2>3, <3>5, OthersSteps
    <3>6. ASSUME NEW u \in Threads, ChildBinds(u) \/ ChildDies(u)
          PROVE  StepsLeft(t)' = StepsLeft(t) /\ (Live(t)' <=> Live(t))
      <4>1. loc'[t].tries = loc[t].tries
        BY <3>6 DEF ChildBinds, ChildDies, threadVars, TypeOK, Locals
      <4> QED
        BY <3>6, <4>1, SameSteps DEF ChildBinds, ChildDies, threadVars
    <3> QED
      BY <3>1, <3>2, <3>3, <3>4, <3>5, <3>6 DEF Next, Background
  <2> QED
    BY <2>2, <2>3
<1> QED
  BY <1>1, <1>2, TypeCorrect, SweepInvariant, PTL DEF Spec, StepsRunOut
=============================================================================
