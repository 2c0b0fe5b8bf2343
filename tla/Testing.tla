------------------------------- MODULE Testing -------------------------------
(***************************************************************************)
(* Profile testing: the UI thread that starts tests from the T and A keys, *)
(* the detached threads that run them, and what they share: the result     *)
(* table under testing_mutex, the static argument buffer of                *)
(* build_nfqws2_args, the packet-filter rules of NFQUEUE 2001, the         *)
(* nfqws2 process bound to that queue, and the zapret2 service.            *)
(*                                                                         *)
(* Every access to testing_results and testing_all_running is made under   *)
(* testing_mutex, so a critical section is one step and the mutex is not a *)
(* variable.  Everything between two critical sections, or two calls that  *)
(* reach the operating system, is interleaved.                             *)
(***************************************************************************)
EXTENDS Integers, FiniteSets, Verdict

CONSTANTS
  N,            \* menu_count: the profiles of profiles.conf
  Threads,      \* the threads that can be alive at once; when all are taken
                \* pthread_create fails
  Confs,        \* the set-ups a session can start with
  Faults,       \* which calls to the operating system can fail
  Chatter,      \* what else nfqws2 may print: a desync, an error
  MaxSessions,  \* bound: how often the program is started
  MaxStale      \* bound: rules above which a deletion no longer fails

Profiles   == 0 .. N-1
NoProfile  == -1
Backends   == {"iptables", "nftables"}
FaultKinds == {"pthread_create", "create_rule", "nfqws2_missing", "fork", "delete_rule"}

\* root: geteuid() = 0.  domain: domain_test is not empty.  tables: the string
\* in profiles.conf, "other" for one the program does not know.
ConfType == [root : BOOLEAN, domain : BOOLEAN, tables : Backends \cup {"", "other"}]

ASSUME ConstantsOK ==
  /\ N \in Nat \ {0}
  /\ IsFiniteSet(Threads)
  /\ Confs \subseteq ConfType
  /\ Faults \subseteq FaultKinds
  /\ Chatter \subseteq {"lua_func", "error"}
  /\ MaxSessions \in Nat
  /\ MaxStale \in Nat

VARIABLES
  running,              \* the program is up
  sessions,             \* how often it was started
  conf,                 \* what this session read
  ui,                   \* where the UI thread is in core_update
  menu_index,           \* the selected profile
  testing_results,
  testing_all_running,
  pc,                   \* where each test thread is, "free" when it does not exist
  prof,                 \* the profile it tests, the loop counter of a sweep
  isAll,                \* it runs testing_all_profiles
  loc,                  \* the locals of its testing_profiles call
  nfqws2_args,          \* whose strategy the static argument buffer holds
  child,                \* the nfqws2 process of the thread
  orphan,               \* an nfqws2 of an earlier session still reads queue 2001
  rules,                \* NFQUEUE rules installed, per backend
  zapret2_active        \* zapret2.service

uiVars     == <<ui, menu_index>>
sharedVars == <<testing_results, testing_all_running>>
threadVars == <<pc, prof, isAll, loc>>
osVars     == <<child, orphan, rules>>
procVars   == <<running, sessions, conf>>
vars       == <<procVars, uiVars, sharedVars, threadVars, nfqws2_args, osVars, zapret2_active>>

FreshLocals == [strategy |-> NoProfile, log |-> {}, binding |-> FALSE,
                http |-> FALSE, final |-> "ERROR", tries |-> 0]

Locals == [strategy : Profiles \cup {NoProfile}, log : SUBSET Markers, binding : BOOLEAN,
           http : BOOLEAN, final : Results, tries : 0 .. 2]

UiLabels     == {"poll", "one_check", "one_mark", "one_spawn", "all_check", "all_spawn"}
HolderLabels == {"build_args", "start_nfqws2", "wait_ready", "http_test", "stop_nfqws2",
                 "delete_rule"}
CallLabels   == {"testing_profiles", "create_rule", "rule_failed",
                 "set_result"} \cup HolderLabels
ThreadLabels == {"free", "all_next"} \cup CallLabels

InTest(t)  == pc[t] \in CallLabels
Holders    == {t \in Threads : pc[t] \in HolderLabels}
FreeSlots  == {t \in Threads : pc[t] = "free"}

-----------------------------------------------------------------------------
Init ==
  /\ running = TRUE
  /\ sessions = 1
  /\ conf \in Confs
  /\ ui = "poll"
  /\ menu_index = 0
  /\ testing_results = [i \in Profiles |-> "NOT_TESTED"]
  /\ testing_all_running = FALSE
  /\ pc = [t \in Threads |-> "free"]
  /\ prof = [t \in Threads |-> NoProfile]
  /\ isAll = [t \in Threads |-> FALSE]
  /\ loc = [t \in Threads |-> FreshLocals]
  /\ nfqws2_args = NoProfile
  /\ child = [t \in Threads |-> "none"]
  /\ orphan = FALSE
  /\ rules = [b \in Backends |-> 0]
  /\ zapret2_active \in BOOLEAN

\* The process ends, by INPUT_QUIT or by a signal: its threads are gone in the
\* middle of whatever they did, rules and nfqws2 processes stay behind.
EndProcess ==
  /\ running
  /\ running' = FALSE
  /\ ui' = "poll"
  /\ pc' = [t \in Threads |-> "free"]
  /\ prof' = [t \in Threads |-> NoProfile]
  /\ isAll' = [t \in Threads |-> FALSE]
  /\ loc' = [t \in Threads |-> FreshLocals]
  /\ child' = [t \in Threads |-> "none"]
  /\ orphan' = (orphan \/ \E t \in Threads : child[t] \in {"booting", "bound"})
  /\ UNCHANGED <<sessions, conf, menu_index, sharedVars,
                 nfqws2_args, rules, zapret2_active>>

Quit   == ui = "poll" /\ EndProcess
Killed == EndProcess

\* The next start of the program, with core_init.
Restart ==
  /\ ~running
  /\ sessions < MaxSessions
  /\ running' = TRUE
  /\ sessions' = sessions + 1
  /\ conf' \in Confs
  /\ menu_index' = 0
  /\ testing_results' = [i \in Profiles |-> "NOT_TESTED"]
  /\ testing_all_running' = FALSE
  /\ nfqws2_args' = NoProfile
  /\ UNCHANGED <<ui, threadVars, osVars, zapret2_active>>

\* The last session is over.
Over ==
  /\ ~running
  /\ sessions = MaxSessions
  /\ UNCHANGED vars

-----------------------------------------------------------------------------
(* The UI thread: one pass of app_run is input_poll and core_update.  Its  *)
(* copy of the results is in Screen; the error window and what the other   *)
(* keys do are not part of this component.                                 *)

AtUi(l) == running /\ ui = l

\* Mutants: the scan of the results, or the flag, alone.
NoFlag == \E i \in Profiles : testing_results[i] = "RUNNING"
NoScan == testing_all_running

testing_is_running_locked ==
  testing_all_running \/ \E i \in Profiles : testing_results[i] = "RUNNING"

\* getch() timed out, or a key that changes nothing of this component.
NoKey ==
  /\ AtUi("poll")
  /\ UNCHANGED <<procVars, ui, menu_index, sharedVars, threadVars,
                 nfqws2_args, osVars, zapret2_active>>

\* Mutant: the modulo is forgotten.
NoWrap ==
  /\ AtUi("poll")
  /\ menu_index' \in {menu_index - 1, menu_index + 1}
  /\ UNCHANGED <<procVars, ui, sharedVars, threadVars, nfqws2_args, osVars, zapret2_active>>

MoveCursor ==
  /\ AtUi("poll")
  /\ menu_index' \in {(menu_index - 1 + N) % N, (menu_index + 1) % N}
  /\ UNCHANGED <<procVars, ui, sharedVars, threadVars, nfqws2_args, osVars, zapret2_active>>

\* The S, X and R keys: zapret2_ctl refuses without root, systemctl may fail.
KeyService ==
  /\ AtUi("poll")
  /\ IF conf.root THEN zapret2_active' \in BOOLEAN ELSE UNCHANGED zapret2_active
  /\ UNCHANGED <<procVars, ui, menu_index, sharedVars, threadVars, nfqws2_args, osVars>>

\* T and A are refused while zapret2 is active.
KeyTest(next) ==
  /\ AtUi("poll")
  /\ ui' = IF zapret2_active THEN "poll" ELSE next
  /\ UNCHANGED <<procVars, menu_index, sharedVars, threadVars, nfqws2_args, osVars,
                 zapret2_active>>

KeyTestOne == KeyTest("one_check")
KeyTestAll == KeyTest("all_check")

\* can_start is computed in one critical section and used after it.
OneCheck ==
  /\ AtUi("one_check")
  /\ ui' = IF testing_is_running_locked THEN "poll" ELSE "one_mark"
  /\ UNCHANGED <<procVars, menu_index, sharedVars, threadVars,
                 nfqws2_args, osVars, zapret2_active>>

\* Mutant: only the UI thread's copy is marked.
MarkNotShared ==
  /\ AtUi("one_mark")
  /\ ui' = "one_spawn"
  /\ UNCHANGED <<procVars, menu_index, sharedVars, threadVars, nfqws2_args, osVars,
                 zapret2_active>>

OneMark ==
  /\ AtUi("one_mark")
  /\ ui' = "one_spawn"
  /\ testing_results' = [testing_results EXCEPT ![menu_index] = "RUNNING"]
  /\ UNCHANGED <<procVars, menu_index, testing_all_running, threadVars,
                 nfqws2_args, osVars, zapret2_active>>

AllMark ==
  /\ AtUi("all_check")
  /\ IF testing_is_running_locked
     THEN ui' = "poll" /\ UNCHANGED sharedVars
     ELSE /\ ui' = "all_spawn"
          /\ testing_all_running' = TRUE
          /\ testing_results' = [i \in Profiles |-> "RUNNING"]
  /\ UNCHANGED <<procVars, menu_index, threadVars, nfqws2_args, osVars,
                 zapret2_active>>

\* pthread_create: a thread of testing_profiles for the selected profile, or of
\* testing_all_profiles before its first iteration.
Spawn(t) ==
  /\ t \in FreeSlots
  /\ ui' = "poll"
  /\ isAll' = [isAll EXCEPT ![t] = (ui = "all_spawn")]
  /\ prof' = [prof EXCEPT ![t] = IF ui = "all_spawn" THEN NoProfile ELSE menu_index]
  /\ pc' = [pc EXCEPT ![t] = IF ui = "all_spawn" THEN "all_next" ELSE "testing_profiles"]
  /\ UNCHANGED <<procVars, menu_index, sharedVars, loc, nfqws2_args,
                 osVars, zapret2_active>>

OneSpawn == AtUi("one_spawn") /\ \E t \in Threads : Spawn(t)
AllSpawn == AtUi("all_spawn") /\ \E t \in Threads : Spawn(t)

CreateFails == "pthread_create" \in Faults \/ FreeSlots = {}

\* Mutants: a thread that cannot be created leaves the marks behind, or the flag.
OneStaysMarked ==
  /\ AtUi("one_spawn")
  /\ CreateFails
  /\ ui' = "poll"
  /\ UNCHANGED <<procVars, menu_index, sharedVars, threadVars, nfqws2_args, osVars,
                 zapret2_active>>

FlagStaysSet ==
  /\ AtUi("all_spawn")
  /\ CreateFails
  /\ ui' = "poll"
  /\ testing_results' = [i \in Profiles |-> "ERROR"]
  /\ UNCHANGED <<procVars, menu_index, testing_all_running, threadVars, nfqws2_args, osVars,
                 zapret2_active>>

OneSpawnFails ==
  /\ AtUi("one_spawn")
  /\ CreateFails
  /\ ui' = "poll"
  /\ testing_results' = [testing_results EXCEPT ![menu_index] = "ERROR"]
  /\ UNCHANGED <<procVars, menu_index, testing_all_running, threadVars, nfqws2_args,
                 osVars, zapret2_active>>

AllSpawnFails ==
  /\ AtUi("all_spawn")
  /\ CreateFails
  /\ ui' = "poll"
  /\ testing_all_running' = FALSE
  /\ testing_results' = [i \in Profiles |-> "ERROR"]
  /\ UNCHANGED <<procVars, menu_index, threadVars, nfqws2_args, osVars, zapret2_active>>

Poll == NoKey \/ MoveCursor \/ KeyService \/ KeyTestOne \/ KeyTestAll

UiThread ==
  \/ Poll
  \/ OneCheck \/ OneMark \/ OneSpawn \/ OneSpawnFails
  \/ AllMark \/ AllSpawn \/ AllSpawnFails

-----------------------------------------------------------------------------
(* A test thread: testing_profiles, alone or called by the loop of         *)
(* testing_all_profiles.                                                   *)

At(t, l)   == running /\ pc[t] = l
Goto(t, l) == pc' = [pc EXCEPT ![t] = l]

testing_profile_set_result(t, result) ==
  testing_results' = [testing_results EXCEPT ![prof[t]] = result]

\* testing_profiles returns: to the loop of the sweep, or the thread is over.
Return(t) ==
  /\ Goto(t, IF isAll[t] THEN "all_next" ELSE "free")
  /\ prof' = [prof EXCEPT ![t] = IF isAll[t] THEN @ ELSE NoProfile]
  /\ loc' = [loc EXCEPT ![t] = FreshLocals]

\* An iteration of testing_all_profiles.
AllNext(t) ==
  /\ At(t, "all_next")
  /\ prof[t] + 1 < N
  /\ prof' = [prof EXCEPT ![t] = prof[t] + 1]
  /\ testing_results' = [testing_results EXCEPT ![prof[t] + 1] = "RUNNING"]
  /\ Goto(t, "testing_profiles")
  /\ UNCHANGED <<procVars, uiVars, testing_all_running, isAll, loc, nfqws2_args, osVars,
                 zapret2_active>>

\* Mutant: the loop ends one profile early.
DoneEarly(t) ==
  /\ At(t, "all_next")
  /\ ~(prof[t] + 2 < N)
  /\ testing_all_running' = FALSE
  /\ Goto(t, "free")
  /\ prof' = [prof EXCEPT ![t] = NoProfile]
  /\ isAll' = [isAll EXCEPT ![t] = FALSE]
  /\ UNCHANGED <<procVars, uiVars, testing_results, loc, nfqws2_args, osVars, zapret2_active>>

AllDone(t) ==
  /\ At(t, "all_next")
  /\ ~(prof[t] + 1 < N)
  /\ testing_all_running' = FALSE
  /\ Goto(t, "free")
  /\ prof' = [prof EXCEPT ![t] = NoProfile]
  /\ isAll' = [isAll EXCEPT ![t] = FALSE]
  /\ UNCHANGED <<procVars, uiVars, testing_results, loc, nfqws2_args, osVars, zapret2_active>>

\* A set-up testing_profiles refuses.
Refused == ~conf.root \/ ~conf.domain \/ conf.tables = ""

Refuse(t) ==
  /\ At(t, "testing_profiles")
  /\ Refused
  /\ testing_profile_set_result(t, "ERROR")
  /\ Return(t)
  /\ UNCHANGED <<procVars, uiVars, testing_all_running, isAll, nfqws2_args, osVars,
                 zapret2_active>>

\* Neither cleaning command removes a rule.  "iptables -S OUTPUT | grep | sed
\* 's/-A/-D/' | sh" hands sh lines that begin with -D, which is no command; the
\* nft one names a rule without its handle, and without "meta mark 99".
get_test_queue(t) ==
  /\ At(t, "testing_profiles")
  /\ ~Refused
  /\ Goto(t, "create_rule")
  /\ UNCHANGED <<procVars, uiVars, sharedVars, prof, isAll, loc, nfqws2_args, osVars,
                 zapret2_active>>

create_rule(t) ==
  /\ At(t, "create_rule")
  /\ conf.tables \in Backends
  /\ rules' = [rules EXCEPT ![conf.tables] = @ + 1]
  /\ Goto(t, "build_args")
  /\ UNCHANGED <<procVars, uiVars, sharedVars, prof, isAll, loc, nfqws2_args, child, orphan,
                 zapret2_active>>

\* create_rule publishes ERROR itself, and so does its caller after the return.
RuleMayFail == "create_rule" \in Faults \/ conf.tables \notin Backends

create_rule_fails(t) ==
  /\ At(t, "create_rule")
  /\ RuleMayFail
  /\ testing_profile_set_result(t, "ERROR")
  /\ Goto(t, "rule_failed")
  /\ UNCHANGED <<procVars, uiVars, testing_all_running, prof, isAll, loc, nfqws2_args, osVars,
                 zapret2_active>>

RuleFailed(t) ==
  /\ At(t, "rule_failed")
  /\ testing_profile_set_result(t, "ERROR")
  /\ Return(t)
  /\ UNCHANGED <<procVars, uiVars, testing_all_running, isAll, nfqws2_args, osVars,
                 zapret2_active>>

\* The argument buffer is static: it holds what the last caller wrote.
build_nfqws2_args(t) ==
  /\ At(t, "build_args")
  /\ nfqws2_args' = prof[t]
  /\ \/ Goto(t, "start_nfqws2")
     \/ "nfqws2_missing" \in Faults /\ Goto(t, "delete_rule")
  /\ UNCHANGED <<procVars, uiVars, sharedVars, prof, isAll, loc, osVars, zapret2_active>>

start_nfqws2(t) ==
  /\ At(t, "start_nfqws2")
  /\ loc' = [loc EXCEPT ![t].strategy = nfqws2_args]
  /\ child' = [child EXCEPT ![t] = "booting"]
  /\ Goto(t, "wait_ready")
  /\ UNCHANGED <<procVars, uiVars, sharedVars, prof, isAll, nfqws2_args, orphan, rules,
                 zapret2_active>>

\* Mutant: return where the code has goto cleanup.
NoCleanup(t) ==
  /\ At(t, "start_nfqws2")
  /\ "fork" \in Faults
  /\ Goto(t, "set_result")
  /\ UNCHANGED <<procVars, uiVars, sharedVars, prof, isAll, loc, nfqws2_args, osVars,
                 zapret2_active>>

start_nfqws2_fails(t) ==
  /\ At(t, "start_nfqws2")
  /\ "fork" \in Faults
  /\ Goto(t, "delete_rule")
  /\ UNCHANGED <<procVars, uiVars, sharedVars, prof, isAll, loc, nfqws2_args, osVars,
                 zapret2_active>>

\* Mutant: the wait confirms when the time is over.
ConfirmsAnyway(t) ==
  /\ At(t, "wait_ready")
  /\ \E dropped \in SUBSET (loc[t].log \cap {"bind"}) :
       loc' = [loc EXCEPT ![t] = [loc[t] EXCEPT !.binding = TRUE, !.log = loc[t].log \ dropped]]
  /\ Goto(t, "http_test")
  /\ UNCHANGED <<procVars, uiVars, sharedVars, prof, isAll, nfqws2_args, osVars,
                 zapret2_active>>

\* The binding message is read, and dropped, or the wait ends without it.  It is
\* dropped unseen when it straddles the end of the buffer.
wait_for_nfqws2_ready(t) ==
  /\ At(t, "wait_ready")
  /\ \E confirmed \in BOOLEAN, dropped \in SUBSET (loc[t].log \cap {"bind"}) :
       /\ confirmed => dropped # {}
       /\ loc' = [loc EXCEPT ![t] = [loc[t] EXCEPT !.binding = confirmed,
                                                    !.log = loc[t].log \ dropped]]
  /\ Goto(t, "http_test")
  /\ UNCHANGED <<procVars, uiVars, sharedVars, prof, isAll, nfqws2_args, osVars,
                 zapret2_active>>

\* The request carries mark 99, so a rule sends it to queue 2001: to the nfqws2
\* bound there, which logs it and may alter it, to an orphan, or to nobody.
PassesUnseen == orphan \/ \A b \in Backends : rules[b] = 0

send_https_test_raw(t) ==
  /\ At(t, "http_test")
  /\ \/ loc' = [loc EXCEPT ![t].http = FALSE]
     \/ \E u \in Threads, ok \in BOOLEAN, desync \in SUBSET (Chatter \cap {"lua_func"}) :
          /\ child[u] = "bound"
          /\ loc' = [loc EXCEPT ![u].log = @ \cup {"packet"} \cup desync, ![t].http = ok]
     \/ PassesUnseen /\ loc' = [loc EXCEPT ![t].http = TRUE]
  /\ Goto(t, "stop_nfqws2")
  /\ UNCHANGED <<procVars, uiVars, sharedVars, prof, isAll, nfqws2_args, osVars,
                 zapret2_active>>

\* SIGTERM, drain, reap, judge.  The drain may miss the tail of the output and
\* nfqws2 may have complained; of the exit codes one is expected, one is not.  The
\* locals that are read no more are dropped.
stop_nfqws2(t) ==
  /\ At(t, "stop_nfqws2")
  /\ \E code \in {0, 128 + SIGKILL}, logs \in SUBSET (loc[t].log \cup (Chatter \cap {"error"})) :
       loc' = [loc EXCEPT ![t] = [FreshLocals EXCEPT
                 !.strategy = loc[t].strategy,
                 !.log = loc[t].log \cap {"packet"},
                 !.final = JudgeRun(loc[t].http, code, logs, loc[t].binding)]]
  /\ child' = [child EXCEPT ![t] = "none"]
  /\ Goto(t, "delete_rule")
  /\ UNCHANGED <<procVars, uiVars, sharedVars, prof, isAll, nfqws2_args, orphan, rules,
                 zapret2_active>>

\* The two back ends differ: iptables -D takes a rule by its text, while nft takes it by
\* its handle only, and del_nft_nfqueue_rule names the text.
Deletable == conf.tables = "iptables" /\ rules["iptables"] > 0

\* Mutant: all rules of the queue are deleted.
Flush(t) ==
  /\ At(t, "delete_rule")
  /\ Deletable
  /\ rules' = [rules EXCEPT ![conf.tables] = 0]
  /\ Goto(t, "set_result")
  /\ UNCHANGED <<procVars, uiVars, sharedVars, prof, isAll, loc, nfqws2_args, child, orphan,
                 zapret2_active>>

\* delete_rule_with_retry: rules are all alike, -D removes any one of them.
delete_rule(t) ==
  /\ At(t, "delete_rule")
  /\ Deletable
  /\ rules' = [rules EXCEPT ![conf.tables] = @ - 1]
  /\ Goto(t, "set_result")
  /\ UNCHANGED <<procVars, uiVars, sharedVars, prof, isAll, loc, nfqws2_args, child, orphan,
                 zapret2_active>>

DeletionMayFail ==
  \/ ~Deletable
  \/ "delete_rule" \in Faults /\ rules[conf.tables] <= MaxStale

delete_rule_fails(t) ==
  /\ At(t, "delete_rule")
  /\ DeletionMayFail
  /\ IF loc[t].tries < 2
     THEN loc' = [loc EXCEPT ![t].tries = @ + 1] /\ UNCHANGED pc
     ELSE loc' = [loc EXCEPT ![t].final = "ERROR"] /\ Goto(t, "set_result")
  /\ UNCHANGED <<procVars, uiVars, sharedVars, prof, isAll, nfqws2_args, osVars,
                 zapret2_active>>

SetResult(t) ==
  /\ At(t, "set_result")
  /\ testing_profile_set_result(t, loc[t].final)
  /\ Return(t)
  /\ UNCHANGED <<procVars, uiVars, testing_all_running, isAll, nfqws2_args, osVars,
                 zapret2_active>>

TestThread(t) ==
  \/ AllNext(t) \/ AllDone(t) \/ Refuse(t) \/ get_test_queue(t)
  \/ create_rule(t) \/ create_rule_fails(t) \/ RuleFailed(t)
  \/ build_nfqws2_args(t) \/ start_nfqws2(t) \/ start_nfqws2_fails(t)
  \/ wait_for_nfqws2_ready(t) \/ send_https_test_raw(t) \/ stop_nfqws2(t)
  \/ delete_rule(t) \/ delete_rule_fails(t) \/ SetResult(t)

-----------------------------------------------------------------------------
(* nfqws2 itself.  One process at a time can bind queue 2001.              *)

QueueFree == ~orphan /\ \A u \in Threads : child[u] # "bound"

ChildBinds(t) ==
  /\ child[t] = "booting"
  /\ QueueFree
  /\ child' = [child EXCEPT ![t] = "bound"]
  /\ loc' = [loc EXCEPT ![t].log = @ \cup {"bind"}]
  /\ UNCHANGED <<procVars, uiVars, sharedVars, pc, prof, isAll, nfqws2_args, orphan, rules,
                 zapret2_active>>

\* It exits by itself: a strategy it rejects, a queue it cannot bind, a crash.
ChildDies(t) ==
  /\ child[t] \in {"booting", "bound"}
  /\ child' = [child EXCEPT ![t] = "dead"]
  /\ UNCHANGED <<procVars, uiVars, sharedVars, threadVars, nfqws2_args, orphan, rules,
                 zapret2_active>>

OrphanDies ==
  /\ orphan
  /\ orphan' = FALSE
  /\ UNCHANGED <<procVars, uiVars, sharedVars, threadVars, nfqws2_args, child, rules,
                 zapret2_active>>

-----------------------------------------------------------------------------
\* What goes on beside the UI thread.
Background ==
  \/ \E t \in Threads : TestThread(t) \/ ChildBinds(t) \/ ChildDies(t)
  \/ OrphanDies

Next == Quit \/ Killed \/ Restart \/ Over \/ UiThread \/ Background

Spec == Init /\ [][Next]_vars

\* The UI thread polls every 50 ms; every wait of a test thread has a timeout.
Fairness == WF_vars(UiThread) /\ \A t \in Threads : WF_vars(TestThread(t))

FairSpec == Spec /\ Fairness

-----------------------------------------------------------------------------
(* Properties that hold whatever fails.                                    *)

\* Type invariant: what the variables of the UI thread, of the test threads and
\* of the operating system range over.
TypeOK ==
  /\ running \in BOOLEAN
  /\ sessions \in Nat
  /\ conf \in Confs
  /\ ui \in UiLabels
  /\ menu_index \in Profiles
  /\ testing_results \in [Profiles -> Results]
  /\ testing_all_running \in BOOLEAN
  /\ pc \in [Threads -> ThreadLabels]
  /\ prof \in [Threads -> Profiles \cup {NoProfile}]
  /\ isAll \in [Threads -> BOOLEAN]
  /\ loc \in [Threads -> Locals]
  /\ nfqws2_args \in Profiles \cup {NoProfile}
  /\ child \in [Threads -> {"none", "booting", "bound", "dead"}]
  /\ orphan \in BOOLEAN
  /\ rules \in [Backends -> Nat]
  /\ zapret2_active \in BOOLEAN

Live(t)  == pc[t] # "free"
Sweep(t) == Live(t) /\ isAll[t]

\* There is one sweep at most, and while it lives testing_all_running keeps every
\* other test from starting: the flag is neither cleared early nor by another.
OneSweep ==
  \A t \in Threads : Sweep(t) =>
    testing_all_running /\ \A u \in Threads : Sweep(u) => u = t

\* Whoever the status RUNNING of a profile was set for is still there to replace
\* it: the UI thread about to create a thread, a test of this profile, or a sweep
\* that has yet to come to it.
NoDanglingRunning ==
  \A i \in Profiles : running /\ testing_results[i] = "RUNNING" =>
    \/ ui = "one_spawn" /\ menu_index = i
    \/ ui = "all_spawn"
    \/ \E t \in Threads : \/ InTest(t) /\ prof[t] = i
                          \/ Sweep(t) /\ prof[t] < i

\* Every test between create_rule and delete_rule has a rule, also when several
\* tests and the leftovers of earlier sessions share one and the same rule text:
\* no test takes away the rule of another.
RulesCovered ==
  conf.tables \in Backends => Cardinality(Holders) <= rules[conf.tables]

\* A test takes its rule back on each of its exits, so that in the first session
\* only tests in progress have one.  For iptables, and runs in which -D never fails.
NoLeakedRule ==
  sessions = 1 /\ running /\ conf.tables = "iptables" =>
    rules["iptables"] = Cardinality(Holders)

-----------------------------------------------------------------------------
(* Properties that need create_rule to succeed: it publishes ERROR itself, *)
(* and its caller does so once more when another test may have begun.      *)

RuleCreationWorks ==
  /\ "create_rule" \notin Faults
  /\ \A c \in Confs : c.tables \in Backends \cup {""}

\* can_start: there is never a second test thread, of either kind.
TestsExclusive ==
  \A t, u \in Threads : Live(t) /\ Live(u) => t = u

\* "(T) TESTING, test in progress": the profile a test works on has this status
\* until the test gives it another (create_rule does so one step early).
StatusShowsTest ==
  \A t \in Threads : InTest(t) /\ pc[t] # "rule_failed" =>
    testing_results[prof[t]] = "RUNNING"

\* nfqws2 runs with the strategy of the profile under test, though the argument
\* buffer is one static array for all threads.
OwnStrategy ==
  \A t \in Threads : child[t] # "none" => loc[t].strategy = prof[t]

\* SUCCESS and PARTIAL are published of a strategy only when the nfqws2 that ran
\* it saw the request of the test, whichever rule or process of an earlier session
\* was around.
VerdictEarned ==
  \A t \in Threads : pc[t] = "set_result" /\ loc[t].final \in {"SUCCESS", "PARTIAL"} =>
    loc[t].strategy = prof[t] /\ "packet" \in loc[t].log

\* Each thread has its run of nfqws2 in the steps of NfqwsContract, which NfqwsRun is
\* shown to keep to.  The run is over when it is judged and its rule is still there.
RunStage(t) ==
  CASE pc[t] = "wait_ready"  -> "wait"
    [] pc[t] = "http_test"   -> "http"
    [] pc[t] = "stop_nfqws2" -> "stop"
    [] pc[t] = "delete_rule" /\ loc[t].strategy # NoProfile -> "over"
    [] OTHER -> "none"

InRun(t) == RunStage(t) # "none"

Run(t) == INSTANCE NfqwsContract WITH
            stage   <- RunStage(t),
            log     <- IF InRun(t) THEN loc[t].log ELSE {},
            binding <- InRun(t) /\ loc[t].binding,
            http    <- InRun(t) /\ loc[t].http,
            verdict <- loc[t].final

RunsKeepContract ==
  /\ \A t \in Threads : Run(t)!Init
  /\ [][\A t \in Threads : Run(t)!Next \/ UNCHANGED Run(t)!vars]_vars

\* The result table and testing_all_running, which UI thread and test threads
\* write in separate critical sections, behave like TestLifecycle.
mode ==
  IF testing_all_running THEN "all"
  ELSE IF \E i \in Profiles : testing_results[i] = "RUNNING" THEN "one" ELSE "idle"

Abstract == INSTANCE TestLifecycle WITH status <- testing_results

Lifecycle == Abstract!Spec

-----------------------------------------------------------------------------
(* What the repository says of testing, and the code does not do.          *)

\* get_test_queue, testing_profiles.c:835: "Clean any stale iptables rules on
\* queue 2001", and :845 "stale rules cleaned".
StaleRulesCleaned ==
  \A t \in Threads : pc[t] = "create_rule" /\ conf.tables = "iptables" =>
    rules["iptables"] = 0

\* set_testing_requires_stopped_error, ui/core.c:57: "Testing requires zapret2 to
\* be stopped."
TestingRequiresStopped == (\E t \in Threads : InTest(t)) => ~zapret2_active

\* README.md:53, "an iptables/nftables rule", and :181, "SUCCESS: Strategy applied,
\* site accessible": the verdict of a run is the verdict of its test.  With nftables
\* every test ends in the three failed deletions, and as an ERROR.
VerdictStands ==
  [][\A t \in Threads : pc[t] = "delete_rule" /\ pc'[t] = "set_result" =>
       loc'[t].final = loc[t].final]_vars

-----------------------------------------------------------------------------
(* Liveness, under FairSpec.                                               *)

\* A started test, alone or in a sweep, ends with a verdict.
TestSettles ==
  \A i \in Profiles :
    testing_results[i] = "RUNNING" ~> ~running \/ testing_results[i] # "RUNNING"

\* A sweep ends, and with it the ban on new tests.
SweepEnds == testing_all_running ~> ~running \/ ~testing_all_running
=============================================================================
