# Verification of zapret2-tui

zapret2-tui is a terminal front end for zapret2. It keeps a list of profiles, each of them a
strategy for nfqws2 and a generated zapret2 config. It applies a profile by copying its config
over the one of zapret2, starts and stops the service, and tests profiles: it puts a packet-filter
rule in place, runs nfqws2 with the strategy, sends an HTTPS request through the queue and judges
what it saw. This directory holds TLA+ models of the program, the TLC runs that check them and
the theorems TLAPS proves of them.

## The system

| Part | Source | State | Operations | Hard behaviour |
|---|---|---|---|---|
| Starting tests | `ui/core.c` | `testing_results`, `testing_all_running`, `testing_jobs`, guarded by `testing_mutex` | T and A keys: check, mark, `pthread_create` | the check is used after the unlock; threads cannot be created |
| Test threads | `core/testing_profiles.c`, `testing_all_profiles` in `ui/core.c` | the locals of `testing_profiles`; a static argument buffer | rule, nfqws2, request, verdict, clean-up | detached threads; the process may end anywhere; every call may fail |
| One nfqws2 run | `core/testing_profiles.c` | pipe, wait buffer, log buffer, signals, exit code | fork, wait for binding, drain, SIGTERM, SIGKILL, reap | output races with exit; bounded buffers; nobody reads during the request |
| Verdict | `core/testing_profiles.c` | none | `analyze_test`, `testing_profile_verdict`, `testing_profile_summary` | lost output; two chains of conditions that must agree |
| Packet-filter rules | `core/testing_profiles.c` | rules of NFQUEUE 2001 in the kernel | add, delete with three tries, clean | all rules have one text; leftovers of earlier sessions |
| HTTPS request | `core/testing_profiles.c` | socket, its flags, address, TLS context | resolve, connect, handshake, write, one read, each with a timeout | the site may refuse, cut its answer up, fall silent, close or reset at any point; thirteen exits |
| Menu copy | `ui/core.c`, `ui/app.c` | `state->testing_profiles`, `menu_index` | `refresh_testing_profiles`, direct writes of the keys | a copy without the mutex |
| Service control | `ui/core.c`, `ui/app.c`, `ui/ui.c` | zapret2.service; `is_reload` and its timer, `service_error` | S, X, R; the code of the header | the service changes under a test, and by itself; commands fail or are killed |
| Applying a profile | `ui/core.c`, `core/create_link.c`, `utils/utils.c` | zapret2's `config`, `config.save`, `view_profile` in memory and on disk | Enter | several files, one step after the other, any may fail |
| Settings | `utils/readconf.c`, `utils/writeconf.c` | `config/config`, `profiles.conf` | read, parse-modify-print | truncate then print |
| Template | `core/read_zapret_conf.c`, `core/create_zapret_configs.c` | `config/zapret_config/config_<i>` | cut out `NFQWS2_OPT`, write one file per profile | 256 lines; quoting; half-written set |
| Startup | `main.c`, `core/first_start.c` | all of the above | wizard, checks, reset of `view_profile` | ended between two writes |
| Logs | `utils/log.c` | two files, `log_mutex` | open, write, close | one of the files is not under the mutex |
| Drawing, input | `ui/ui.c`, `ui/input.c` | none of its own | draw, `getch` with 50 ms | none: output only |

The UI thread is the loop of `app_run`: a key, `core_update`, `ui_draw`. The T and A keys create
detached threads, and from then on UI thread and test thread meet in the result table (under
`testing_mutex`) and in nothing else they know of. What they meet in without knowing is what makes
the code hard: the static array in `build_nfqws2_args`, the rules and queue 2001, which are
shared with the tests of other threads and of earlier sessions, and the service.

What makes each part correct:

- *Tests*: one test or one sweep at a time; the menu shows a running test as running; a test ends
  with one verdict; a sweep settles the profiles in order and leaves none; a thread that cannot be
  created leaves nothing behind; the strategy that runs is the one of the profile.
- *Rules*: a test takes back its rule on each exit and never the rule of another.
- *Verdict*: anything but ERROR is about the strategy, so nfqws2 must have had the request; ERROR
  does not come from the way output was read; menu and log agree.
- *nfqws2 run*: it ends, whatever nfqws2 does.
- *Menu copy*: late at most.
- *HTTPS request*: it returns, gives back what it allocated, and succeeds only if the site answered.
- *Applying, settings, startup*: the config zapret2 came with is never lost; the bracket marks the
  profile zapret2 has; the wizard is done only when its answers are saved; the main loop runs on
  configs of one make.
- *Template*: the generated configs differ from the original in `NFQWS2_OPT` only, however often
  one of them has become the template.
- *Logs*: whole lines, each message in both files, no thread left waiting.
- *Header*: what it says of a restart ends, and then it says what the service is.

## Modules

| Module | What it is |
|---|---|
| `Verdict` | the pure functions: `analyze_test`, the repair of `queue_hit` the test makes afterwards, verdict and summary. The output of nfqws2 is the set of the markers `strstr` looks for |
| `Testing` | UI thread, test threads, result table, argument buffer, rules, nfqws2 processes, service, end and restart of the program |
| `TestLifecycle` | the abstract specification: what the menu promises about tests |
| `Screen` | `Testing` with the UI thread's copy of the results |
| `NfqwsRun` | one nfqws2 run, taken apart: the process, the pipe, both buffers, signals |
| `MCTesting`, `MCScreen` | values for the constants of the runs |
| `NfqwsContract` | the abstract specification of one nfqws2 run: what a test may count on. `Testing` and `NfqwsRun` are both shown to keep to it |
| `TestingProof` | theorems about `Testing` |
| `MenuProof` | theorems about `Screen`, and that `Testing` implements `TestLifecycle` |
| `NfqwsProof` | theorems about `NfqwsRun` |
| `HttpsRequest`, `HttpsProof` | the HTTPS request of a test against a site, call by call, and theorems |
| `Files` | what the program keeps on disk, and `write_conf_sec`, which both of the next take steps with |
| `Startup` | `main` to the main loop: checks, wizard, generated configs, reset of `view_profile` |
| `ProfileApply` | the Enter key |
| `Installation` | `Startup` and `ProfileApply` through any number of sessions, crashes and edits |
| `InstallationProof` | theorems about `Installation` |
| `ZapretTemplate` | `read_conf_engine` and `create_zapret_configs` on files of tokens, session after session |
| `TemplateProof` | theorems about `ZapretTemplate` |
| `Log`, `LogProof` | the two log files, and theorems |
| `Header`, `HeaderProof` | service keys, reload timer, and what the header is drawn with, and theorems |
| `MCInstallation`, `MCZapretTemplate` | values for the constants of the runs |

**Testing and the code.** `ui` says where the UI thread is in `core_update`: `poll` is the top of
the loop; `one_check`, `one_mark`, `one_spawn` are the two critical sections of the T key and
`pthread_create`; `all_check`, `all_spawn` are those of A. `pc[t]` says where a test thread
is: each label is named for the function about to be called. Every access to the result table and
to the flag is made under `testing_mutex`, so a critical section is one action and the mutex is no
variable. `prof` is the profile of the thread's job, and the loop counter of a sweep. `loc` holds
the locals of `testing_profiles` that later steps read: the strategy the forked nfqws2 got, the
markers it logged, `binding_confirmed`, `http_res.success`, `final_result` and the tries of
`delete_rule_with_retry`. `rules` counts the rules per packet filter. `child` is the thread's
nfqws2, `orphan` one that outlived its session. `zapret2_active` changes by the keys; other ways to
start the service are not modelled. `NoKey` is a pass of the loop without an effect here.

`EndProcess` covers a quit (`Quit`, from the top of the loop) and a crash (`Killed`, anywhere): no
thread is joined, so both cut tests short wherever they are. `Restart` is the next start, with new
tables and whatever rules and processes are left. The error windows and the job structs, which
do not change, are left out.

The clean-up of `get_test_queue` changes nothing in the model because it changes nothing in the
system: the iptables pipeline passes rule specifications to `sh` without the word `iptables`, and
the nft command has neither a handle nor the mark. The deletion after a test differs with the packet filter: `iptables -D` finds a rule by
its text, `nft delete rule` takes it by its handle only, and `del_nft_nfqueue_rule` passes the text. So `Deletable` is FALSE with nftables,
where every test fails three times to delete its rule, leaves it in place and ends as an ERROR, whatever its run was judged.

**NfqwsRun and the code.** Output is a sequence of cells. A marker is one cell; the binding message
is two, as it can straddle the end of a buffer. A pipe that is full blocks its writer. The test
thread reads it in `wait_for_nfqws2_ready` and in the drain loop of
`stop_nfqws2_and_collect_logs`, one round an action: `DrainReads` is poll and read, `DrainWaits` the
`waitpid` after it. The reads of both use `Read`: what fits. `Found` is what `strstr` finds.

**Testing and NfqwsRun.** `Testing` takes the same run in a few large steps, and `NfqwsContract` says which: nfqws2 prints; the
wait ends and drops the binding message or nothing; the request ends; the run is judged by some part
of what is left of the output, with an expected exit code or not; the test leaves. `Run(t)` maps the thread `t` of `Testing` to it,
`Contract` maps `NfqwsRun`. There the output of the contract is what was printed and not dropped
by the wait (`Left`), be it in the log buffer or in the pipe: a drain moves it, and moves nothing away. As both keep
to the contract, what `Testing` leaves out of a run cannot do what `Testing` does not allow for.

**HttpsRequest and the code.** Each label is a call of `send_https_test_raw` or of one of its helpers;
`cleanup` is the label of that name. `held` is what is allocated, `known` what the locals refer to, so that a
resource that is held and not known is lost. The site is an adversary: it sends any status, up to `MaxTickets`
session tickets, and ends the connection whenever it likes. A TLS record is a number: the status
code `sscanf` finds in it. A record may end after 0 to 3 digits of the code (`FirstDigits`). Time is left
out: a wait ends with what it waits for or, while that is not there, without it.

**Files, Startup, ProfileApply, Installation and the code.** A config is what is left of the original
(`missing`, `cut` before `NFQWS2_OPT`, `part`, `whole`) and the strategy in it; `config/config` is a record of its
keys, or does not parse. `fopen(..., "w")` empties a file, the write after it is a step of its own, and `Crash` may come
between any two steps. `write_conf_sec(key, value, ok, fail)` parses and opens at once and leaves
the printing to `PrintSettings`; `call` says where its caller goes on. `pc` has a label for each
function about to be called, and `Exit` is every return of `main`. `view_profile` is `config_main.view_profile`
up to `app_init` and `state->view_profile` from then on. `Faults` names the calls that may fail. `warned` and
`configured` are history variables: the last profile applied ended in an error window; the wizard
was once answered to its end. Between sessions, `EditProfiles` and `Repair` are the user's.

**ZapretTemplate and the code.** A file is a sequence of tokens, for `NFQWS2_OPT=`, another `=`, a quote, an end of line, a
comment, or some text. As in the code, the value is looked for behind the first `=` of a line that has `NFQWS2_OPT=` in it (`Opens`). Lines are positions in it: `buffered` fills the buffer of `fgets` character by character, and `Pieces`
are the positions where it returns. So `text` is the part of the file that fits into 256 pieces, and in both layouts
the code knows the value ends with the second quote: `start`, `finish` and `stand_format` become
`first` and `last`, the positions of the lines that are replaced. `create_zapret_configs` writes the config of a profile. `Shell` is the reference
definition: it reads a config as the shell does, into the value of `NFQWS2_OPT` and all other settings. `buffered` and
`ShellAt` are recursive functions over the positions, which proofs can reason about.

**Log and the code.** A line is two pieces, its time stamp and its text. `log_mutex` is a variable here, and each
`fprintf` an action. `stage` follows the UI thread through `log_open` (twice), the main loop, `app_cleanup` and the
end of `main`. A write to a `FILE` another thread has closed is undefined: it is lost, or ends the program.

**Header and the code.** One action per key, one for drawing (`ui_draw`, then `reload_timer`), one for the redrawing on
`KEY_RESIZE`, which skips the timer. A command is refused, done, failed, or ended by a signal. The service
changes by itself at any time. `last`, `restarted` and `drawn` are history variables.

**nfqws2** is not part of the repository. What the models say of it (`ChildBinds`, `ChildDies`,
`Binds`, `Receives`, `Complains`, ...) is what the code relies on: it binds a queue only one process
can hold, prints a message then, prints `packet:` for a packet, may print a desync or an error
of it, and may exit, hang or ignore SIGTERM. The same holds of the site, of libconfuse and of systemd.

## Runs

| Run | Question | Size |
|---|---|---|
| `testing_safe` | while rules can be created: do tests stay apart, do menu, strategy and verdicts stay right, does the table implement `TestLifecycle`, each run of nfqws2 `NfqwsContract`? | 2 profiles, 2 thread slots, 2 sessions, either packet filter, every other fault, bounded by `FewRules`; 175,018 states |
| `testing_faults` | when creating a rule fails and tests overlap: is there one sweep, is nothing stuck, does each test keep its rule? | 2 profiles, 2 threads, 1 session, iptables or a packet filter the program does not know, bounded by `QuietSystem`; 824 thousand states |
| `screen` | does each test and sweep end, and is the iptables rule taken back on each exit? is the copy of the menu late at most, and does it catch up? | 2 profiles, 1 thread slot, 2 sessions, faults in three calls; 24,898 states |
| `nfqws_run` | does a run end, is it judged soundly, do verdict and summary agree? does it keep to `NfqwsContract`? | pipe 6, wait buffer 3, log buffer 5 cells, up to 3 cells of boot output; 197,759 states |
| `installation` | over any number of sessions, with faults, crashes and edits: is the original config kept, are the configs of one make, does the wizard save its answers, does a wrong bracket come with an error window? | up to 2 profiles, 2 strategies, all faults, no bound on sessions; 150,207 states |
| `zapret_template` | does what `read_conf_engine` cuts out and `create_zapret_configs` writes mean the right thing to the shell, in the first round and in those that start from its own output? | 467 configs of up to four blocks of lines, 3 strategies, `fgets` of 5 tokens, 3 sessions; 13,775 states |
| `log` | are lines whole, are messages in both files, is the mutex given up? | UI thread, 2 test threads, 1 message each; 84,387 states |
| `https` | does the request return, release, wait in the right mode, and earn its success? | 3 status codes, 2 session tickets; 1,239 states |
| `header` | does "restart" end, with no step that gives it another pass, and does the header come to show the service? | no constants; 3,654 states |
| `viol_strategy`, `viol_stale`, `viol_complete` | three statements of the repository that the code does not keep, see below | |

*Bounds.* Two profiles are enough for a test of one beside the test of another, for a first and a
last iteration of a sweep, and for a cursor that wraps. A third thread would not start: two slots
give every pair, and `testing_safe` shows the second is never used. In `screen` there is one slot
and `pthread_create` may fail, which is also what a second start would meet. Two sessions give one
with the leftovers of another; `MaxStale` lets deletion fail until so many rules have leaked. In `screen`
it is 0, the packet filter is iptables, and deletion does not fail: `NoLeakedRule` is about the exits, not about deletion. The
nftables rules, which nothing takes away, are bounded by the constraint `FewRules` of `testing_safe`: up to `MaxLeft` of them, three, which is a
sweep with a third test after it, in the same session or the next. What a test sees of rules left behind is that there are some. The run checks
invariants and properties of single steps, no liveness, so the constraint cuts behaviours short and hides none of their steps. The buffers of
`NfqwsRun` keep the order of the real sizes, wait buffer below log buffer below pipe: each can be
filled, and the binding message can be cut at the end of the first. With `Chatter` empty nfqws2
prints the binding and packet messages only; only verdicts depend on the rest.

Two profiles also give `installation` a bracket to move and a set of configs that is half written; `Confs`
of `MCInstallation` adds the files `read_conf_profiles` refuses, and one that lists the sections in another order. The number of
sessions has no bound there. In `zapret_template` the length of a line `fgets` reads is 5 tokens, so that
`MCZapretTemplate` has lines and strategies on both sides of it; three sessions are two in which a generated config is the template.
`log` has two test threads, as it takes two to tear a line of `testing.log`, and the UI thread that closes the
files. One message of each meets every other at every step, and `LogProof` is for any number. A third session
ticket of `https` would be one more record of the kind the second is. `header` counts 22 passes, as the code does.

`QuietSystem`, the constraint of `testing_faults`, leaves out an active service, which only refuses
keys, and an nfqws2 that died, which only changes the verdict: its three properties speak of neither,
and `testing_safe` explores both. With iptables, rules are both shared and taken away, which `RulesCovered` is about; nftables is left to `testing_safe`
and to the theorem `RuleForEachTest`.

*Symmetry* over threads is used in `testing_safe` and `testing_faults`, which check no liveness but
the refinement of a specification without fairness.

*Deadlock* is checked in the runs of `Testing`, `Screen` and `Installation`; in `Testing`, `Over` is the end of the last session. It is
off where the system stops: `nfqws_run` when the run is judged, `https` when the request has returned,
`log` when the program is over, `zapret_template` after the last session. In `header` the program may be quit.

*Fairness.* `WF(UiThread)`: `getch` returns after 50 ms, so the loop goes on. `WF(TestThread(t))`: every
wait of a test thread has a timeout (5 s for binding, connection, TLS and answer; 5 s and 2 s to stop
nfqws2; three tries to delete a rule). Nothing is assumed of nfqws2 but that SIGKILL ends it. In
`NfqwsRun`, `SF(DrainEnds)`: the loop measures the time on every round, so it cannot read on for
ever, however busy nfqws2 is. `HttpsRequest` assumes the same of the test thread and nothing of the
site. `Log` assumes that a thread inside `log_msg` or `log_close` goes on, and not that it logs. `Header` assumes that
the screen is drawn again and again, and that passes of the main loop, which alone count the timer
down, do not stop for good (`SF(Pass)`), since a window that is resized for ever would keep it redrawing. `system()` is taken
to return.

## Where code and repository disagree

Each of these three runs checks one statement and finds it violated.

| Run | Statement | What happens |
|---|---|---|
| `viol_strategy` | "nfqws2 starts with the specified profile" | `create_rule` publishes ERROR, then its caller does. T pressed in between starts a new test, whose status the second ERROR takes. Hidden that way, it lets another start beside it; `build_nfqws2_args` returns one static array to both |
| `viol_stale` | "Clean any stale iptables rules on queue 2001" | the rule of a session that ended during a test is still there |
| `viol_complete` | "Each profile is a complete copy of the config" | a crash in `copy_file` leaves a part of the config, which the next start takes for the template: all profiles are copies of that part |

The first needs two publications to be apart, with a key press between them. While `create_rule`
works (`RuleCreationWorks`) it cannot happen: that is what `ExclusiveTests` and `ImplementsLifecycle` prove.

Further configurations, each of one statement that TLC finds violated. They are kept for a reader to run
(`tlc -config viol_<name>.cfg <module>`); several rest on the same causes.

| Configuration | Module | Statement | What happens |
|---|---|---|---|
| `viol_status` | `MCTesting` | "(T) TESTING, test in progress" | the second ERROR takes the status of a test that runs |
| `viol_service` | `MCTesting` | "Testing requires zapret2 to be stopped." | S starts it during a test |
| `viol_nftables` | `MCTesting` | "an iptables/nftables rule", and SUCCESS for "Strategy applied, site accessible" | with nftables the rule is not deleted, and each verdict becomes ERROR |
| `viol_error` | `NfqwsRun` | ERROR means "no packets received AND no desync" | the binding message is lost between the buffers, or the tail of the output is not read |
| `viol_success` | `NfqwsRun` | SUCCESS means "errors=0" | an `[ERROR]` before the binding message is dropped |
| `viol_fail` | `NfqwsRun` | FAIL means "site unavailable" | the site answered, but nfqws2 logged an error |
| `viol_pieces` | `HttpsRequest` | FAIL means "site not accessible" | one `SSL_read`: an answer in pieces has no whole status code in the first |
| `viol_redirect` | `HttpsRequest` | SUCCESS means "http_code=2xx" | 3xx counts as well |
| `viol_sigpipe` | `HttpsRequest` | "Strategy broke the connection" is a FAIL | writing to a connection that was reset ends the program by SIGPIPE |
| `viol_bracket` | `MCInstallation` | brackets are around "the selected profile" | `view_profile` is written before the copy, and stays when the copy fails (with an error window: `NeverSilentlyWrong`) |
| `viol_wizard` | `MCInstallation` | "On first run, the program will ask" | settings emptied by a crash have the defaults, or the wizard's answers are lost |
| `viol_template` | `MCZapretTemplate` | all other settings are kept | the template ends after 256 lines |
| `viol_growth` | `MCZapretTemplate` | all other settings are kept | a line just as long as `fgets` reads is given an end of line, so the config grows with each session, up to that limit |
| `viol_comment` | `MCZapretTemplate` | the strategy of the profile is in effect | `NFQWS2_OPT=` in a comment is taken for the assignment |
| `viol_torn` | `Log` | lines look like "[time] [module] [LEVEL]: message" | `test_log_msg` writes without the mutex |
| `viol_logged` | `Log` | "All actions are logged" | a file that could not be opened, or is closed already, takes nothing |
| `viol_sticky` | `Header` | "error" in the header is of the last command | `service_error` is never reset |
| `viol_signalled` | `Header` | "restart" follows a restart | `WEXITSTATUS` of a command ended by a signal is 0 |

## Proofs

Eight modules hold theorems, each for every value of the constants its model has. The assumptions
on the constants are the named ones of the models (`ConstantsOK`, `SizesOK`, `SiteOK`, ...): types, and sets that are not
empty where the code relies on it.

*Testing* (`TestingProof`)

- `TypeCorrect`: `Spec => []TypeOK`. One step per action; each update of the locals
  has a lemma that keeps the record well typed.
- `RuleForEachTest` assumes nothing of what fails. `RuleCountInv` adds that threads
  die with the process and that beyond `create_rule` the packet filter is a known one; the step of
  a thread adds itself to the threads that hold a rule together with a rule, or leaves them
  and takes at most one rule away.
- `RulesTakenBack` assumes only that `iptables -D` does not fail (`"delete_rule" \notin Faults`): with it, `NoLeakedRule`, which is about
  iptables, holds however tests overlap. It is not inductive alone: that a deletion succeeds needs a rule to be there, which is `RuleForEachTest`
  (lemma `HolderHasRule`), and that the first session is the first needs `sessions >= 1` (`LeakInv`).
- `SweepAlone`, `RunningOwned` assume nothing either, so they also hold when tests
  overlap. `SweepInv` adds that no sweep lives while the UI thread is about to start one, and that
  `final_result` is never RUNNING.
- `ExclusiveTests`, `RunningShown`, `StrategyOfTest`, `EarnedVerdict` assume
  `RuleCreationWorks`. None of the four properties is inductive. `TestInv` is: a live thread is visible to
  `can_start`, by the flag if it is a sweep and by RUNNING if it is a test; while the UI thread is
  between check and creation there is no thread; so a thread is alone, and its step only has to
  keep what `TestInv` says of itself (lemma `OwnStep`). With that the argument buffer is written by
  nobody else between `build_nfqws2_args` and the fork, a process exists only between start and
  stop, and what is logged of a packet was logged by the thread's own nfqws2 (lemma `Request`). Lemma
  `GoodVerdict` is about the judgement itself: a good verdict has a trace of the packet in the
  collected output.
- `TestsKeepContract` assumes `RuleCreationWorks`: `Spec => RunsKeepContract`. `RunInv` adds to `TestInv` that the locals are as
  declared until nfqws2 is started, so that a run begins without output and a test that never
  started nfqws2 has none to judge. Then each action is a step of `NfqwsContract` or a stutter (lemma `RunThread`), and no
  action of another thread touches the run (`OthersUntouched`). Without `RuleCreationWorks` it is false: with two tests at a time
  the nfqws2 of one, still waited for, logs the packet of the other.
- `TestStepsBounded` assumes nothing of what fails: it is the safety half of "every test ends". `StepsLeft` counts the steps a
  thread still has, 11 for a test with its three attempts at deletion, 12 for each profile of a sweep and one to leave the loop.
  Each step of the thread lowers it, and no other step, be it of the UI thread, of nfqws2 or of a test that overlaps, raises it
  (`OwnSteps`, `OthersSteps`, `SpawnSteps`). It needs `SweepInv` once: only a sweep comes back to the loop.

*The menu* (`MenuProof`), both with `RuleCreationWorks`

- `ImplementsLifecycle`: `Spec => Lifecycle`, the refinement
  of `TestLifecycle`. `Progress` adds to `TestInv` how far a test has come: a single test's profile is the only one
  RUNNING; a sweep has settled the profiles below its counter and not touched the others. `Maps` then holds of every
  step: publishing is `Verdict` (lemma `Publishes`), the two marks are starts, a failed `pthread_create` is a verdict or
  `SweepAborted`, a restart is `Restarted`, and all else stutters (lemma `InnerStep`), `AllNext` too, since the
  profile it marks is marked already.
- `MenuOnlyLate`: `ScreenSpec => []OnlyLate`. `Screen` is `Testing` with a copy beside it (lemma `ScreenTests`), so that its invariants
  hold here as well. `OnlyLate` is kept by the copying and by the direct writes of the keys; what it needs `Progress` for is a step of a
  test thread: it changes the result of a profile only if that is RUNNING (`OnlyVerdicts`), since what a sweep comes to was marked
  with the rest, so the copy is behind by a verdict and never ahead of a mark.

*One run of nfqws2* (`NfqwsProof`), for buffers and pipes of any size and any output: `RunTypes`, `RunVerdictSound`,
`RunSummaryAgrees`, `RunWorkingNotError`. What is judged is not what was printed, so the invariant follows the
cells. `Kept`: what was printed is in one of the buffers or in the pipe, counted. `Story`: what the output says of
process and request. `Dropped`: what the wait dropped has no packet, and `binding_confirmed` is whether it has a
whole binding message; as the second half can never be read before the first (`InOrder`), half a message is its first half.
`Collected`: the first round of the drain comes after the answer, so that it finds everything a good
verdict needs, if it fits. The lemmas before that are about sequences, and about what `Read` moves.
`RunKeepsContract` is the refinement of `NfqwsContract`, `Spec => KeepsContract`, from the same invariant. A drain moves cells
from the pipe to the buffer and leaves `Left` alone; the wait drops no more than the binding message (`WaitOverKeeps`), as no packet comes before
the request; and a judgement of the run is one the contract allows (`JudgesKeeps`): of the exit code only matters whether it is
expected, and an output that says nfqws2 was broken is an ERROR, as an unexpected exit is (`BrokenIsError`).

*The HTTPS request* (`HttpsProof`), for any status codes and any number of session tickets: `RequestTypes`,
`RequestReleases`, `RequestWaits`, `RequestEarnsSuccess`. The invariant says that the locals know all that is
held (`HeldInv`), that the socket is non-blocking only inside `connect_with_timeout` (`ModeInv`), that a record which is no
ticket is the beginning of the one answer (`RecordInv`), and that the site is asked once (`AskInv`). Lemma `Digits` does
the arithmetic: a status code that was cut short is below 100. `RequestStepsBounded` is the safety half of `Returns`: the request
returns within `12 + MaxTickets` steps of its own. `StepsLeft` counts the calls after a label and the records that may still be read;
what the site sends moves from those to come to those that have arrived (`SiteAddsNothing`), and `SSL_read`, which goes on after a
ticket, uses one up (`RequestAdvances`). That the site is asked once (`AskInv`) is needed here too.

*Installation* (`InstallationProof`), for any profiles, strategies and faults, through any number of
sessions: `InstallationTypes`, `BackupKeepsOriginal`, `WizardSavesPaths`, `ConfigsOfOneMake`, `BracketsWarn`. `SessionInv` says
what each stretch of the program has read and where a call of `write_conf_sec` returns to (`Toward`); `BackupInv` that
the backup is whole whenever zapret2's config is being written; `PathInv` that the answers are in the settings or in the call
about to print them; `FreshInv` that the configs below the counter are generated; `BracketInv` that the bracket is
right or an error window came up.

*Logs* (`LogProof`), for any number of threads and messages: `WholeLines` and `MessagesInBothLogs`. A thread in
the middle of a line holds the mutex and wrote the last piece (`LineInv`); between the two `fclose` the UI thread has the mutex,
so whoever finds `testing.log` open has its message in `zapret2-tui.log` (`BothInv`).

*The header* (`HeaderProof`): `HeaderTypes` and `NoticeWearsOff`. `reload_timer` compares with `==`, so that the notice ends only if
the timer is never past its limit and starts at 0: `TypeOK` says so and is inductive. `NoticeWearsOff`, an action property, counts
the passes that are left (`PassesLeft`): a pass takes one, and no key, command or resize gives one back.

*The template* (`TemplateProof`)

- `RoundsAgree`: `Spec => []FirstRound` for configs and strategies of any length and number, if `AllTidy`. `FirstRound` is about one round: a config read as the template,
  written with any strategy, read again and written with another. `Tidy` says what it takes, and each part is a limit of the code: file and generated file
  fit into 256 pieces (`viol_template`); to the shell the replaced lines are an assignment of `NFQWS2_OPT` and nothing else, and the last one
  (`viol_comment`); the strategy has no quote, and its closing quote does not fill the buffer of `fgets`
  (`viol_growth`). The assumption `PlainIsTidy` of `MCZapretTemplate` has TLC check that the configs of the run are tidy.
  The argument is by position. What `fgets` and the shell have made of a file after n characters depends on those only (`ShellBefore`), and where a piece
  ends a file can be cut: the pieces behind are those of a file of its own (`BufferedBehind`). So the line of the
  profile is found again exactly where it was written (`ReadAgain`); the shell comes to it as it came to the lines replaced, takes the strategy from it token by
  token (`ShellWithin`) and reads the rest as before (`ShellBehind`).
  The inductions over positions go through lemma `Induction`, about a set of numbers, and so need no operator as a parameter; the same lemma shows
  that the two recursive functions exist (`BufferedIs`, `ShellAtIs`).
- `LastStrategyInEffect`, `SettingsKept` and `ConfigHasNoTrace`, each of the form `Spec /\ FirstRound => []...`, for any config and any number of
  sessions, tidy or not: what holds over the first round holds over all. `TemplateInv`: whatever profiles were applied and wherever
  the template was read, the config is the one made of the original at once.
- `AnyNumberOfSessions` puts the two together: `AllTidy` is all the three need.

`HeaderTypes` and `RequestTypes` are proved and not checked by a run: the runs of those modules are about the rest.

Only checked by TLC: liveness under fairness, which is out of the prover's reach. `TestStepsBounded` and `RequestStepsBounded` prove
what of it is safety: how many steps there are. That the steps are taken is the fairness.

## Not modelled

- *Drawing*: the layout of header, menu, windows and help, the wrapping of text and the signs of the statuses in `ui/ui.c`. They are
  output that nothing reads. What the header is told is modelled (`Header`).
- *libconfuse*: parsing and printing `config/config` and `profiles.conf` are external, by what they do to the
  keys. `read_conf_testing` only reads: its values are `conf` of `Testing`. Quotes in a strategy are not
  escaped by `create_zapret_configs`; that is about the user's file and left out.
- *Time*: a wait that ends early and one that runs into its timeout are two outcomes of one action. What a duration is, and how many
  waits make the longest test, is not modelled.
- *HTTPS*: the branch for ports other than 443 and the check for a request that is too large, which no caller
  reaches; the content of TLS beyond records.
- *Hazards without a property*: in each of these the code has no guard, so nothing that holds could be lost, and a property of a passing run
  can only assume the case away. The statements are there for TLC to refute. That zapret2 stays stopped during a test (`viol_service`); that a broken
  connection does not raise SIGPIPE in one of the calls that write, `SSL_connect`, `SSL_write` and `SSL_shutdown` (`viol_sigpipe`); that a command ended by a signal is no success
  (`viol_signalled`); that nftables rules are taken back (`viol_nftables`); that the lines of `testing.log` are whole and that all messages arrive (`viol_torn`,
  `viol_logged`); that settings survive a crash while they are written (`viol_wizard`); that a config of more than 256 lines, with a line as long as the buffer, or with
  `NFQWS2_OPT=` in a comment is a template like others (`viol_template`, `viol_growth`, `viol_comment`: `Tidy` excludes them from the passing run); that
  "error" leaves the header (`viol_sticky`: `HeaderSettles` assumes it is not set).
- `Testing` and `NfqwsRun` use the outcome of the request and not `HttpsRequest` step by step. The two sides share the
  success flag and the moment of the packet only.

## What is left

`NfqwsRun` composed with `HttpsRequest`, the site behind a DPI: which verdicts a strategy can get that lets the
connection stand and breaks the answer. `NfqwsContract` is the side that `HttpsRequest` would be put beside.
