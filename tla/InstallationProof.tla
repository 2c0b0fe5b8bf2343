-------------------------- MODULE InstallationProof --------------------------
(***************************************************************************)
(* Proofs about Installation, for any number of profiles, any strategies   *)
(* and any set of failing calls: files and memory keep their types, the    *)
(* config zapret2 came with is never lost, the wizard is done only with    *)
(* both paths saved, the main loop has configs of one make, and brackets   *)
(* are never wrong without a warning.                                      *)
(*                                                                         *)
(* Between a write of the settings and its end the program counter says    *)
(* nothing of where the program is: call.ok does.  The invariants speak of *)
(* a place with Toward, which covers both.                                 *)
(***************************************************************************)
EXTENDS Installation, TLAPS

Before   == {"off", "read_settings", "ask_path", "ask_program", "ask_choice", "wizard_done",
             "wizard_ends", "read_again"}
Applying == {"backup", "open_copy", "copy", "save_view", "compare", "save_again",
             "not_applied", "applied"}
Running  == Applying \cup {"check_view", "app_init", "app_run"}

Toward(places) == pc \in places \/ (pc = "print_settings" /\ call.ok \in places)

\* A session has no profiles before it has read valid ones.
SessionInv ==
  /\ Toward(Before) => profile = << >>
  /\ profile = << >> \/ ValidProfiles(profile)
  /\ i \in 0 .. Len(profile)
  /\ pc = "write_config" => i < Len(profile)
  /\ Toward(Running \cup {"write_config"}) => HasOpt(template)
  /\ Toward(Applying) => menu_index \in 0 .. Len(profile)-1
  /\ pc = "print_settings" =>
       \/ call.ok \in Before /\ call.fail = "failed"
       \/ call.ok \in {"app_init"} /\ call.fail = "failed"
       \/ call.ok \in {"compare", "applied", "not_applied"} /\ call.fail = "not_applied"

\* While a config is on its way to zapret2 the original is in the backup.
BackupInv == OriginalSafe /\ (pc \in {"open_copy", "copy"} => zsave = Original)

\* The wizard's answers are in the settings, or in the call that writes them.
Done(s) == ~s.first_start => s.zapret_path # "none" /\ s.program_path

PathInv ==
  /\ Done(settings) /\ Done(call.new)
  /\ pc \in {"ask_program", "ask_choice"} => settings.zapret_path # "none"
  /\ pc = "ask_choice" => settings.program_path
  /\ call.ok \in {"ask_program", "ask_choice"} => call.new.zapret_path # "none"
  /\ call.ok = "ask_choice" => call.new.program_path
  /\ call.fail \in {"off", "failed", "not_applied"}

\* The configs below n are generated.
FreshTo(n) == \A k \in 0 .. n-1 : gen[k] = Generated(k)

FreshInv ==
  /\ pc \in {"generate", "write_config"} => FreshTo(i)
  /\ Toward(Running) => FreshTo(Len(profile))

\* The bracket is where zapret2 has its config from.
Shown ==
  view_profile \in 0 .. Len(profile)-1 =>
    HasOpt(zconf) /\ zconf.strategy = profile[view_profile + 1].strategy

BracketInv ==
  /\ Toward({"app_init", "app_run"}) => warned \/ Shown
  /\ Toward({"save_again", "applied"}) => zconf = gen[menu_index]

IInv == TypeOK /\ SessionInv /\ BackupInv /\ PathInv /\ FreshInv /\ BracketInv

-----------------------------------------------------------------------------
(* Types.                                                                  *)

LEMMA ContentTypes ==
  /\ Missing \in Content /\ Cut \in Content /\ Original \in Content
  /\ ~HasOpt(Missing) /\ ~HasOpt(Cut) /\ HasOpt(Original)
  /\ \A c \in Content : HasOpt(c) => [c EXCEPT !.kind = "part"] \in Content
  BY DEF Missing, Cut, Original, Content, HasOpt

LEMMA SettingTypes ==
  /\ Defaults \in Setting /\ HalfWritten \in Setting
  /\ \A s \in Setting, v \in Profiles \cup {NoProfile} : [s EXCEPT !["view_profile"] = v] \in Setting
  /\ \A s \in Setting, p \in Paths : [s EXCEPT !["zapret_path"] = p] \in Setting
  /\ \A s \in Setting, b \in BOOLEAN : [s EXCEPT !["program_path"] = b] \in Setting
                                        /\ [s EXCEPT !["first_start"] = b] \in Setting
  BY DEF Defaults, HalfWritten, Setting, Paths, NoProfile

\* A generated config is a config, and has NFQWS2_OPT.
LEMMA GeneratedTypes ==
  ASSUME template \in Content, HasOpt(template), profile \in ProfileConfs, ValidProfiles(profile),
         NEW k \in 0 .. Len(profile)-1
  PROVE  /\ Generated(k) \in Content /\ HasOpt(Generated(k))
         /\ Generated(k).strategy = profile[k + 1].strategy
         /\ profile[k + 1].id = k /\ k \in Profiles
<1>1. profile \in Seq(Section) /\ Len(profile) <= MaxProfiles /\ MaxProfiles \in Nat
  BY FilesOK
<1>2. k + 1 \in 1 .. Len(profile)
  BY <1>1
<1>3. profile[k + 1] \in Section /\ profile[k + 1].id = k /\ profile[k + 1].strategy # NoOpt
  BY <1>1, <1>2 DEF ValidProfiles
<1>4. profile[k + 1].strategy \in Strategies
  BY <1>3 DEF Section
<1>5. k \in Profiles
  BY <1>1 DEF Profiles
<1> QED
  BY <1>3, <1>4, <1>5 DEF Generated, Content, HasOpt

CallType == [new : Setting, ok : Labels, fail : Labels]

\* What a call of write_conf_sec does to the types.
LEMMA WriteTypes ==
  ASSUME NEW key, NEW value, NEW ok \in Labels, NEW fail \in Labels,
         settings \in Setting, call \in CallType, [settings EXCEPT ![key] = value] \in Setting,
         write_conf_sec(key, value, ok, fail)
  PROVE  settings' \in Setting /\ call' \in CallType /\ pc' \in Labels
  BY SettingTypes DEF write_conf_sec, CallType, Labels, Goto

LEMMA WriteCall ==
  ASSUME NEW key, NEW value, NEW ok, NEW fail, write_conf_sec(key, value, ok, fail)
  PROVE  call'.new = [settings EXCEPT ![key] = value] \/ call' = call
  BY DEF write_conf_sec

LEMMA ProfileCount ==
  ASSUME NEW conf \in ProfileConfs \cup {<< >>}
  PROVE  Len(conf) \in 0 .. MaxProfiles /\ conf \in Seq(Section) /\ MaxProfiles \in Nat \ {0}
<1>1. CASE conf \in ProfileConfs
  BY <1>1, FilesOK
<1>2. CASE conf = << >>
  <2>1. << >> \in Seq(Section) /\ Len(<< >>) = 0
    OBVIOUS
  <2> QED
    BY <1>2, <2>1, FilesOK
<1> QED
  BY <1>1, <1>2

LEMMA FirstProfile == 0 \in Profiles /\ 0 \in 0 .. MaxProfiles /\ << >> \in ProfileConfs \cup {<< >>}
  BY FilesOK DEF Profiles

\* The end of a session leaves nothing in memory.
LEMMA ExitTypes ==
  ASSUME TypeOK, Exit, UNCHANGED diskVars, configured' \in BOOLEAN
  PROVE  TypeOK'
  BY SettingTypes, ContentTypes, FirstProfile DEF TypeOK, Exit, diskVars, NoCall, Labels, Goto

LEMMA TypeStep == IInv /\ [Next]_vars => TypeOK'
<1> SUFFICES ASSUME IInv, [Next]_vars PROVE TypeOK'
  OBVIOUS
<1> USE DEF At, Goto, Exit, diskVars, memVars, historyVars, applyMem, NoCall
<1>0. TypeOK /\ SessionInv /\ settings \in Setting /\ call \in CallType /\ menu_index \in Profiles
  BY DEF IInv, TypeOK, CallType
<1>1. CASE Start
  BY <1>0, <1>1, ContentTypes DEF Start, TypeOK, Labels
<1>2. CASE CheckFails
  <2>1. Exit /\ UNCHANGED diskVars /\ configured' \in BOOLEAN
    BY <1>0, <1>2 DEF CheckFails, TypeOK
  <2> QED
    BY <1>0, <2>1, ExitTypes
<1>3. CASE ReadSettings
  BY <1>0, <1>3, ContentTypes DEF ReadSettings, TypeOK, Labels
<1>4. CASE AskPath
  <2>1. PICK path \in Paths \ {"none"} :
          write_conf_sec("zapret_path", path, "ask_program", "failed")
    BY <1>4 DEF AskPath
  <2>2. [settings EXCEPT !["zapret_path"] = path] \in Setting
    BY <1>0, SettingTypes
  <2>3. "ask_program" \in Labels /\ "failed" \in Labels
    BY DEF Labels
  <2>4. settings' \in Setting /\ call' \in CallType /\ pc' \in Labels
    BY <1>0, <2>1, <2>2, <2>3, WriteTypes
  <2> QED
    BY <1>0, <1>4, <2>4 DEF AskPath, TypeOK, CallType
<1>5. CASE AskProgram
  <2>1. [settings EXCEPT !["program_path"] = TRUE] \in Setting
    BY <1>0, SettingTypes DEF NoProfile
  <2>2. write_conf_sec("program_path", TRUE, "ask_choice", "failed")
    BY <1>5 DEF AskProgram
  <2>3. "ask_choice" \in Labels /\ "failed" \in Labels
    BY DEF Labels
  <2>4. settings' \in Setting /\ call' \in CallType /\ pc' \in Labels
    BY <1>0, <2>1, <2>2, <2>3, WriteTypes
  <2> QED
    BY <1>0, <1>5, <2>4 DEF AskProgram, TypeOK, CallType, NoProfile
<1>6. CASE AskChoice
  <2>1. PICK next \in {"wizard_done", "wizard_ends"} :
          write_conf_sec("first_start", FALSE, next, "failed")
    BY <1>6 DEF AskChoice
  <2>2. [settings EXCEPT !["first_start"] = FALSE] \in Setting
    BY <1>0, SettingTypes
  <2>3. next \in Labels /\ "failed" \in Labels
    BY DEF Labels
  <2>4. settings' \in Setting /\ call' \in CallType /\ pc' \in Labels
    BY <1>0, <2>1, <2>2, <2>3, WriteTypes
  <2> QED
    BY <1>0, <1>6, <2>4 DEF AskChoice, TypeOK, CallType
<1>7. CASE WizardDone
  BY <1>0, <1>7, ContentTypes DEF WizardDone, TypeOK, Labels
<1>8. CASE WizardEnds
  <2>1. Exit /\ UNCHANGED diskVars /\ configured' \in BOOLEAN
    BY <1>0, <1>8 DEF WizardEnds, TypeOK
  <2> QED
    BY <1>0, <2>1, ExitTypes
<1>9. CASE Fails
  <2>1. Exit /\ UNCHANGED diskVars /\ configured' \in BOOLEAN
    BY <1>0, <1>9 DEF Fails, TypeOK
  <2> QED
    BY <1>0, <2>1, ExitTypes
<1>10. CASE ReadAll
  <2>1. settings.view_profile \in Profiles \cup {NoProfile}
    BY <1>0 DEF Setting
  <2>2. template' \in Content
    BY <1>0, <1>10, ContentTypes DEF ReadAll, TypeOK
  <2> QED
    BY <1>0, <1>10, <2>1, <2>2 DEF ReadAll, TypeOK, Labels
<1>11. CASE ReadFails
  <2>1. Exit /\ UNCHANGED diskVars /\ configured' \in BOOLEAN
    BY <1>0, <1>11 DEF ReadFails, TypeOK
  <2> QED
    BY <1>0, <2>1, ExitTypes
<1>12. CASE OpenConfig
  <2>1. gen' \in [Profiles -> Content]
    BY <1>0, <1>12, ContentTypes DEF OpenConfig, TypeOK
  <2> QED
    BY <1>0, <1>12, <2>1 DEF OpenConfig, TypeOK, Labels
<1>13. CASE WriteConfig
  <2>1. profile # << >> /\ ValidProfiles(profile) /\ i \in 0 .. Len(profile)-1 /\ HasOpt(template)
    BY <1>0, <1>13 DEF WriteConfig, SessionInv, Toward, TypeOK, Running, Applying
  <2>2. profile \in ProfileConfs
    BY <1>0, <2>1 DEF TypeOK
  <2>3. Generated(i) \in Content
    BY <1>0, <2>1, <2>2, GeneratedTypes DEF TypeOK
  <2>4. gen' \in [Profiles -> Content]
    BY <1>0, <1>13, <2>3 DEF WriteConfig, TypeOK
  <2>5. i' \in 0 .. MaxProfiles
    BY <1>0, <1>13, <2>1, ProfileCount DEF WriteConfig, TypeOK
  <2> QED
    BY <1>0, <1>13, <2>4, <2>5 DEF WriteConfig, TypeOK, Labels
<1>14. CASE GenerateFails
  <2>1. Exit /\ UNCHANGED diskVars /\ configured' \in BOOLEAN
    BY <1>0, <1>14 DEF GenerateFails, TypeOK
  <2> QED
    BY <1>0, <2>1, ExitTypes
<1>15. CASE GenerateEnds
  BY <1>0, <1>15, ContentTypes DEF GenerateEnds, TypeOK, Labels
<1>16. CASE ViewHolds
  BY <1>0, <1>16, ContentTypes DEF ViewHolds, TypeOK, Labels
<1>17. CASE ViewReset
  <2>1. [settings EXCEPT !["view_profile"] = NoProfile] \in Setting
    BY <1>0, SettingTypes DEF NoProfile
  <2>2. write_conf_sec("view_profile", NoProfile, "app_init", "failed")
    BY <1>17 DEF ViewReset
  <2>3. "app_init" \in Labels /\ "failed" \in Labels
    BY DEF Labels
  <2>4. settings' \in Setting /\ call' \in CallType /\ pc' \in Labels
    BY <1>0, <2>1, <2>2, <2>3, WriteTypes
  <2> QED
    BY <1>0, <1>17, <2>4 DEF ViewReset, TypeOK, CallType, NoProfile
<1>18. CASE app_init
  BY <1>0, <1>18, ContentTypes DEF app_init, TypeOK, Labels
<1>19. CASE Enter
  <2>1. menu_index' \in Profiles
    BY <1>0, <1>19, ProfileCount DEF Enter, TypeOK, Profiles
  <2> QED
    BY <1>0, <1>19, <2>1 DEF Enter, TypeOK, Labels
<1>20. CASE Backup
  BY <1>0, <1>20, ContentTypes DEF Backup, TypeOK, Labels
<1>21. CASE BackupFails
  BY <1>0, <1>21, ContentTypes DEF BackupFails, TypeOK, Labels
<1>22. CASE OpenCopy
  BY <1>0, <1>22, ContentTypes DEF OpenCopy, TypeOK, Labels
<1>23. CASE CopyAdvances
  BY <1>0, <1>23, ContentTypes DEF CopyAdvances, TypeOK, Labels
<1>24. CASE CopyEnds
  BY <1>0, <1>24, ContentTypes DEF CopyEnds, TypeOK, Labels
<1>25. CASE CopyFails
  BY <1>0, <1>25, ContentTypes DEF CopyFails, TypeOK, Labels
<1>26. CASE SaveView
  <2>1. [settings EXCEPT !["view_profile"] = menu_index] \in Setting
    BY <1>0, SettingTypes DEF NoProfile
  <2>2. write_conf_sec("view_profile", menu_index, "compare", "not_applied")
    BY <1>26 DEF SaveView
  <2>3. "compare" \in Labels /\ "not_applied" \in Labels
    BY DEF Labels
  <2>4. settings' \in Setting /\ call' \in CallType /\ pc' \in Labels
    BY <1>0, <2>1, <2>2, <2>3, WriteTypes
  <2> QED
    BY <1>0, <1>26, <2>4 DEF SaveView, TypeOK, CallType, NoProfile
<1>27. CASE Matches
  BY <1>0, <1>27, ContentTypes DEF Matches, TypeOK, Labels
<1>28. CASE Differs
  <2>1. [settings EXCEPT !["view_profile"] = NoProfile] \in Setting
    BY <1>0, SettingTypes DEF NoProfile
  <2>2. write_conf_sec("view_profile", NoProfile, "not_applied", "not_applied")
    BY <1>28 DEF Differs
  <2>3. "not_applied" \in Labels /\ "not_applied" \in Labels
    BY DEF Labels
  <2>4. settings' \in Setting /\ call' \in CallType /\ pc' \in Labels
    BY <1>0, <2>1, <2>2, <2>3, WriteTypes
  <2> QED
    BY <1>0, <1>28, <2>4 DEF Differs, TypeOK, CallType, NoProfile
<1>29. CASE SaveAgain
  <2>1. [settings EXCEPT !["view_profile"] = menu_index] \in Setting
    BY <1>0, SettingTypes DEF NoProfile
  <2>2. write_conf_sec("view_profile", menu_index, "applied", "not_applied")
    BY <1>29 DEF SaveAgain
  <2>3. "applied" \in Labels /\ "not_applied" \in Labels
    BY DEF Labels
  <2>4. settings' \in Setting /\ call' \in CallType /\ pc' \in Labels
    BY <1>0, <2>1, <2>2, <2>3, WriteTypes
  <2> QED
    BY <1>0, <1>29, <2>4 DEF SaveAgain, TypeOK, CallType, NoProfile
<1>30. CASE NotApplied
  BY <1>0, <1>30, ContentTypes DEF NotApplied, TypeOK, Labels
<1>31. CASE Applied
  <2>1. view_profile' \in Profiles \cup {NoProfile} /\ warned' \in BOOLEAN /\ pc' \in Labels
    BY <1>0, <1>31 DEF Applied, Labels
  <2> QED
    BY <1>0, <1>31, <2>1 DEF Applied, TypeOK
<1>32. CASE PrintSettings
  <2>1. settings' \in Setting /\ pc' \in Labels
    BY <1>0, <1>32, SettingTypes DEF PrintSettings, CallType
  <2>2. call' \in CallType
    BY <1>32, SettingTypes DEF PrintSettings, CallType, Labels
  <2> QED
    BY <1>0, <1>32, <2>1, <2>2 DEF PrintSettings, TypeOK, CallType
<1>33. CASE Quit
  <2>1. Exit /\ UNCHANGED diskVars /\ configured' \in BOOLEAN
    BY <1>0, <1>33 DEF Quit, TypeOK
  <2> QED
    BY <1>0, <2>1, ExitTypes
<1>34. CASE Crash
  <2>1. Exit /\ UNCHANGED diskVars /\ configured' \in BOOLEAN
    BY <1>0, <1>34 DEF Crash, TypeOK
  <2> QED
    BY <1>0, <2>1, ExitTypes
<1>35. CASE EditProfiles
  BY <1>0, <1>35, ContentTypes DEF EditProfiles, TypeOK, Labels
<1>36. CASE Repair
  BY <1>0, <1>36, ContentTypes DEF Repair, TypeOK, Labels
<1>37. CASE UNCHANGED vars
  BY <1>0, <1>37, ContentTypes DEF vars, TypeOK, Labels
<1> QED
  BY <1>1, <1>2, <1>3, <1>4, <1>5, <1>6, <1>7, <1>8, <1>9, <1>10, <1>11, <1>12,
     <1>13, <1>14, <1>15, <1>16, <1>17, <1>18, <1>19, <1>20, <1>21, <1>22, <1>23, <1>24,
     <1>25, <1>26, <1>27, <1>28, <1>29, <1>30, <1>31, <1>32, <1>33, <1>34, <1>35, <1>36,
     <1>37
     DEF Next, StartupStep, ApplyStep

-----------------------------------------------------------------------------
(* Each part of the invariant, step by step.                                *)

LEMMA SessionStep == IInv /\ [Next]_vars => SessionInv'
<1> SUFFICES ASSUME IInv, [Next]_vars PROVE SessionInv'
  OBVIOUS
<1> USE DEF At, Goto, Exit, diskVars, memVars, historyVars, applyMem, NoCall, Toward, Before, Running, Applying
<1>0. TypeOK /\ SessionInv
  BY DEF IInv
<1>c. i \in 0 .. Len(profile) /\ Len(profile) \in Nat /\ Len(<< >>) = 0
  <2>1. Len(profile) \in 0 .. MaxProfiles /\ MaxProfiles \in Nat
    BY <1>0, ProfileCount DEF TypeOK
  <2> QED
    BY <1>0, <2>1 DEF SessionInv
<1>1. CASE Start
  BY <1>0, <1>1, <1>c DEF Start, SessionInv
<1>2. CASE CheckFails
  <2>1. profile' = << >> /\ i' = 0 /\ pc' = "off"
    BY <1>2 DEF CheckFails
  <2> QED
    BY <1>c, <2>1 DEF SessionInv
<1>3. CASE ReadSettings
  BY <1>0, <1>3, <1>c DEF ReadSettings, SessionInv
<1>4. CASE AskPath
  BY <1>0, <1>4, <1>c DEF AskPath, write_conf_sec, SessionInv
<1>5. CASE AskProgram
  BY <1>0, <1>5, <1>c DEF AskProgram, write_conf_sec, SessionInv
<1>6. CASE AskChoice
  BY <1>0, <1>6, <1>c DEF AskChoice, write_conf_sec, SessionInv
<1>7. CASE WizardDone
  BY <1>0, <1>7, <1>c DEF WizardDone, SessionInv
<1>8. CASE WizardEnds
  <2>1. profile' = << >> /\ i' = 0 /\ pc' = "off"
    BY <1>8 DEF WizardEnds
  <2> QED
    BY <1>c, <2>1 DEF SessionInv
<1>9. CASE Fails
  <2>1. profile' = << >> /\ i' = 0 /\ pc' = "off"
    BY <1>9 DEF Fails
  <2> QED
    BY <1>c, <2>1 DEF SessionInv
<1>10. CASE ReadAll
  <2>1. profile = << >>
    BY <1>0, <1>10 DEF ReadAll, SessionInv
  <2>2. ValidProfiles(profile') /\ Len(profile') \in Nat
    BY <1>0, <1>10, ProfileCount DEF ReadAll, ValidProfiles, TypeOK
  <2> QED
    BY <1>0, <1>c, <1>10, <2>1, <2>2 DEF ReadAll, SessionInv
<1>11. CASE ReadFails
  <2>1. profile' = << >> /\ i' = 0 /\ pc' = "off"
    BY <1>11 DEF ReadFails
  <2> QED
    BY <1>c, <2>1 DEF SessionInv
<1>12. CASE OpenConfig
  BY <1>0, <1>12, <1>c DEF OpenConfig, SessionInv
<1>13. CASE WriteConfig
  BY <1>0, <1>13, <1>c DEF WriteConfig, SessionInv
<1>14. CASE GenerateFails
  <2>1. profile' = << >> /\ i' = 0 /\ pc' = "off"
    BY <1>14 DEF GenerateFails
  <2> QED
    BY <1>c, <2>1 DEF SessionInv
<1>15. CASE GenerateEnds
  BY <1>0, <1>15, <1>c DEF GenerateEnds, SessionInv
<1>16. CASE ViewHolds
  BY <1>0, <1>16, <1>c DEF ViewHolds, SessionInv
<1>17. CASE ViewReset
  BY <1>0, <1>17, <1>c DEF ViewReset, write_conf_sec, SessionInv
<1>18. CASE app_init
  BY <1>0, <1>18, <1>c DEF app_init, SessionInv
<1>19. CASE Enter
  BY <1>0, <1>19, <1>c DEF Enter, SessionInv
<1>20. CASE Backup
  BY <1>0, <1>20, <1>c DEF Backup, SessionInv
<1>21. CASE BackupFails
  BY <1>0, <1>21, <1>c DEF BackupFails, SessionInv
<1>22. CASE OpenCopy
  BY <1>0, <1>22, <1>c DEF OpenCopy, SessionInv
<1>23. CASE CopyAdvances
  BY <1>0, <1>23, <1>c DEF CopyAdvances, SessionInv
<1>24. CASE CopyEnds
  BY <1>0, <1>24, <1>c DEF CopyEnds, SessionInv
<1>25. CASE CopyFails
  BY <1>0, <1>25, <1>c DEF CopyFails, SessionInv
<1>26. CASE SaveView
  BY <1>0, <1>26, <1>c DEF SaveView, write_conf_sec, SessionInv
<1>27. CASE Matches
  BY <1>0, <1>27, <1>c DEF Matches, SessionInv
<1>28. CASE Differs
  BY <1>0, <1>28, <1>c DEF Differs, write_conf_sec, SessionInv
<1>29. CASE SaveAgain
  BY <1>0, <1>29, <1>c DEF SaveAgain, write_conf_sec, SessionInv
<1>30. CASE NotApplied
  BY <1>0, <1>30, <1>c DEF NotApplied, SessionInv
<1>31. CASE Applied
  BY <1>0, <1>31, <1>c DEF Applied, SessionInv
<1>32. CASE PrintSettings
  BY <1>0, <1>32, <1>c DEF PrintSettings, SessionInv
<1>33. CASE Quit
  <2>1. profile' = << >> /\ i' = 0 /\ pc' = "off"
    BY <1>33 DEF Quit
  <2> QED
    BY <1>c, <2>1 DEF SessionInv
<1>34. CASE Crash
  <2>1. profile' = << >> /\ i' = 0 /\ pc' = "off"
    BY <1>34 DEF Crash
  <2> QED
    BY <1>c, <2>1 DEF SessionInv
<1>35. CASE EditProfiles
  BY <1>0, <1>35, <1>c DEF EditProfiles, SessionInv
<1>36. CASE Repair
  BY <1>0, <1>36, <1>c DEF Repair, SessionInv
<1>37. CASE UNCHANGED vars
  BY <1>0, <1>37, <1>c DEF vars, SessionInv
<1> QED
  BY <1>1, <1>2, <1>3, <1>4, <1>5, <1>6, <1>7, <1>8, <1>9, <1>10, <1>11, <1>12,
     <1>13, <1>14, <1>15, <1>16, <1>17, <1>18, <1>19, <1>20, <1>21, <1>22, <1>23, <1>24,
     <1>25, <1>26, <1>27, <1>28, <1>29, <1>30, <1>31, <1>32, <1>33, <1>34, <1>35, <1>36,
     <1>37
     DEF Next, StartupStep, ApplyStep

LEMMA BackupStep == IInv /\ [Next]_vars => BackupInv'
<1> SUFFICES ASSUME IInv, [Next]_vars PROVE BackupInv'
  OBVIOUS
<1> USE DEF At, Goto, Exit, diskVars, memVars, historyVars, applyMem, NoCall
<1>0. BackupInv /\ SessionInv
  BY DEF IInv
<1>m. Original # Missing /\ Original.kind # "missing" /\ Missing.kind = "missing"
  BY DEF Original, Missing
<1>1. CASE Start
  BY <1>0, <1>1, <1>m DEF Start, BackupInv, OriginalSafe
<1>2. CASE CheckFails
  BY <1>0, <1>2, <1>m DEF CheckFails, BackupInv, OriginalSafe
<1>3. CASE ReadSettings
  BY <1>0, <1>3, <1>m DEF ReadSettings, BackupInv, OriginalSafe
<1>4. CASE AskPath
  BY <1>0, <1>4, <1>m DEF AskPath, write_conf_sec, BackupInv, OriginalSafe
<1>5. CASE AskProgram
  BY <1>0, <1>5, <1>m DEF AskProgram, write_conf_sec, BackupInv, OriginalSafe
<1>6. CASE AskChoice
  BY <1>0, <1>6, <1>m DEF AskChoice, write_conf_sec, BackupInv, OriginalSafe
<1>7. CASE WizardDone
  BY <1>0, <1>7, <1>m DEF WizardDone, BackupInv, OriginalSafe
<1>8. CASE WizardEnds
  BY <1>0, <1>8, <1>m DEF WizardEnds, BackupInv, OriginalSafe
<1>9. CASE Fails
  BY <1>0, <1>9, <1>m DEF Fails, BackupInv, OriginalSafe
<1>10. CASE ReadAll
  BY <1>0, <1>10, <1>m DEF ReadAll, BackupInv, OriginalSafe
<1>11. CASE ReadFails
  BY <1>0, <1>11, <1>m DEF ReadFails, BackupInv, OriginalSafe
<1>12. CASE OpenConfig
  BY <1>0, <1>12, <1>m DEF OpenConfig, BackupInv, OriginalSafe
<1>13. CASE WriteConfig
  BY <1>0, <1>13, <1>m DEF WriteConfig, BackupInv, OriginalSafe
<1>14. CASE GenerateFails
  BY <1>0, <1>14, <1>m DEF GenerateFails, BackupInv, OriginalSafe
<1>15. CASE GenerateEnds
  BY <1>0, <1>15, <1>m DEF GenerateEnds, BackupInv, OriginalSafe
<1>16. CASE ViewHolds
  BY <1>0, <1>16, <1>m DEF ViewHolds, BackupInv, OriginalSafe
<1>17. CASE ViewReset
  BY <1>0, <1>17, <1>m DEF ViewReset, write_conf_sec, BackupInv, OriginalSafe
<1>18. CASE app_init
  BY <1>0, <1>18, <1>m DEF app_init, BackupInv, OriginalSafe
<1>19. CASE Enter
  BY <1>0, <1>19, <1>m DEF Enter, BackupInv, OriginalSafe
<1>20. CASE Backup
  BY <1>0, <1>20, <1>m DEF Backup, BackupInv, OriginalSafe
<1>21. CASE BackupFails
  BY <1>0, <1>21, <1>m DEF BackupFails, BackupInv, OriginalSafe
<1>22. CASE OpenCopy
  BY <1>0, <1>22, <1>m DEF OpenCopy, BackupInv, OriginalSafe
<1>23. CASE CopyAdvances
  BY <1>0, <1>23, <1>m DEF CopyAdvances, BackupInv, OriginalSafe
<1>24. CASE CopyEnds
  BY <1>0, <1>24, <1>m DEF CopyEnds, BackupInv, OriginalSafe
<1>25. CASE CopyFails
  BY <1>0, <1>25, <1>m DEF CopyFails, BackupInv, OriginalSafe
<1>26. CASE SaveView
  BY <1>0, <1>26, <1>m DEF SaveView, write_conf_sec, BackupInv, OriginalSafe
<1>27. CASE Matches
  BY <1>0, <1>27, <1>m DEF Matches, BackupInv, OriginalSafe
<1>28. CASE Differs
  BY <1>0, <1>28, <1>m DEF Differs, write_conf_sec, BackupInv, OriginalSafe
<1>29. CASE SaveAgain
  BY <1>0, <1>29, <1>m DEF SaveAgain, write_conf_sec, BackupInv, OriginalSafe
<1>30. CASE NotApplied
  BY <1>0, <1>30, <1>m DEF NotApplied, BackupInv, OriginalSafe
<1>31. CASE Applied
  BY <1>0, <1>31, <1>m DEF Applied, BackupInv, OriginalSafe
<1>32. CASE PrintSettings
  <2>1. pc' \notin {"open_copy", "copy"}
    BY <1>0, <1>32 DEF PrintSettings, SessionInv, Before
  <2> QED
    BY <1>0, <1>32, <2>1 DEF PrintSettings, BackupInv, OriginalSafe
<1>33. CASE Quit
  BY <1>0, <1>33, <1>m DEF Quit, BackupInv, OriginalSafe
<1>34. CASE Crash
  BY <1>0, <1>34, <1>m DEF Crash, BackupInv, OriginalSafe
<1>35. CASE EditProfiles
  BY <1>0, <1>35, <1>m DEF EditProfiles, BackupInv, OriginalSafe
<1>36. CASE Repair
  BY <1>0, <1>36, <1>m DEF Repair, BackupInv, OriginalSafe
<1>37. CASE UNCHANGED vars
  BY <1>0, <1>37, <1>m DEF vars, BackupInv, OriginalSafe
<1> QED
  BY <1>1, <1>2, <1>3, <1>4, <1>5, <1>6, <1>7, <1>8, <1>9, <1>10, <1>11, <1>12,
     <1>13, <1>14, <1>15, <1>16, <1>17, <1>18, <1>19, <1>20, <1>21, <1>22, <1>23, <1>24,
     <1>25, <1>26, <1>27, <1>28, <1>29, <1>30, <1>31, <1>32, <1>33, <1>34, <1>35, <1>36,
     <1>37
     DEF Next, StartupStep, ApplyStep

LEMMA PathStep == IInv /\ [Next]_vars => PathInv'
<1> SUFFICES ASSUME IInv, [Next]_vars PROVE PathInv'
  OBVIOUS
<1> USE DEF At, Goto, Exit, diskVars, memVars, historyVars, applyMem, NoCall
<1>0. PathInv /\ SessionInv /\ TypeOK
  BY DEF IInv
<1>s. settings \in Setting /\ call.new \in Setting
  BY <1>0 DEF TypeOK
<1>1. CASE Start
  BY <1>0, <1>1, <1>s DEF Start, PathInv, Done, Defaults, HalfWritten
<1>2. CASE CheckFails
  BY <1>0, <1>2, <1>s DEF CheckFails, PathInv, Done, Defaults, HalfWritten
<1>3. CASE ReadSettings
  BY <1>0, <1>3, <1>s DEF ReadSettings, PathInv, Done, Defaults, HalfWritten
<1>4. CASE AskPath
  <2>1. PICK path \in Paths \ {"none"} : write_conf_sec("zapret_path", path, "ask_program", "failed")
    BY <1>4 DEF AskPath
  <2> DEFINE new == [settings EXCEPT !["zapret_path"] = path]
  <2>2. Done(new) /\ new.zapret_path = path
          /\ new.program_path = settings.program_path
    BY <1>0, <1>s, <1>4 DEF AskPath, PathInv, Done, Setting
  <2> HIDE DEF new
  <2>3. call'.new = new \/ call' = call
    BY <2>1, WriteCall DEF new
  <2>4. settings' = Defaults \/ settings' = settings
    BY <2>1 DEF write_conf_sec
  <2>5. Done(Defaults)
    BY DEF Done, Defaults
  <2> QED
    BY <1>0, <1>s, <1>4, <2>1, <2>2, <2>3, <2>4, <2>5 DEF AskPath, write_conf_sec, PathInv, Done
<1>5. CASE AskProgram
  <2>1. write_conf_sec("program_path", TRUE, "ask_choice", "failed")
    BY <1>5 DEF AskProgram
  <2> DEFINE new == [settings EXCEPT !["program_path"] = TRUE]
  <2>2. Done(new) /\ new.zapret_path = settings.zapret_path
          /\ new.program_path = TRUE
    BY <1>0, <1>s, <1>5 DEF AskProgram, PathInv, Done, Setting
  <2> HIDE DEF new
  <2>3. call'.new = new \/ call' = call
    BY <2>1, WriteCall DEF new
  <2>4. settings' = Defaults \/ settings' = settings
    BY <2>1 DEF write_conf_sec
  <2>5. Done(Defaults)
    BY DEF Done, Defaults
  <2> QED
    BY <1>0, <1>s, <1>5, <2>1, <2>2, <2>3, <2>4, <2>5 DEF AskProgram, write_conf_sec, PathInv, Done
<1>6. CASE AskChoice
  <2>1. PICK next \in {"wizard_done", "wizard_ends"} : write_conf_sec("first_start", FALSE, next, "failed")
    BY <1>6 DEF AskChoice
  <2> DEFINE new == [settings EXCEPT !["first_start"] = FALSE]
  <2>2. Done(new) /\ new.zapret_path = settings.zapret_path
          /\ new.program_path = settings.program_path
    BY <1>0, <1>s, <1>6 DEF AskChoice, PathInv, Done, Setting
  <2> HIDE DEF new
  <2>3. call'.new = new \/ call' = call
    BY <2>1, WriteCall DEF new
  <2>4. settings' = Defaults \/ settings' = settings
    BY <2>1 DEF write_conf_sec
  <2>5. Done(Defaults)
    BY DEF Done, Defaults
  <2> QED
    BY <1>0, <1>s, <1>6, <2>1, <2>2, <2>3, <2>4, <2>5 DEF AskChoice, write_conf_sec, PathInv, Done
<1>7. CASE WizardDone
  BY <1>0, <1>7, <1>s DEF WizardDone, PathInv, Done, Defaults, HalfWritten
<1>8. CASE WizardEnds
  BY <1>0, <1>8, <1>s DEF WizardEnds, PathInv, Done, Defaults, HalfWritten
<1>9. CASE Fails
  BY <1>0, <1>9, <1>s DEF Fails, PathInv, Done, Defaults, HalfWritten
<1>10. CASE ReadAll
  BY <1>0, <1>10, <1>s DEF ReadAll, PathInv, Done, Defaults, HalfWritten
<1>11. CASE ReadFails
  BY <1>0, <1>11, <1>s DEF ReadFails, PathInv, Done, Defaults, HalfWritten
<1>12. CASE OpenConfig
  BY <1>0, <1>12, <1>s DEF OpenConfig, PathInv, Done, Defaults, HalfWritten
<1>13. CASE WriteConfig
  BY <1>0, <1>13, <1>s DEF WriteConfig, PathInv, Done, Defaults, HalfWritten
<1>14. CASE GenerateFails
  BY <1>0, <1>14, <1>s DEF GenerateFails, PathInv, Done, Defaults, HalfWritten
<1>15. CASE GenerateEnds
  BY <1>0, <1>15, <1>s DEF GenerateEnds, PathInv, Done, Defaults, HalfWritten
<1>16. CASE ViewHolds
  BY <1>0, <1>16, <1>s DEF ViewHolds, PathInv, Done, Defaults, HalfWritten
<1>17. CASE ViewReset
  <2>1. write_conf_sec("view_profile", NoProfile, "app_init", "failed")
    BY <1>17 DEF ViewReset
  <2> DEFINE new == [settings EXCEPT !["view_profile"] = NoProfile]
  <2>2. Done(new) /\ new.zapret_path = settings.zapret_path
          /\ new.program_path = settings.program_path
    BY <1>0, <1>s, <1>17 DEF ViewReset, PathInv, Done, Setting
  <2> HIDE DEF new
  <2>3. call'.new = new \/ call' = call
    BY <2>1, WriteCall DEF new
  <2>4. settings' = Defaults \/ settings' = settings
    BY <2>1 DEF write_conf_sec
  <2>5. Done(Defaults)
    BY DEF Done, Defaults
  <2> QED
    BY <1>0, <1>s, <1>17, <2>1, <2>2, <2>3, <2>4, <2>5 DEF ViewReset, write_conf_sec, PathInv, Done
<1>18. CASE app_init
  BY <1>0, <1>18, <1>s DEF app_init, PathInv, Done, Defaults, HalfWritten
<1>19. CASE Enter
  BY <1>0, <1>19, <1>s DEF Enter, PathInv, Done, Defaults, HalfWritten
<1>20. CASE Backup
  BY <1>0, <1>20, <1>s DEF Backup, PathInv, Done, Defaults, HalfWritten
<1>21. CASE BackupFails
  BY <1>0, <1>21, <1>s DEF BackupFails, PathInv, Done, Defaults, HalfWritten
<1>22. CASE OpenCopy
  BY <1>0, <1>22, <1>s DEF OpenCopy, PathInv, Done, Defaults, HalfWritten
<1>23. CASE CopyAdvances
  BY <1>0, <1>23, <1>s DEF CopyAdvances, PathInv, Done, Defaults, HalfWritten
<1>24. CASE CopyEnds
  BY <1>0, <1>24, <1>s DEF CopyEnds, PathInv, Done, Defaults, HalfWritten
<1>25. CASE CopyFails
  BY <1>0, <1>25, <1>s DEF CopyFails, PathInv, Done, Defaults, HalfWritten
<1>26. CASE SaveView
  <2>1. write_conf_sec("view_profile", menu_index, "compare", "not_applied")
    BY <1>26 DEF SaveView
  <2> DEFINE new == [settings EXCEPT !["view_profile"] = menu_index]
  <2>2. Done(new) /\ new.zapret_path = settings.zapret_path
          /\ new.program_path = settings.program_path
    BY <1>0, <1>s, <1>26 DEF SaveView, PathInv, Done, Setting
  <2> HIDE DEF new
  <2>3. call'.new = new \/ call' = call
    BY <2>1, WriteCall DEF new
  <2>4. settings' = Defaults \/ settings' = settings
    BY <2>1 DEF write_conf_sec
  <2>5. Done(Defaults)
    BY DEF Done, Defaults
  <2> QED
    BY <1>0, <1>s, <1>26, <2>1, <2>2, <2>3, <2>4, <2>5 DEF SaveView, write_conf_sec, PathInv, Done
<1>27. CASE Matches
  BY <1>0, <1>27, <1>s DEF Matches, PathInv, Done, Defaults, HalfWritten
<1>28. CASE Differs
  <2>1. write_conf_sec("view_profile", NoProfile, "not_applied", "not_applied")
    BY <1>28 DEF Differs
  <2> DEFINE new == [settings EXCEPT !["view_profile"] = NoProfile]
  <2>2. Done(new) /\ new.zapret_path = settings.zapret_path
          /\ new.program_path = settings.program_path
    BY <1>0, <1>s, <1>28 DEF Differs, PathInv, Done, Setting
  <2> HIDE DEF new
  <2>3. call'.new = new \/ call' = call
    BY <2>1, WriteCall DEF new
  <2>4. settings' = Defaults \/ settings' = settings
    BY <2>1 DEF write_conf_sec
  <2>5. Done(Defaults)
    BY DEF Done, Defaults
  <2> QED
    BY <1>0, <1>s, <1>28, <2>1, <2>2, <2>3, <2>4, <2>5 DEF Differs, write_conf_sec, PathInv, Done
<1>29. CASE SaveAgain
  <2>1. write_conf_sec("view_profile", menu_index, "applied", "not_applied")
    BY <1>29 DEF SaveAgain
  <2> DEFINE new == [settings EXCEPT !["view_profile"] = menu_index]
  <2>2. Done(new) /\ new.zapret_path = settings.zapret_path
          /\ new.program_path = settings.program_path
    BY <1>0, <1>s, <1>29 DEF SaveAgain, PathInv, Done, Setting
  <2> HIDE DEF new
  <2>3. call'.new = new \/ call' = call
    BY <2>1, WriteCall DEF new
  <2>4. settings' = Defaults \/ settings' = settings
    BY <2>1 DEF write_conf_sec
  <2>5. Done(Defaults)
    BY DEF Done, Defaults
  <2> QED
    BY <1>0, <1>s, <1>29, <2>1, <2>2, <2>3, <2>4, <2>5 DEF SaveAgain, write_conf_sec, PathInv, Done
<1>30. CASE NotApplied
  BY <1>0, <1>30, <1>s DEF NotApplied, PathInv, Done, Defaults, HalfWritten
<1>31. CASE Applied
  BY <1>0, <1>31, <1>s DEF Applied, PathInv, Done, Defaults, HalfWritten
<1>32. CASE PrintSettings
  BY <1>0, <1>32, <1>s DEF PrintSettings, PathInv, Done, Defaults, HalfWritten
<1>33. CASE Quit
  BY <1>0, <1>33, <1>s DEF Quit, PathInv, Done, Defaults, HalfWritten
<1>34. CASE Crash
  BY <1>0, <1>34, <1>s DEF Crash, PathInv, Done, Defaults, HalfWritten
<1>35. CASE EditProfiles
  BY <1>0, <1>35, <1>s DEF EditProfiles, PathInv, Done, Defaults, HalfWritten
<1>36. CASE Repair
  BY <1>0, <1>36, <1>s DEF Repair, PathInv, Done, Defaults, HalfWritten
<1>37. CASE UNCHANGED vars
  BY <1>0, <1>37, <1>s DEF vars, PathInv, Done, Defaults, HalfWritten
<1> QED
  BY <1>1, <1>2, <1>3, <1>4, <1>5, <1>6, <1>7, <1>8, <1>9, <1>10, <1>11, <1>12,
     <1>13, <1>14, <1>15, <1>16, <1>17, <1>18, <1>19, <1>20, <1>21, <1>22, <1>23, <1>24,
     <1>25, <1>26, <1>27, <1>28, <1>29, <1>30, <1>31, <1>32, <1>33, <1>34, <1>35, <1>36,
     <1>37
     DEF Next, StartupStep, ApplyStep

LEMMA FreshStep == IInv /\ [Next]_vars => FreshInv'
<1> SUFFICES ASSUME IInv, [Next]_vars PROVE FreshInv'
  OBVIOUS
<1> USE DEF At, Goto, Exit, diskVars, memVars, historyVars, applyMem, NoCall, Toward, Before, Running, Applying
<1>0. FreshInv /\ SessionInv /\ TypeOK
  BY DEF IInv
<1>c. i \in 0 .. Len(profile) /\ Len(profile) \in Nat /\ profile \in Seq(Section)
        /\ Len(profile) <= MaxProfiles /\ MaxProfiles \in Nat /\ Len(<< >>) = 0
  <2>1. Len(profile) \in 0 .. MaxProfiles /\ MaxProfiles \in Nat /\ profile \in Seq(Section)
    BY <1>0, ProfileCount DEF TypeOK
  <2> QED
    BY <1>0, <2>1 DEF SessionInv
<1>1. CASE Start
  BY <1>0, <1>1, <1>c DEF Start, FreshInv, FreshTo, Generated, SessionInv
<1>2. CASE CheckFails
  BY <1>2 DEF CheckFails, FreshInv
<1>3. CASE ReadSettings
  BY <1>0, <1>3, <1>c DEF ReadSettings, FreshInv, FreshTo, Generated, SessionInv
<1>4. CASE AskPath
  BY <1>0, <1>4, <1>c DEF AskPath, write_conf_sec, FreshInv, FreshTo, Generated, SessionInv
<1>5. CASE AskProgram
  BY <1>0, <1>5, <1>c DEF AskProgram, write_conf_sec, FreshInv, FreshTo, Generated, SessionInv
<1>6. CASE AskChoice
  BY <1>0, <1>6, <1>c DEF AskChoice, write_conf_sec, FreshInv, FreshTo, Generated, SessionInv
<1>7. CASE WizardDone
  BY <1>0, <1>7, <1>c DEF WizardDone, FreshInv, FreshTo, Generated, SessionInv
<1>8. CASE WizardEnds
  BY <1>8 DEF WizardEnds, FreshInv
<1>9. CASE Fails
  BY <1>9 DEF Fails, FreshInv
<1>10. CASE ReadAll
  <2>1. i = 0 /\ pc' = "generate" /\ i' = i
    BY <1>0, <1>c, <1>10 DEF ReadAll, SessionInv
  <2> QED
    BY <2>1 DEF FreshInv, FreshTo
<1>11. CASE ReadFails
  BY <1>11 DEF ReadFails, FreshInv
<1>12. CASE OpenConfig
  <2>1. i \in 0 .. Len(profile)-1 /\ profile # << >> /\ ValidProfiles(profile)
    BY <1>0, <1>c, <1>12 DEF OpenConfig, SessionInv
  <2>2. profile[i + 1].id = i
    BY <1>c, <2>1 DEF ValidProfiles
  <2>3. \A k \in 0 .. i-1 : gen'[k] = gen[k]
    BY <1>0, <1>c, <1>12, <2>1, <2>2 DEF OpenConfig, TypeOK, Profiles
  <2>4. FreshTo(i) /\ pc' = "write_config" /\ UNCHANGED <<i, template, profile>>
    BY <1>0, <1>12 DEF OpenConfig, FreshInv
  <2> QED
    BY <2>3, <2>4 DEF FreshInv, FreshTo, Generated
<1>13. CASE WriteConfig
  <2>1. i \in 0 .. Len(profile)-1 /\ profile # << >> /\ ValidProfiles(profile)
    BY <1>0, <1>c, <1>13 DEF WriteConfig, SessionInv
  <2>2. profile[i + 1].id = i /\ i \in Profiles
    BY <1>c, <2>1 DEF ValidProfiles, Profiles
  <2>3. gen' = [gen EXCEPT ![i] = Generated(i)]
    BY <1>13, <2>2 DEF WriteConfig
  <2>4. gen'[i] = Generated(i) /\ \A k \in 0 .. i-1 : gen'[k] = gen[k]
    BY <1>0, <1>c, <2>1, <2>2, <2>3 DEF TypeOK, Profiles
  <2>5. FreshTo(i) /\ pc' = "generate" /\ i' = i + 1 /\ UNCHANGED <<template, profile>>
    BY <1>0, <1>13 DEF WriteConfig, FreshInv
  <2>6. \A k \in 0 .. i'-1 : gen'[k] = Generated(k)
    BY <1>c, <2>1, <2>4, <2>5 DEF FreshTo
  <2> QED
    BY <2>5, <2>6 DEF FreshInv, FreshTo, Generated
<1>14. CASE GenerateFails
  BY <1>14 DEF GenerateFails, FreshInv
<1>15. CASE GenerateEnds
  BY <1>0, <1>15, <1>c DEF GenerateEnds, FreshInv, FreshTo, Generated, SessionInv
<1>16. CASE ViewHolds
  BY <1>0, <1>16, <1>c DEF ViewHolds, FreshInv, FreshTo, Generated, SessionInv
<1>17. CASE ViewReset
  BY <1>0, <1>17, <1>c DEF ViewReset, write_conf_sec, FreshInv, FreshTo, Generated, SessionInv
<1>18. CASE app_init
  BY <1>0, <1>18, <1>c DEF app_init, FreshInv, FreshTo, Generated, SessionInv
<1>19. CASE Enter
  BY <1>0, <1>19, <1>c DEF Enter, FreshInv, FreshTo, Generated, SessionInv
<1>20. CASE Backup
  BY <1>0, <1>20, <1>c DEF Backup, FreshInv, FreshTo, Generated, SessionInv
<1>21. CASE BackupFails
  BY <1>0, <1>21, <1>c DEF BackupFails, FreshInv, FreshTo, Generated, SessionInv
<1>22. CASE OpenCopy
  BY <1>0, <1>22, <1>c DEF OpenCopy, FreshInv, FreshTo, Generated, SessionInv
<1>23. CASE CopyAdvances
  BY <1>0, <1>23, <1>c DEF CopyAdvances, FreshInv, FreshTo, Generated, SessionInv
<1>24. CASE CopyEnds
  BY <1>0, <1>24, <1>c DEF CopyEnds, FreshInv, FreshTo, Generated, SessionInv
<1>25. CASE CopyFails
  BY <1>0, <1>25, <1>c DEF CopyFails, FreshInv, FreshTo, Generated, SessionInv
<1>26. CASE SaveView
  BY <1>0, <1>26, <1>c DEF SaveView, write_conf_sec, FreshInv, FreshTo, Generated, SessionInv
<1>27. CASE Matches
  BY <1>0, <1>27, <1>c DEF Matches, FreshInv, FreshTo, Generated, SessionInv
<1>28. CASE Differs
  BY <1>0, <1>28, <1>c DEF Differs, write_conf_sec, FreshInv, FreshTo, Generated, SessionInv
<1>29. CASE SaveAgain
  BY <1>0, <1>29, <1>c DEF SaveAgain, write_conf_sec, FreshInv, FreshTo, Generated, SessionInv
<1>30. CASE NotApplied
  BY <1>0, <1>30, <1>c DEF NotApplied, FreshInv, FreshTo, Generated, SessionInv
<1>31. CASE Applied
  BY <1>0, <1>31, <1>c DEF Applied, FreshInv, FreshTo, Generated, SessionInv
<1>32. CASE PrintSettings
  BY <1>0, <1>32, <1>c DEF PrintSettings, FreshInv, FreshTo, Generated, SessionInv
<1>33. CASE Quit
  BY <1>33 DEF Quit, FreshInv
<1>34. CASE Crash
  BY <1>34 DEF Crash, FreshInv
<1>35. CASE EditProfiles
  BY <1>0, <1>35, <1>c DEF EditProfiles, FreshInv, FreshTo, Generated, SessionInv
<1>36. CASE Repair
  BY <1>0, <1>36, <1>c DEF Repair, FreshInv, FreshTo, Generated, SessionInv
<1>37. CASE UNCHANGED vars
  BY <1>0, <1>37, <1>c DEF vars, FreshInv, FreshTo, Generated, SessionInv
<1> QED
  BY <1>1, <1>2, <1>3, <1>4, <1>5, <1>6, <1>7, <1>8, <1>9, <1>10, <1>11, <1>12,
     <1>13, <1>14, <1>15, <1>16, <1>17, <1>18, <1>19, <1>20, <1>21, <1>22, <1>23, <1>24,
     <1>25, <1>26, <1>27, <1>28, <1>29, <1>30, <1>31, <1>32, <1>33, <1>34, <1>35, <1>36,
     <1>37
     DEF Next, StartupStep, ApplyStep

LEMMA BracketStep == IInv /\ [Next]_vars => BracketInv'
<1> SUFFICES ASSUME IInv, [Next]_vars PROVE BracketInv'
  OBVIOUS
<1> USE DEF At, Goto, Exit, diskVars, memVars, historyVars, applyMem, NoCall, Toward, Before, Running, Applying
<1>0. BracketInv /\ SessionInv
  BY DEF IInv
<1>f. ASSUME Toward(Running), NEW k \in 0 .. Len(profile)-1
      PROVE  HasOpt(gen[k]) /\ gen[k].strategy = profile[k + 1].strategy
  <2>1. gen[k] = Generated(k) /\ HasOpt(template)
    BY <1>f DEF IInv, FreshInv, FreshTo, SessionInv, Toward
  <2> QED
    BY <2>1 DEF Generated, HasOpt
<1>1. CASE Start
  BY <1>0, <1>1 DEF Start, BracketInv, Shown, HasOpt, SessionInv
<1>2. CASE CheckFails
  BY <1>2 DEF CheckFails, BracketInv
<1>3. CASE ReadSettings
  BY <1>0, <1>3 DEF ReadSettings, BracketInv, Shown, HasOpt, SessionInv
<1>4. CASE AskPath
  BY <1>0, <1>4 DEF AskPath, write_conf_sec, BracketInv, Shown, HasOpt, SessionInv
<1>5. CASE AskProgram
  BY <1>0, <1>5 DEF AskProgram, write_conf_sec, BracketInv, Shown, HasOpt, SessionInv
<1>6. CASE AskChoice
  BY <1>0, <1>6 DEF AskChoice, write_conf_sec, BracketInv, Shown, HasOpt, SessionInv
<1>7. CASE WizardDone
  BY <1>0, <1>7 DEF WizardDone, BracketInv, Shown, HasOpt, SessionInv
<1>8. CASE WizardEnds
  BY <1>8 DEF WizardEnds, BracketInv
<1>9. CASE Fails
  BY <1>9 DEF Fails, BracketInv
<1>10. CASE ReadAll
  BY <1>0, <1>10 DEF ReadAll, BracketInv, Shown, HasOpt, SessionInv
<1>11. CASE ReadFails
  BY <1>11 DEF ReadFails, BracketInv
<1>12. CASE OpenConfig
  BY <1>0, <1>12 DEF OpenConfig, BracketInv, Shown, HasOpt, SessionInv
<1>13. CASE WriteConfig
  BY <1>0, <1>13 DEF WriteConfig, BracketInv, Shown, HasOpt, SessionInv
<1>14. CASE GenerateFails
  BY <1>14 DEF GenerateFails, BracketInv
<1>15. CASE GenerateEnds
  <2>1. pc' = "app_init" => view_profile' = NoProfile
    BY <1>15 DEF GenerateEnds
  <2> QED
    BY <1>15, <2>1 DEF GenerateEnds, BracketInv, Shown, NoProfile
<1>16. CASE ViewHolds
  <2>1. Toward(Running) /\ zconf = gen[view_profile] /\ UNCHANGED <<zconf, view_profile, profile>>
    BY <1>16 DEF ViewHolds
  <2>2. Shown'
    BY <1>f, <2>1 DEF Shown, HasOpt
  <2> QED
    BY <1>16, <2>2 DEF ViewHolds, BracketInv
<1>17. CASE ViewReset
  <2>1. view_profile' \notin 0 .. Len(profile')-1
    BY <1>17 DEF ViewReset, NoProfile
  <2> QED
    BY <1>17, <2>1 DEF ViewReset, write_conf_sec, BracketInv, Shown
<1>18. CASE app_init
  BY <1>0, <1>18 DEF app_init, BracketInv, Shown, HasOpt, SessionInv
<1>19. CASE Enter
  BY <1>0, <1>19 DEF Enter, BracketInv, Shown, HasOpt, SessionInv
<1>20. CASE Backup
  BY <1>0, <1>20 DEF Backup, BracketInv, Shown, HasOpt, SessionInv
<1>21. CASE BackupFails
  BY <1>0, <1>21 DEF BackupFails, BracketInv, Shown, HasOpt, SessionInv
<1>22. CASE OpenCopy
  BY <1>0, <1>22 DEF OpenCopy, BracketInv, Shown, HasOpt, SessionInv
<1>23. CASE CopyAdvances
  BY <1>0, <1>23 DEF CopyAdvances, BracketInv, Shown, HasOpt, SessionInv
<1>24. CASE CopyEnds
  BY <1>0, <1>24 DEF CopyEnds, BracketInv, Shown, HasOpt, SessionInv
<1>25. CASE CopyFails
  BY <1>0, <1>25 DEF CopyFails, BracketInv, Shown, HasOpt, SessionInv
<1>26. CASE SaveView
  BY <1>0, <1>26 DEF SaveView, write_conf_sec, BracketInv, Shown, HasOpt, SessionInv
<1>27. CASE Matches
  BY <1>0, <1>27 DEF Matches, BracketInv, Shown, HasOpt, SessionInv
<1>28. CASE Differs
  BY <1>0, <1>28 DEF Differs, write_conf_sec, BracketInv, Shown, HasOpt, SessionInv
<1>29. CASE SaveAgain
  BY <1>0, <1>29 DEF SaveAgain, write_conf_sec, BracketInv, Shown, HasOpt, SessionInv
<1>30. CASE NotApplied
  BY <1>0, <1>30 DEF NotApplied, BracketInv, Shown, HasOpt, SessionInv
<1>31. CASE Applied
  <2>1. Toward(Running) /\ zconf = gen[menu_index] /\ menu_index \in 0 .. Len(profile)-1
    BY <1>0, <1>31 DEF Applied, SessionInv, BracketInv
  <2>2. Shown'
    BY <1>f, <1>31, <2>1 DEF Applied, Shown, HasOpt
  <2> QED
    BY <1>31, <2>2 DEF Applied, BracketInv
<1>32. CASE PrintSettings
  BY <1>0, <1>32 DEF PrintSettings, BracketInv, Shown, HasOpt, SessionInv
<1>33. CASE Quit
  BY <1>33 DEF Quit, BracketInv
<1>34. CASE Crash
  BY <1>34 DEF Crash, BracketInv
<1>35. CASE EditProfiles
  BY <1>0, <1>35 DEF EditProfiles, BracketInv, Shown, HasOpt, SessionInv
<1>36. CASE Repair
  BY <1>0, <1>36 DEF Repair, BracketInv, Shown, HasOpt, SessionInv
<1>37. CASE UNCHANGED vars
  BY <1>0, <1>37 DEF vars, BracketInv, Shown, HasOpt, SessionInv
<1> QED
  BY <1>1, <1>2, <1>3, <1>4, <1>5, <1>6, <1>7, <1>8, <1>9, <1>10, <1>11, <1>12,
     <1>13, <1>14, <1>15, <1>16, <1>17, <1>18, <1>19, <1>20, <1>21, <1>22, <1>23, <1>24,
     <1>25, <1>26, <1>27, <1>28, <1>29, <1>30, <1>31, <1>32, <1>33, <1>34, <1>35, <1>36,
     <1>37
     DEF Next, StartupStep, ApplyStep

-----------------------------------------------------------------------------
LEMMA InitIInv == Init => IInv
<1> SUFFICES ASSUME Init PROVE IInv
  OBVIOUS
<1>1. Len(profile) = 0 /\ profile = << >> /\ pc = "off" /\ call = NoCall
  BY DEF Init
<1>2. TypeOK
  BY SettingTypes, ContentTypes, FirstProfile DEF Init, TypeOK, NoCall, Labels
<1>3. SessionInv
  BY <1>1 DEF Init, SessionInv, Toward, Before, Running, Applying
<1>4. BackupInv
  BY DEF Init, BackupInv, OriginalSafe
<1>5. PathInv
  BY DEF Init, PathInv, Done, Defaults, NoCall
<1>6. FreshInv /\ BracketInv
  BY <1>1 DEF FreshInv, BracketInv, Toward, Running, Applying
<1> QED
  BY <1>2, <1>3, <1>4, <1>5, <1>6 DEF IInv

THEOREM Invariance == Spec => []IInv
<1>1. IInv /\ [Next]_vars => IInv'
  BY TypeStep, SessionStep, BackupStep, PathStep, FreshStep, BracketStep DEF IInv
<1> QED
  BY InitIInv, <1>1, PTL DEF Spec

\* Files and memory keep their types, whatever fails and wherever the program ends.
THEOREM InstallationTypes == Spec => []TypeOK
<1>1. IInv => TypeOK
  BY DEF IInv
<1> QED
  BY <1>1, Invariance, PTL

\* create_link never loses the config zapret2 came with.
THEOREM BackupKeepsOriginal == Spec => []OriginalSafe
<1>1. IInv => OriginalSafe
  BY DEF IInv, BackupInv
<1> QED
  BY <1>1, Invariance, PTL

\* first_start is FALSE in config/config only with both paths saved.
THEOREM WizardSavesPaths == Spec => []PathsBeforeDone
<1>1. IInv => PathsBeforeDone
  BY DEF IInv, PathInv, Done, PathsBeforeDone
<1> QED
  BY <1>1, Invariance, PTL

\* create_zapret_configs leaves the main loop nothing of an earlier session.
THEOREM ConfigsOfOneMake == Spec => []FreshConfigs
<1>1. IInv => FreshConfigs
  BY DEF IInv, FreshInv, FreshTo, Toward, Running, FreshConfigs
<1> QED
  BY <1>1, Invariance, PTL

\* zapret2 has the config of the profile in brackets, unless the user was warned.
THEOREM BracketsWarn == Spec => []NeverSilentlyWrong
<1>1. IInv => NeverSilentlyWrong
  BY DEF IInv, BracketInv, Shown, Toward, NeverSilentlyWrong, BracketTrue
<1> QED
  BY <1>1, Invariance, PTL
=============================================================================
