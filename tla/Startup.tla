------------------------------- MODULE Startup -------------------------------
(***************************************************************************)
(* The program from its start to the main loop: main, the wizard of the    *)
(* first start, the configs generated for the profiles, and the check      *)
(* whether the profile applied last still is the one zapret2 has.          *)
(***************************************************************************)
EXTENDS Files

Exit ==
  /\ Goto("off")
  /\ call' = NoCall
  /\ template' = Missing
  /\ profile' = << >>
  /\ i' = 0
  /\ view_profile' = NoProfile
  /\ menu_index' = 0
  /\ warned' = FALSE

\* main up to the first look at the settings.
Start ==
  /\ At("off")
  /\ Goto("read_settings")
  /\ UNCHANGED <<diskVars, memVars, historyVars, call>>

CheckFails ==
  /\ At("read_settings")
  /\ MayFail("dependencies") \/ ~settings.parses
  /\ Exit
  /\ UNCHANGED <<diskVars, configured>>

ReadSettings ==
  /\ At("read_settings")
  /\ settings.parses
  /\ Goto(IF settings.first_start THEN "ask_path" ELSE "read_again")
  /\ UNCHANGED <<diskVars, memVars, historyVars, call>>

-----------------------------------------------------------------------------
(* first_start.  Any path that exists is accepted.                         *)

\* Mutant: first_start is reset before the paths are written.
DoneFirst ==
  /\ At("ask_path")
  /\ write_conf_sec("first_start", FALSE, "ask_program", "failed")
  /\ UNCHANGED <<zconf, zsave, gen, profiles_conf, memVars, historyVars>>

AskPath ==
  /\ At("ask_path")
  /\ \E path \in Paths \ {"none"} :
       write_conf_sec("zapret_path", path, "ask_program", "failed")
  /\ UNCHANGED <<zconf, zsave, gen, profiles_conf, memVars, historyVars>>

AskProgram ==
  /\ At("ask_program")
  /\ write_conf_sec("program_path", TRUE, "ask_choice", "failed")
  /\ UNCHANGED <<zconf, zsave, gen, profiles_conf, memVars, historyVars>>

\* Whatever the answer is, the wizard is done with: [Y]es goes on, [N]o ends the
\* program, [E]dit replaces it by an editor, any other answer is an error.
AskChoice ==
  /\ At("ask_choice")
  /\ \E next \in {"wizard_done", "wizard_ends"} :
       write_conf_sec("first_start", FALSE, next, "failed")
  /\ UNCHANGED <<zconf, zsave, gen, profiles_conf, memVars, historyVars>>

WizardDone ==
  /\ At("wizard_done")
  /\ Goto("read_again")
  /\ configured' = TRUE
  /\ UNCHANGED <<diskVars, memVars, warned, call>>

WizardEnds ==
  /\ At("wizard_ends")
  /\ Exit
  /\ configured' = TRUE
  /\ UNCHANGED diskVars

\* The path does not exist, nothing was read, the program does not know where it is, or
\* a write has failed.
Fails ==
  /\ pc \in {"ask_path", "ask_program", "ask_choice", "failed"}
  /\ Exit
  /\ UNCHANGED <<diskVars, configured>>

-----------------------------------------------------------------------------
(* The rest of main.                                                       *)

\* Mutant: the ids are not looked at.
AnyIds(conf) == conf # << >> /\ \A k \in 1 .. Len(conf) : conf[k].strategy # NoOpt

\* Mutant: the placeholder is let through.
AnyStrategy(conf) == conf # << >> /\ \A k \in 1 .. Len(conf) : conf[k].id = k - 1

\* read_conf_profiles: the ids are 0, 1, 2, ... and no value is the placeholder.
ValidProfiles(conf) ==
  /\ conf # << >>
  /\ \A k \in 1 .. Len(conf) : conf[k].id = k - 1 /\ conf[k].strategy # NoOpt

\* The settings again, the config of zapret2 as the template, the profiles.
ReadAll ==
  /\ At("read_again")
  /\ settings.zapret_path # "none" /\ settings.program_path
  /\ ValidProfiles(profiles_conf)
  /\ view_profile' = settings.view_profile
  /\ template' = IF settings.zapret_path = "zapret" THEN zconf ELSE Missing
  /\ profile' = profiles_conf
  /\ Goto("generate")
  /\ UNCHANGED <<diskVars, i, menu_index, historyVars, call>>

ReadFails ==
  /\ At("read_again")
  /\ \/ ~settings.parses \/ settings.zapret_path = "none" \/ ~settings.program_path
     \/ ~ValidProfiles(profiles_conf)
  /\ Exit
  /\ UNCHANGED <<diskVars, configured>>

\* The template with NFQWS2_OPT replaced.
Generated(k) == [kind |-> template.kind, strategy |-> profile[k + 1].strategy]

\* create_zapret_configs: open the config of the next profile, which empties it.
OpenConfig ==
  /\ At("generate")
  /\ HasOpt(template)
  /\ i < Len(profile)
  /\ gen' = [gen EXCEPT ![profile[i + 1].id] = Cut]
  /\ Goto("write_config")
  /\ UNCHANGED <<settings, zconf, zsave, profiles_conf, memVars, historyVars, call>>

\* Mutant: a config that cannot be written is skipped.
SkipConfig ==
  /\ At("write_config")
  /\ \/ gen' = [gen EXCEPT ![profile[i + 1].id] = Generated(i)]
     \/ MayFail("generate") /\ UNCHANGED gen
  /\ i' = i + 1
  /\ Goto("generate")
  /\ UNCHANGED <<settings, zconf, zsave, profiles_conf, template, profile, view_profile,
                 menu_index, historyVars, call>>

WriteConfig ==
  /\ At("write_config")
  /\ gen' = [gen EXCEPT ![profile[i + 1].id] = Generated(i)]
  /\ i' = i + 1
  /\ Goto("generate")
  /\ UNCHANGED <<settings, zconf, zsave, profiles_conf, template, profile, view_profile,
                 menu_index, historyVars, call>>

GenerateFails ==
  /\ \/ At("generate") /\ ~HasOpt(template)
     \/ At("generate") /\ i < Len(profile) /\ MayFail("generate")
     \/ At("write_config") /\ MayFail("generate")
  /\ Exit
  /\ UNCHANGED <<diskVars, configured>>

GenerateEnds ==
  /\ At("generate")
  /\ HasOpt(template)
  /\ i = Len(profile)
  /\ Goto(IF view_profile = NoProfile THEN "app_init" ELSE "check_view")
  /\ UNCHANGED <<diskVars, memVars, historyVars, call>>

\* Two beginnings of configs are alike when one was generated from the other.  A
\* profile that is no longer in profiles.conf has its old generated config.
SameFile(a, b) ==
  /\ a = b
  /\ a.kind = "whole" \/ view_profile < Len(profile)

ViewHolds ==
  /\ At("check_view")
  /\ zconf = gen[view_profile] /\ zconf.kind # "missing"
  /\ Goto("app_init")
  /\ UNCHANGED <<diskVars, memVars, historyVars, call>>

ViewReset ==
  /\ At("check_view")
  /\ CompareErrs(zconf, gen[view_profile]) \/ ~SameFile(zconf, gen[view_profile])
  /\ view_profile' = NoProfile
  /\ write_conf_sec("view_profile", NoProfile, "app_init", "failed")
  /\ UNCHANGED <<zconf, zsave, gen, profiles_conf, template, profile, i, menu_index,
                 historyVars>>

app_init ==
  /\ At("app_init")
  /\ Goto("app_run")
  /\ UNCHANGED <<diskVars, memVars, historyVars, call>>

StartupStep ==
  \/ Start \/ CheckFails \/ ReadSettings
  \/ AskPath \/ AskProgram \/ AskChoice \/ WizardDone \/ WizardEnds \/ Fails
  \/ ReadAll \/ ReadFails \/ OpenConfig \/ WriteConfig \/ GenerateFails \/ GenerateEnds
  \/ ViewHolds \/ ViewReset \/ app_init
=============================================================================
