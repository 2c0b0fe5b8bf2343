----------------------------- MODULE ProfileApply -----------------------------
(***************************************************************************)
(* The Enter key: create_link backs the config of zapret2 up, once, copies *)
(* the generated config of the selected profile over it and saves the      *)
(* number of the profile; core_update compares what it copied, saves the   *)
(* number again and moves the bracket in the menu.                         *)
(***************************************************************************)
EXTENDS Files

applyMem == <<template, profile, i, view_profile>>

Enter ==
  /\ At("app_run")
  /\ \E k \in 0 .. Len(profile)-1 : menu_index' = k
  /\ Goto("backup")
  /\ UNCHANGED <<diskVars, applyMem, historyVars, call>>

\* Mutant: config.save is not looked for.
BackupAlways ==
  /\ At("backup")
  /\ zconf.kind # "missing"
  /\ zsave' = zconf
  /\ zconf' = Missing
  /\ Goto("open_copy")
  /\ UNCHANGED <<settings, gen, profiles_conf, memVars, historyVars, call>>

\* rename(config, config.save), unless there is a config.save.
Backup ==
  /\ At("backup")
  /\ IF zsave.kind = "missing"
     THEN /\ zconf.kind # "missing"
          /\ zsave' = zconf
          /\ zconf' = Missing
     ELSE UNCHANGED <<zsave, zconf>>
  /\ Goto("open_copy")
  /\ UNCHANGED <<settings, gen, profiles_conf, memVars, historyVars, call>>

BackupFails ==
  /\ At("backup")
  /\ zsave.kind = "missing"
  /\ zconf.kind = "missing" \/ MayFail("rename")
  /\ Goto("not_applied")
  /\ UNCHANGED <<diskVars, memVars, historyVars, call>>

\* copy_file: fopen(dst, "wb") empties the file, then it fills.
OpenCopy ==
  /\ At("open_copy")
  /\ gen[menu_index].kind # "missing"
  /\ zconf' = Cut
  /\ Goto("copy")
  /\ UNCHANGED <<settings, zsave, gen, profiles_conf, memVars, historyVars, call>>

CopyAdvances ==
  /\ At("copy")
  /\ zconf = Cut /\ HasOpt(gen[menu_index])
  /\ zconf' = [gen[menu_index] EXCEPT !.kind = "part"]
  /\ UNCHANGED <<settings, zsave, gen, profiles_conf, memVars, historyVars, pc, call>>

CopyEnds ==
  /\ At("copy")
  /\ zconf' = gen[menu_index]
  /\ Goto("save_view")
  /\ UNCHANGED <<settings, zsave, gen, profiles_conf, memVars, historyVars, call>>

CopyFails ==
  /\ \/ At("open_copy") /\ (gen[menu_index].kind = "missing" \/ MayFail("copy"))
     \/ At("copy") /\ MayFail("copy")
  /\ Goto("not_applied")
  /\ UNCHANGED <<diskVars, memVars, historyVars, call>>

\* The end of create_link.
SaveView ==
  /\ At("save_view")
  /\ write_conf_sec("view_profile", menu_index, "compare", "not_applied")
  /\ UNCHANGED <<zconf, zsave, gen, profiles_conf, memVars, historyVars>>

\* selected_config_matches_zapret.
Matches ==
  /\ At("compare")
  /\ zconf = gen[menu_index]
  /\ Goto("save_again")
  /\ UNCHANGED <<diskVars, memVars, historyVars, call>>

\* Another window for each outcome of the comparison, the same window flag.
Differs ==
  /\ At("compare")
  /\ CompareErrs(zconf, gen[menu_index]) \/ zconf # gen[menu_index]
  /\ write_conf_sec("view_profile", NoProfile, "not_applied", "not_applied")
  /\ UNCHANGED <<zconf, zsave, gen, profiles_conf, memVars, historyVars>>

SaveAgain ==
  /\ At("save_again")
  /\ write_conf_sec("view_profile", menu_index, "applied", "not_applied")
  /\ UNCHANGED <<zconf, zsave, gen, profiles_conf, memVars, historyVars>>

\* Mutant: the key handler returns without an error window.
SilentlyNotApplied ==
  /\ At("not_applied")
  /\ Goto("app_run")
  /\ UNCHANGED <<diskVars, memVars, historyVars, call>>

\* set_error_window, or the same by hand; state->view_profile is left alone.
NotApplied ==
  /\ At("not_applied")
  /\ warned' = TRUE
  /\ Goto("app_run")
  /\ UNCHANGED <<diskVars, memVars, configured, call>>

\* state->view_profile = state->menu_index.
Applied ==
  /\ At("applied")
  /\ view_profile' = menu_index
  /\ warned' = FALSE
  /\ Goto("app_run")
  /\ UNCHANGED <<diskVars, template, profile, i, menu_index, configured, call>>

ApplyStep ==
  \/ Enter \/ Backup \/ BackupFails \/ OpenCopy \/ CopyAdvances \/ CopyEnds \/ CopyFails
  \/ SaveView \/ Matches \/ Differs \/ SaveAgain \/ NotApplied \/ Applied
=============================================================================
