----------------------------- MODULE Installation -----------------------------
(***************************************************************************)
(* The files through any number of sessions: the program starts, applies   *)
(* profiles and ends, at any point; while it does not run, profiles.conf   *)
(* may be edited, and a config of zapret2 put back by hand.                *)
(***************************************************************************)
EXTENDS Startup, ProfileApply

\* As it is shipped, beside an installation of zapret2.
Init ==
  /\ settings = Defaults
  /\ zconf = Original
  /\ zsave = Missing
  /\ gen = [k \in Profiles |-> Missing]
  /\ profiles_conf \in ProfileConfs
  /\ pc = "off"
  /\ call = NoCall
  /\ template = Missing
  /\ profile = << >>
  /\ i = 0
  /\ view_profile = NoProfile
  /\ menu_index = 0
  /\ warned = FALSE
  /\ configured = FALSE

\* INPUT_QUIT.
Quit == At("app_run") /\ Exit /\ UNCHANGED <<diskVars, configured>>

\* A signal, or the power goes.
Crash == ~At("off") /\ Exit /\ UNCHANGED <<diskVars, configured>>

EditProfiles ==
  /\ At("off")
  /\ profiles_conf' \in ProfileConfs
  /\ UNCHANGED <<settings, zconf, zsave, gen, memVars, historyVars, pc, call>>

\* By hand, from wherever a good config is found.
Repair ==
  /\ At("off")
  /\ zconf' = Original
  /\ UNCHANGED <<settings, zsave, gen, profiles_conf, memVars, historyVars, pc, call>>

Next ==
  \/ StartupStep \/ ApplyStep \/ PrintSettings
  \/ Quit \/ Crash \/ EditProfiles \/ Repair

Spec == Init /\ [][Next]_vars

-----------------------------------------------------------------------------
Labels ==
  {"off", "read_settings", "ask_path", "ask_program", "ask_choice", "wizard_done",
   "wizard_ends", "failed", "read_again", "generate", "write_config", "check_view",
   "app_init", "app_run", "backup", "open_copy", "copy", "save_view", "compare",
   "save_again", "not_applied", "applied", "print_settings"}

\* Type invariant: what files, memory and program counter range over.
TypeOK ==
  /\ settings \in Setting
  /\ zconf \in Content
  /\ zsave \in Content
  /\ gen \in [Profiles -> Content]
  /\ profiles_conf \in ProfileConfs
  /\ pc \in Labels
  /\ call \in [new : Setting, ok : Labels, fail : Labels]
  /\ template \in Content
  /\ profile \in ProfileConfs \cup {<< >>}
  /\ i \in 0 .. MaxProfiles
  /\ view_profile \in Profiles \cup {NoProfile}
  /\ menu_index \in Profiles
  /\ warned \in BOOLEAN
  /\ configured \in BOOLEAN

\* The config zapret2 came with is never lost: until the backup is made it is in
\* place, and the backup is made once and of nothing else, whatever fails and
\* wherever the program ends.
OriginalSafe == zsave = Original \/ (zsave = Missing /\ zconf = Original)

\* The main loop runs on configs of one make: each was generated in this session,
\* from one template, with the strategy of the profile it is numbered for.  What an
\* earlier session left half written is gone.
FreshConfigs ==
  pc = "app_run" => \A k \in 0 .. Len(profile)-1 : gen[k] = Generated(k)

\* The wizard counts as done only once both paths are saved, although it saves three
\* keys one by one, each time emptying the file.
PathsBeforeDone ==
  ~settings.first_start => settings.zapret_path # "none" /\ settings.program_path

\* README.md:45: "The selected profile is highlighted with square brackets": what
\* zapret2 has is the config of the profile in brackets.
BracketTrue ==
  pc = "app_run" /\ view_profile \in 0 .. Len(profile)-1 =>
    HasOpt(zconf) /\ zconf.strategy = profile[view_profile + 1].strategy

\* The bracket is wrong only after an error window said so: no crash, edit or
\* partial failure makes it wrong silently.
NeverSilentlyWrong == warned \/ BracketTrue

-----------------------------------------------------------------------------
(* What the repository says, and the code does not do.                     *)

\* README.md:43: "Each profile is a complete copy of the config, but with different
\* NFQWS2_OPT values".
CompleteCopies ==
  pc = "app_run" => \A k \in 0 .. Len(profile)-1 : gen[k].kind = "whole"

\* README.md:81: "On first run, the program will ask for".
AskedOnFirstRun == pc = "ask_path" => ~configured
=============================================================================
