-------------------------------- MODULE Files --------------------------------
(***************************************************************************)
(* What zapret2-tui keeps on disk: config/config with its settings, the    *)
(* profiles, one generated config for each profile, and in the directory   *)
(* of zapret2 its config with the backup of it.  A file is replaced in     *)
(* several steps, and the program can end between any two of them.         *)
(*                                                                         *)
(* Startup and ProfileApply take their steps on these variables;           *)
(* Installation puts them together.                                        *)
(***************************************************************************)
EXTENDS Integers, Sequences

CONSTANTS
  MaxProfiles,  \* bound: profiles in profiles.conf
  Strategies,   \* what a profile can say in NFQWS2_OPT
  ProfileConfs, \* what profiles.conf can hold: sections with an id and a strategy
  Faults        \* which calls can fail

Profiles   == 0 .. MaxProfiles-1
NoProfile  == -1
UserOpt    == "user"    \* the NFQWS2_OPT zapret2 came with
NoOpt      == "none"    \* the placeholder, and the default of libconfuse
FaultKinds == {"dependencies", "generate", "rename", "copy", "compare", "settings"}

Section == [id : Int, strategy : Strategies \cup {NoOpt}]

ASSUME FilesOK ==
  /\ MaxProfiles \in Nat \ {0}
  /\ {UserOpt, NoOpt} \cap Strategies = {}
  /\ ProfileConfs \subseteq Seq(Section)
  /\ \A c \in ProfileConfs : Len(c) <= MaxProfiles
  /\ Faults \subseteq FaultKinds

\* A config of zapret2, by what of the original it still has: nothing ("missing"),
\* a beginning that ends before NFQWS2_OPT does ("cut"), a beginning with
\* NFQWS2_OPT ("part"), or every line ("whole").
Content == [kind : {"missing", "cut"}, strategy : {NoOpt}]
             \cup [kind : {"part", "whole"}, strategy : Strategies \cup {UserOpt}]

Missing  == [kind |-> "missing", strategy |-> NoOpt]
Cut      == [kind |-> "cut", strategy |-> NoOpt]
Original == [kind |-> "whole", strategy |-> UserOpt]

HasOpt(c) == c.kind \in {"part", "whole"}

\* config/config.  An empty file is one that says nothing of any key, so that
\* libconfuse fills in the defaults; a file with half a section does not parse.
Paths   == {"none", "zapret", "elsewhere"}
Setting == [parses : BOOLEAN, first_start : BOOLEAN, zapret_path : Paths,
            program_path : BOOLEAN, view_profile : Profiles \cup {NoProfile}]

Defaults == [parses |-> TRUE, first_start |-> TRUE, zapret_path |-> "none",
             program_path |-> FALSE, view_profile |-> NoProfile]
HalfWritten == [Defaults EXCEPT !.parses = FALSE]

VARIABLES
  settings,       \* config/config
  zconf,          \* config, in the directory of zapret2
  zsave,          \* config.save, beside it
  gen,            \* config/zapret_config/config_<i>
  profiles_conf,  \* profiles.conf
  pc,             \* where the program is, "off" when it does not run
  call,           \* the call of write_conf_sec in progress
  template,       \* zapret_conf: what read_conf_engine has read
  profile,        \* the array read_conf_profiles returned
  i,              \* the loop counter of create_zapret_configs
  view_profile,   \* config_main.view_profile, then state->view_profile
  menu_index,     \* the profile Enter was pressed on
  warned,         \* an error window came up after the last profile was applied
  configured      \* the wizard was answered to its end, in this session or before

diskVars    == <<settings, zconf, zsave, gen, profiles_conf>>
memVars     == <<template, profile, i, view_profile, menu_index>>
historyVars == <<warned, configured>>
vars        == <<diskVars, memVars, historyVars, pc, call>>

At(l)   == pc = l
Goto(l) == pc' = l
MayFail(what) == what \in Faults

NoCall == [new |-> Defaults, ok |-> "off", fail |-> "off"]

-----------------------------------------------------------------------------
(* write_conf_sec(..., key, value): parse the file, change one key, open   *)
(* the file for writing, which empties it, and print what was parsed.      *)

\* A caller at label l: key is to become value; go on at ok, or at fail.
write_conf_sec(key, value, ok, fail) ==
  \/ /\ settings.parses
     /\ call' = [new |-> [settings EXCEPT ![key] = value], ok |-> ok, fail |-> fail]
     /\ settings' = Defaults
     /\ Goto("print_settings")
  \/ /\ ~settings.parses \/ MayFail("settings")
     /\ Goto(fail)
     /\ UNCHANGED <<settings, call>>

\* cfg_print and fclose.  A full disk takes nothing of it, or a part.
PrintSettings ==
  /\ At("print_settings")
  /\ \/ settings' = call.new /\ Goto(call.ok)
     \/ MayFail("settings") /\ settings' \in {Defaults, HalfWritten} /\ Goto(call.fail)
  /\ call' = NoCall
  /\ UNCHANGED <<zconf, zsave, gen, profiles_conf, memVars, historyVars>>

\* compare_files: equal, different, or not to be read.
CompareErrs(a, b) == a.kind = "missing" \/ b.kind = "missing" \/ MayFail("compare")
=============================================================================
