-------------------------------- MODULE Header --------------------------------
(***************************************************************************)
(* The header line, which says how zapret2 is, and the keys S, X and R,    *)
(* which change that: the main loop takes a key, runs the command, asks    *)
(* systemd for the state of the service and draws.  After a restart the    *)
(* header says so for some passes; after a failed command it says so, too. *)
(* The service changes by itself and by others as well.                    *)
(***************************************************************************)
EXTENDS Integers

VARIABLES
  pc,                   \* where the loop is
  without_sudo,         \* the program was started without root
  service,              \* the state of zapret2.service
  is_reload,
  reload_timer_count,
  service_error,
  last,                 \* how the last command ended
  restarted,            \* the last restart that was taken for one ran to its end
  drawn                 \* the code the header was drawn with, -1 for none
vars == <<pc, without_sudo, service, is_reload, reload_timer_count, service_error, last, restarted,
          drawn>>

States == {"active", "inactive", "failed"}

\* Passes of the loop.
ReloadPasses == 22

Init ==
  /\ pc = "poll"
  /\ without_sudo \in BOOLEAN
  /\ service \in States
  /\ is_reload = FALSE /\ reload_timer_count = 0
  /\ service_error = FALSE
  /\ last = "none" /\ restarted = FALSE
  /\ drawn = -1

\* Systemd, another user, or zapret2 itself.
ServiceChanges ==
  /\ pc # "over"
  /\ service' \in States \ {service}
  /\ UNCHANGED <<pc, without_sudo, is_reload, reload_timer_count, service_error, last,
                 restarted, drawn>>

-----------------------------------------------------------------------------
(* Keys.                                                                   *)

\* zapret2_ctl returns WEXITSTATUS, which is 0 also of a command a signal has ended
\* (system() ignores Ctrl-C, the command does not).  Without root it runs nothing.
returns_zero(o) == o \in {"done", "signalled"}

Outcomes == IF without_sudo THEN {"refused"} ELSE {"done", "signalled", "failed"}

\* What a command that ran to its end has done to the service.
Effect(o, s) == IF o = "done" THEN service' = s ELSE service' \in States

Start ==
  /\ pc = "poll"
  /\ \E o \in Outcomes :
       /\ IF o = "refused" THEN UNCHANGED service ELSE Effect(o, "active")
       /\ service_error' = (service_error \/ ~returns_zero(o))
       /\ last' = o
  /\ pc' = "draw"
  /\ UNCHANGED <<without_sudo, is_reload, reload_timer_count, restarted, drawn>>

Stop ==
  /\ pc = "poll"
  /\ \E o \in Outcomes :
       /\ IF o = "refused" THEN UNCHANGED service ELSE Effect(o, "inactive")
       /\ service_error' = (service_error \/ ~returns_zero(o))
       /\ last' = o
  /\ pc' = "draw"
  /\ UNCHANGED <<without_sudo, is_reload, reload_timer_count, restarted, drawn>>

\* Mutant: every restart is shown for as long as the first.
ReloadAgain ==
  /\ pc = "poll"
  /\ \E o \in Outcomes :
       /\ IF o = "refused" THEN UNCHANGED service ELSE Effect(o, "active")
       /\ IF returns_zero(o)
          THEN /\ is_reload' = TRUE /\ restarted' = (o = "done")
               /\ reload_timer_count' = 0 /\ UNCHANGED service_error
          ELSE /\ service_error' = TRUE
               /\ UNCHANGED <<is_reload, restarted, reload_timer_count>>
       /\ last' = o
  /\ pc' = "draw"
  /\ UNCHANGED <<without_sudo, drawn>>

Reload ==
  /\ pc = "poll"
  /\ \E o \in Outcomes :
       /\ IF o = "refused" THEN UNCHANGED service ELSE Effect(o, "active")
       /\ IF returns_zero(o)
          THEN is_reload' = TRUE /\ restarted' = (o = "done") /\ UNCHANGED service_error
          ELSE service_error' = TRUE /\ UNCHANGED <<is_reload, restarted>>
       /\ last' = o
  /\ pc' = "draw"
  /\ UNCHANGED <<without_sudo, reload_timer_count, drawn>>

\* 50 ms without a key, or a key that is about something else.
OtherKey ==
  /\ pc = "poll"
  /\ pc' = "draw"
  /\ UNCHANGED <<without_sudo, service, is_reload, reload_timer_count, service_error, last,
                 restarted, drawn>>

\* KEY_RESIZE: INPUT_REINIT draws and continues the loop before the timer.
Resize ==
  /\ pc = "poll"
  /\ pc' = "redraw"
  /\ UNCHANGED <<without_sudo, service, is_reload, reload_timer_count, service_error, last,
                 restarted, drawn>>

\* The loop ends with this pass.
Quit ==
  /\ pc = "poll"
  /\ pc' = "last_draw"
  /\ UNCHANGED <<without_sudo, service, is_reload, reload_timer_count, service_error, last,
                 restarted, drawn>>

-----------------------------------------------------------------------------
(* Drawing.                                                                *)

\* Mutant: the end of the line is not cut off before the comparison.
NewlineKept == {1, -1}

\* get_service_status, or -1 when systemctl cannot be asked.
get_service_status == {IF service = "active" THEN 0 ELSE 1, -1}

\* The code ui_draw hands to draw_header.
HeaderCode(status) ==
  CASE without_sudo /\ service_error  -> 4
    [] ~without_sudo /\ service_error -> 3
    [] ~service_error /\ is_reload    -> 2
    [] ~service_error /\ ~is_reload   -> status

ui_draw == \E status \in get_service_status : drawn' = HeaderCode(status)

reload_timer ==
  IF is_reload
  THEN /\ reload_timer_count' = (reload_timer_count + 1) % ReloadPasses
       /\ is_reload' = (reload_timer_count + 1 # ReloadPasses)
  ELSE UNCHANGED <<is_reload, reload_timer_count>>

Draw ==
  /\ pc \in {"draw", "last_draw"}
  /\ ui_draw /\ reload_timer
  /\ pc' = IF pc = "draw" THEN "poll" ELSE "over"
  /\ UNCHANGED <<without_sudo, service, service_error, last, restarted>>

Redraw ==
  /\ pc = "redraw"
  /\ ui_draw
  /\ pc' = "poll"
  /\ UNCHANGED <<without_sudo, service, is_reload, reload_timer_count, service_error, last,
                 restarted>>

Command == Start \/ Stop \/ Reload

Pass == Command \/ OtherKey \/ Quit

Next == Pass \/ Resize \/ Draw \/ Redraw \/ ServiceChanges

\* Commands and drawing end, and nobody resizes the terminal without end.
Spec ==
  /\ Init /\ [][Next]_vars
  /\ WF_vars(Draw \/ Redraw) /\ SF_vars(Pass)

-----------------------------------------------------------------------------
\* Type invariant; when no restart is shown the count is ready for the next one.
TypeOK ==
  /\ pc \in {"poll", "draw", "last_draw", "redraw", "over"}
  /\ without_sudo \in BOOLEAN
  /\ service \in States
  /\ is_reload \in BOOLEAN
  /\ reload_timer_count \in 0 .. ReloadPasses - 1
  /\ ~is_reload => reload_timer_count = 0
  /\ service_error \in BOOLEAN
  /\ last \in {"none", "refused", "done", "signalled", "failed"}
  /\ restarted \in BOOLEAN
  /\ drawn \in -1 .. 4

\* The passes "restart (reload)" is still shown for only become fewer: no key, no
\* second restart and no resize gives it new time, and each pass takes some.
PassesLeft == IF is_reload THEN ReloadPasses - reload_timer_count ELSE 0

ReloadWearsOff ==
  [][is_reload => /\ PassesLeft' <= PassesLeft
                  /\ pc = "draw" /\ pc' # pc => PassesLeft' < PassesLeft]_vars

\* "Restart (reload)" is taken back, also when R is pressed again and again: the
\* count is of passes since the first, not since the last.
ReloadEnds == is_reload ~> (~is_reload \/ pc = "over")

\* Once the service stays as it is, R is left alone and no command has failed, the
\* header comes to show the service, and stays so; or nothing, if systemctl fails.
HeaderSettles ==
  (<>[](service = "active" /\ ~service_error) /\ <>[][~Reload]_vars)
    => <>[](drawn \in {0, -1} \/ pc = "over")

-----------------------------------------------------------------------------
(* What the repository says, and the code does not do.                     *)

\* ui/ui.c:107-110: "0 - active", "3 - error": the header reports an error of the
\* last command, not of one long ago.
ErrorIsOfLast == pc = "poll" /\ drawn = 3 => last = "failed"

\* ui/ui.c:109: "2 - restart (reload)": the service has been restarted.
ReloadIsRestart == pc = "poll" /\ drawn = 2 => restarted
=============================================================================
