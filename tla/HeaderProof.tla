------------------------------ MODULE HeaderProof ------------------------------
(***************************************************************************)
(* What holds of Header at every moment: the timer of the restart notice   *)
(* stays in its range, is back at its start whenever no restart is shown,  *)
(* and runs in one direction.                                              *)
(***************************************************************************)
EXTENDS Header, TLAPS

\* The count of a pass: one more, or back to the start with the notice taken off.
LEMMA TimerStep ==
  ASSUME TypeOK, is_reload, reload_timer
  PROVE  \/ /\ is_reload' = TRUE
            /\ reload_timer_count' = reload_timer_count + 1
            /\ reload_timer_count + 1 \in 0 .. ReloadPasses - 1
         \/ is_reload' = FALSE /\ reload_timer_count' = 0
  <1>1. /\ reload_timer_count \in 0 .. 21
        /\ reload_timer_count' = (reload_timer_count + 1) % 22
        /\ is_reload' = (reload_timer_count + 1 # 22)
    BY DEF TypeOK, reload_timer, ReloadPasses
  <1>2. CASE reload_timer_count = 21
    <2>1. reload_timer_count + 1 = 22
      BY <1>2
    <2>2. is_reload' = FALSE
      BY <1>1, <2>1, Zenon
    <2>3. reload_timer_count' = 0
      BY <1>1, <1>2
    <2> QED BY <2>2, <2>3, Zenon
  <1>3. CASE reload_timer_count # 21
    <2>1. reload_timer_count + 1 \in 0 .. 21 /\ reload_timer_count + 1 # 22
      BY <1>1, <1>3
    <2>2. is_reload' = TRUE
      BY <1>1, <2>1, Zenon
    <2>3. reload_timer_count' = reload_timer_count + 1
      BY <1>1, <2>1
    <2> QED BY <2>1, <2>2, <2>3 DEF ReloadPasses
  <1> QED BY <1>2, <1>3

LEMMA CommandType ==
  ASSUME TypeOK, Command
  PROVE  TypeOK'
  <1> USE DEF TypeOK, States, Outcomes, Effect, returns_zero
  <1>1. CASE Start BY <1>1 DEF Start
  <1>2. CASE Stop BY <1>2 DEF Stop
  <1>3. CASE Reload BY <1>3 DEF Reload
  <1> QED BY <1>1, <1>2, <1>3 DEF Command

LEMMA DrawnType ==
  ASSUME TypeOK, ui_draw
  PROVE  drawn' \in -1 .. 4
  BY DEF TypeOK, ui_draw, get_service_status, HeaderCode

LEMMA TypeStep ==
  ASSUME TypeOK, [Next]_vars
  PROVE  TypeOK'
  <1>1. CASE Command BY <1>1, CommandType
  <1>2. CASE OtherKey \/ Quit \/ Resize BY <1>2 DEF OtherKey, Quit, Resize, TypeOK
  <1>3. CASE Draw
    <2>1. drawn' \in -1 .. 4
      BY <1>3, DrawnType DEF Draw
    <2>2. /\ is_reload' \in BOOLEAN
          /\ reload_timer_count' \in 0 .. ReloadPasses - 1
          /\ ~is_reload' => reload_timer_count' = 0
      <3>1. CASE is_reload
        <4>1. reload_timer
          BY <1>3 DEF Draw
        <4>2. \/ is_reload' = TRUE /\ reload_timer_count' \in 0 .. ReloadPasses - 1
              \/ is_reload' = FALSE /\ reload_timer_count' = 0
          BY <3>1, <4>1, TimerStep, Zenon
        <4>3. 0 \in 0 .. ReloadPasses - 1
          BY DEF ReloadPasses
        <4> QED BY <4>2, <4>3, Zenon
      <3>2. CASE ~is_reload
        BY <1>3, <3>2 DEF Draw, reload_timer, TypeOK
      <3> QED BY <3>1, <3>2
    <2> QED BY <1>3, <2>1, <2>2 DEF Draw, TypeOK
  <1>4. CASE Redraw BY <1>4, DrawnType DEF Redraw, TypeOK
  <1>5. CASE ServiceChanges \/ UNCHANGED vars BY <1>5 DEF ServiceChanges, vars, TypeOK
  <1> QED BY <1>1, <1>2, <1>3, <1>4, <1>5 DEF Next, Pass

\* The restart notice cannot get stuck on a count beyond 22, which the code compares for
\* equality: the count never passes it, and starts from 0 for each notice.
THEOREM HeaderTypes == Spec => []TypeOK
  <1>1. Init => TypeOK
    <2>1. 0 \in 0 .. ReloadPasses - 1 /\ -1 \in -1 .. 4
      BY DEF ReloadPasses
    <2> QED BY <2>1, Zenon DEF Init, TypeOK
  <1> QED BY <1>1, TypeStep, PTL DEF Spec

\* What keeps the notice from staying: no step gives it more passes, and each pass of
\* the loop takes one.
THEOREM NoticeWearsOff == Spec => ReloadWearsOff
  <1>1. ASSUME TypeOK, [Next]_vars, is_reload
        PROVE  /\ PassesLeft' <= PassesLeft
               /\ pc = "draw" /\ pc' # pc => PassesLeft' < PassesLeft
    <2>1. PassesLeft = ReloadPasses - reload_timer_count /\ PassesLeft \in 1 .. 22
      BY <1>1 DEF TypeOK, PassesLeft, ReloadPasses
    <2>2. CASE Draw
      <3>1. CASE is_reload'
        BY <1>1, <2>1, <2>2, <3>1, TimerStep DEF Draw, PassesLeft, TypeOK, ReloadPasses
      <3>2. CASE ~is_reload'
        BY <2>1, <3>2 DEF PassesLeft
      <3> QED BY <3>1, <3>2
    <2>3. CASE ~Draw
      <3>1. /\ is_reload' /\ reload_timer_count' = reload_timer_count
            /\ ~(pc = "draw" /\ pc' # pc)
        BY <1>1, <2>3 DEF Next, Pass, Command, Start, Stop, Reload, OtherKey, Quit, Resize, Redraw,
           ServiceChanges, vars, TypeOK
      <3> QED BY <2>1, <3>1 DEF PassesLeft
    <2> QED BY <2>2, <2>3
  <1>2. TypeOK /\ [Next]_vars =>
          [is_reload => /\ PassesLeft' <= PassesLeft
                        /\ pc = "draw" /\ pc' # pc => PassesLeft' < PassesLeft]_vars
    BY <1>1
  <1> QED BY <1>2, HeaderTypes, PTL DEF Spec, ReloadWearsOff
=============================================================================
