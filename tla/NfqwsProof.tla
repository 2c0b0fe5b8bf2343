------------------------------ MODULE NfqwsProof ------------------------------
(***************************************************************************)
(* Proofs about NfqwsRun, for buffers and pipes of any size and any amount *)
(* of output.  What is judged is not what was printed: a part was read too *)
(* early and dropped, a part is never read.  The invariant follows every   *)
(* cell from the process through the pipe into one of the buffers.         *)
(***************************************************************************)
EXTENDS NfqwsRun, SequenceTheorems, TLAPS

Bound  == {"bind1", "bind2"}
Passed == {"received", "altered", "answered"}

\* Cells are neither lost nor made up: what was printed is in a buffer or the pipe.
Kept ==
  /\ Printed = Elems(waitbuf) \cup Elems(logs) \cup Elems(pipe)
  /\ Len(printed) = Len(waitbuf) + Len(logs) + Len(pipe)
  /\ pc \in {"wait", "http", "drain"} => logs = << >>

\* What the output says of the process and the request.
Story ==
  /\ Printed \cap {"lua_call", "desync_word"} = {}
  /\ "lua_func" \in Printed => "packet" \in Printed
  /\ pc = "wait" => request = "none"
  /\ "packet" \in Printed <=> request \in Passed
  /\ child \in {"forked", "booting"} => request \notin Passed
  /\ child = "bound" \/ request \in Passed => Bound \subseteq Printed
  /\ "execv_failed" \in Printed => child \in {"zombie", "reaped"} /\ request \notin Passed
  /\ http => request = "answered"
  /\ pc \in {"judge", "done"} => child = "reaped"

\* The second half of the binding message follows the first, in the pipe and across
\* the end of what was read.
InOrder ==
  \A k \in 1 .. Len(pipe) :
    pipe[k] = "bind2" => IF k = 1 THEN "bind1" \in Elems(waitbuf) ELSE pipe[k - 1] = "bind1"

\* What wait_for_nfqws2_ready dropped: no packet, and it knows of a whole message.
Dropped ==
  /\ "packet" \notin Elems(waitbuf)
  /\ confirmed = (Bound \subseteq Elems(waitbuf))
  /\ "bind2" \in Elems(waitbuf) => "bind1" \in Elems(waitbuf)
  /\ pc = "wait" => InOrder

\* The first read of the drain takes all there is, if it fits; for a request that was
\* answered, that is enough.
Collected ==
  pc \in {"drain_wait", "drain_on", "reap", "kill_wait", "judge", "done"} /\ http
    /\ Len(printed) - Len(waitbuf) <= LogSize
    => Bound \cup {"packet"} \subseteq Elems(waitbuf) \cup Elems(logs)

Judged ==
  /\ pc # "done" => verdict = "RUNNING"
  /\ VerdictSound /\ SummaryAgrees /\ WorkingNotError

IInv == TypeOK /\ Kept /\ Story /\ Dropped /\ Collected /\ Judged

-----------------------------------------------------------------------------
(* Sequences of cells.                                                     *)

LEMMA ElemsType ==
  ASSUME NEW s \in Seq(Cells)
  PROVE  Elems(s) \subseteq Cells /\ Len(s) \in Nat
BY ElementOfSeq, LenProperties DEF Elems

LEMMA ElemsEmpty ==
  /\ << >> \in Seq(Cells) /\ Len(<< >>) = 0
  /\ Elems(<< >>) = {}
BY EmptySeq DEF Elems

LEMMA ElemsOne ==
  ASSUME NEW c \in Cells
  PROVE  <<c>> \in Seq(Cells) /\ Len(<<c>>) = 1 /\ Elems(<<c>>) = {c}
BY DEF Elems

LEMMA ElemsTwo ==
  ASSUME NEW c \in Cells, NEW d \in Cells
  PROVE  <<c, d>> \in Seq(Cells) /\ Len(<<c, d>>) = 2 /\ Elems(<<c, d>>) = {c, d}
<1>1. <<c, d>> \in Seq(Cells) /\ Len(<<c, d>>) = 2
  OBVIOUS
<1>2. 1 .. Len(<<c, d>>) = {1, 2}
  BY <1>1
<1>3. <<c, d>>[1] = c /\ <<c, d>>[2] = d
  OBVIOUS
<1> QED
  BY <1>1, <1>2, <1>3 DEF Elems

LEMMA ElemsConcat ==
  ASSUME NEW s \in Seq(Cells), NEW t \in Seq(Cells)
  PROVE  /\ s \o t \in Seq(Cells)
         /\ Len(s \o t) = Len(s) + Len(t)
         /\ Elems(s \o t) = Elems(s) \cup Elems(t)
<1>1. /\ s \o t \in Seq(Cells)
      /\ Len(s \o t) = Len(s) + Len(t)
      /\ \A k \in 1 .. Len(s) + Len(t) :
           (s \o t)[k] = IF k <= Len(s) THEN s[k] ELSE t[k - Len(s)]
  BY ConcatProperties
<1>2. Len(s) \in Nat /\ Len(t) \in Nat
  BY LenProperties
<1>3. Elems(s \o t) \subseteq Elems(s) \cup Elems(t)
  BY <1>1, <1>2 DEF Elems
<1>4. Elems(s) \subseteq Elems(s \o t)
  BY <1>1, <1>2 DEF Elems
<1>5. ASSUME NEW k \in 1 .. Len(t)
      PROVE  t[k] \in Elems(s \o t)
  <2>1. k + Len(s) \in 1 .. Len(s) + Len(t) /\ (s \o t)[k + Len(s)] = t[k]
    BY <1>1, <1>2
  <2> QED
    BY <1>1, <2>1 DEF Elems
<1> QED
  BY <1>1, <1>3, <1>4, <1>5 DEF Elems

\* A sequence cut in two.
LEMMA Cut ==
  ASSUME NEW s \in Seq(Cells), NEW n \in 0 .. Len(s)
  PROVE  LET front == SubSeq(s, 1, n)
             back  == SubSeq(s, n + 1, Len(s))
         IN  /\ front \in Seq(Cells) /\ back \in Seq(Cells)
             /\ Len(front) = n /\ Len(back) = Len(s) - n
             /\ \A k \in 1 .. n : front[k] = s[k]
             /\ \A k \in 1 .. Len(s) - n : back[k] = s[n + k]
             /\ Elems(s) = Elems(front) \cup Elems(back)
<1> DEFINE front == SubSeq(s, 1, n)
           back  == SubSeq(s, n + 1, Len(s))
<1>1. Len(s) \in Nat /\ n \in Nat /\ n <= Len(s) /\ \A k \in 1 .. Len(s) : s[k] \in Cells
  BY LenProperties, ElementOfSeq
<1>2. /\ front \in Seq(Cells)
      /\ Len(front) = IF 1 <= n THEN n - 1 + 1 ELSE 0
      /\ \A k \in 1 .. n - 1 + 1 : front[k] = s[1 + k - 1]
  <2>1. \A k \in 1 .. n : s[k] \in Cells
    BY <1>1
  <2> QED
    BY <1>1, <2>1, SubSeqProperties
<1>3. /\ back \in Seq(Cells)
      /\ Len(back) = IF n + 1 <= Len(s) THEN Len(s) - (n + 1) + 1 ELSE 0
      /\ \A k \in 1 .. Len(s) - (n + 1) + 1 : back[k] = s[n + 1 + k - 1]
  <2>1. \A k \in n + 1 .. Len(s) : s[k] \in Cells
    BY <1>1
  <2>2. n + 1 \in Int /\ Len(s) \in Int
    BY <1>1
  <2> HIDE DEF back
  <2>3. SubSeq(s, n + 1, Len(s)) \in Seq(Cells)
        /\ Len(SubSeq(s, n + 1, Len(s))) = (IF n + 1 <= Len(s) THEN Len(s) - (n + 1) + 1 ELSE 0)
        /\ \A k \in 1 .. Len(s) - (n + 1) + 1 : SubSeq(s, n + 1, Len(s))[k] = s[n + 1 + k - 1]
    BY <2>1, <2>2, SubSeqProperties
  <2> QED
    BY <2>3 DEF back
<1> HIDE DEF front, back
<1>4. Len(front) = n /\ \A k \in 1 .. n : front[k] = s[k]
  BY <1>1, <1>2
<1>5. Len(back) = Len(s) - n /\ \A k \in 1 .. Len(s) - n : back[k] = s[n + k]
  BY <1>1, <1>3
<1>6. Elems(front) \cup Elems(back) \subseteq Elems(s)
  BY <1>1, <1>4, <1>5 DEF Elems
<1>7. ASSUME NEW k \in 1 .. Len(s)
      PROVE  s[k] \in Elems(front) \cup Elems(back)
  <2>1. CASE k <= n
    BY <1>1, <1>4, <2>1 DEF Elems
  <2>2. CASE k > n
    <3>1. k - n \in 1 .. Len(s) - n /\ back[k - n] = s[k]
      BY <1>1, <1>5, <2>2
    <3> QED
      BY <1>5, <3>1 DEF Elems
  <2> QED
    BY <1>1, <2>1, <2>2
<1>8. Elems(s) = Elems(front) \cup Elems(back)
  BY <1>6, <1>7 DEF Elems
<1> QED
  BY <1>2, <1>3, <1>4, <1>5, <1>8 DEF front, back

-----------------------------------------------------------------------------
(* read and write.                                                         *)

\* read() moves cells from the front of the pipe to the end of the buffer, as many as
\* there are and fit.
LEMMA ReadCuts ==
  ASSUME TypeOK, NEW buf \in Seq(Cells), NEW size \in Nat, Len(buf) <= size
  PROVE  \E n \in 0 .. Len(pipe) :
           LET front == SubSeq(pipe, 1, n)
               back  == SubSeq(pipe, n + 1, Len(pipe))
           IN  /\ Read(buf, size).buf = buf \o front
               /\ Read(buf, size).rest = back
               /\ n <= size - Len(buf)
               /\ Len(buf) + Len(pipe) <= size => n = Len(pipe)
<1> DEFINE n == Least(Len(pipe), size - Len(buf))
<1>1. pipe \in Seq(Cells) /\ Len(pipe) \in Nat /\ Len(buf) \in Nat
  BY LenProperties DEF TypeOK
<1>2. n \in 0 .. Len(pipe) /\ n <= size - Len(buf)
      /\ (Len(buf) + Len(pipe) <= size => n = Len(pipe))
  BY <1>1 DEF Least
<1>3. /\ Read(buf, size).buf = buf \o SubSeq(pipe, 1, n)
      /\ Read(buf, size).rest = SubSeq(pipe, n + 1, Len(pipe))
  BY DEF Read
<1> HIDE DEF n
<1> QED
  BY <1>2, <1>3, Zenon

\* What the buffer and the pipe hold then.
Moved(buf, size, into, rest) ==
  /\ into \in Seq(Cells) /\ rest \in Seq(Cells)
  /\ Len(into) <= size
  /\ Len(rest) <= Len(pipe)
  /\ Len(into) + Len(rest) = Len(buf) + Len(pipe)
  /\ Elems(into) \cup Elems(rest) = Elems(buf) \cup Elems(pipe)
  /\ Elems(buf) \subseteq Elems(into)
  /\ Len(buf) + Len(pipe) <= size => Elems(rest) = {}

LEMMA ReadMoves ==
  ASSUME TypeOK, NEW buf \in Seq(Cells), NEW size \in Nat, Len(buf) <= size,
         NEW into, NEW rest, into = Read(buf, size).buf, rest = Read(buf, size).rest
  PROVE  Moved(buf, size, into, rest)
<1>1. PICK n \in 0 .. Len(pipe) :
        /\ into = buf \o SubSeq(pipe, 1, n)
        /\ rest = SubSeq(pipe, n + 1, Len(pipe))
        /\ n <= size - Len(buf)
        /\ Len(buf) + Len(pipe) <= size => n = Len(pipe)
  BY ReadCuts
<1> DEFINE front == SubSeq(pipe, 1, n)
<1>2. pipe \in Seq(Cells) /\ Len(pipe) \in Nat /\ Len(buf) \in Nat
  BY LenProperties DEF TypeOK
<1>3. /\ front \in Seq(Cells) /\ rest \in Seq(Cells)
      /\ Len(front) = n /\ Len(rest) = Len(pipe) - n
      /\ Elems(pipe) = Elems(front) \cup Elems(rest)
  <2> DEFINE back == SubSeq(pipe, n + 1, Len(pipe))
  <2>1. /\ front \in Seq(Cells) /\ back \in Seq(Cells)
        /\ Len(front) = n /\ Len(back) = Len(pipe) - n
        /\ Elems(pipe) = Elems(front) \cup Elems(back)
    BY <1>2, Cut
  <2>2. rest = back
    BY <1>1
  <2> QED
    BY <2>1, <2>2, Zenon
<1>4. into = buf \o front
  BY <1>1
<1> HIDE DEF front
<1>5. /\ into \in Seq(Cells)
      /\ Len(into) = Len(buf) + n
      /\ Elems(into) = Elems(buf) \cup Elems(front)
  BY <1>3, <1>4, ElemsConcat
<1>6. Len(into) <= size /\ Len(rest) <= Len(pipe)
      /\ Len(into) + Len(rest) = Len(buf) + Len(pipe)
  <2>1. n \in Nat /\ n <= size - Len(buf) /\ n <= Len(pipe)
    BY <1>1, <1>2
  <2>2. Len(into) = Len(buf) + n /\ Len(rest) = Len(pipe) - n
    BY <1>3, <1>5
  <2> QED
    BY <1>2, <2>1, <2>2
<1>7. Len(buf) + Len(pipe) <= size => Elems(rest) = {}
  <2>1. SUFFICES ASSUME Len(buf) + Len(pipe) <= size PROVE Elems(rest) = {}
    OBVIOUS
  <2>2. Len(rest) = 0
    BY <1>1, <1>2, <1>3, <2>1
  <2> QED
    BY <2>2 DEF Elems
<1>8. Elems(into) \cup Elems(rest) = Elems(buf) \cup Elems(pipe)
  BY <1>3, <1>5
<1> QED
  BY <1>3, <1>5, <1>6, <1>7, <1>8 DEF Moved

\* A read of wait_for_nfqws2_ready does not upset the order.
LEMMA ReadInOrder ==
  ASSUME TypeOK, Dropped, pc = "wait", NEW into, NEW rest,
         into = Read(waitbuf, WaitSize).buf, rest = Read(waitbuf, WaitSize).rest
  PROVE  /\ "bind2" \in Elems(into) => "bind1" \in Elems(into)
         /\ \A k \in 1 .. Len(rest) :
              rest[k] = "bind2" => IF k = 1 THEN "bind1" \in Elems(into)
                                            ELSE rest[k - 1] = "bind1"
<1>1. WaitSize \in Nat /\ waitbuf \in Seq(Cells) /\ Len(waitbuf) <= WaitSize
  BY SizesOK DEF TypeOK
<1>2. PICK n \in 0 .. Len(pipe) :
        /\ into = waitbuf \o SubSeq(pipe, 1, n)
        /\ rest = SubSeq(pipe, n + 1, Len(pipe))
  BY <1>1, ReadCuts
<1> DEFINE front == SubSeq(pipe, 1, n)
<1>3. pipe \in Seq(Cells) /\ Len(pipe) \in Nat
  BY LenProperties DEF TypeOK
<1>4. /\ front \in Seq(Cells) /\ rest \in Seq(Cells)
      /\ Len(front) = n /\ Len(rest) = Len(pipe) - n
      /\ \A k \in 1 .. n : front[k] = pipe[k]
      /\ \A k \in 1 .. Len(pipe) - n : rest[k] = pipe[n + k]
  BY <1>2, <1>3, Cut
<1>5. into = waitbuf \o front
  BY <1>2
<1> HIDE DEF front
<1>6. Elems(into) = Elems(waitbuf) \cup Elems(front)
  BY <1>1, <1>4, <1>5, ElemsConcat
<1>7. \A k \in 1 .. n : pipe[k] \in Elems(into)
  BY <1>4, <1>6 DEF Elems
<1>8. \A k \in 1 .. Len(pipe) :
        pipe[k] = "bind2" => IF k = 1 THEN "bind1" \in Elems(waitbuf) ELSE pipe[k - 1] = "bind1"
  BY DEF Dropped, InOrder
<1>9. ASSUME "bind2" \in Elems(into) PROVE "bind1" \in Elems(into)
  <2>1. CASE "bind2" \in Elems(waitbuf)
    BY <1>6, <2>1 DEF Dropped
  <2>2. CASE "bind2" \in Elems(front)
    <3>1. PICK k \in 1 .. n : pipe[k] = "bind2"
      BY <1>4, <2>2 DEF Elems
    <3>2. CASE k = 1
      BY <1>3, <1>6, <1>8, <3>1, <3>2
    <3>3. CASE k # 1
      <4>1. k - 1 \in 1 .. n /\ k \in 1 .. Len(pipe)
        BY <1>3, <3>3
      <4>2. pipe[k - 1] = "bind1"
        BY <1>8, <3>1, <3>3, <4>1
      <4> QED
        BY <1>7, <4>1, <4>2
    <3> QED
      BY <3>2, <3>3
  <2> QED
    BY <1>6, <1>9, <2>1, <2>2
<1>10. ASSUME NEW k \in 1 .. Len(rest), rest[k] = "bind2"
       PROVE  IF k = 1 THEN "bind1" \in Elems(into) ELSE rest[k - 1] = "bind1"
  <2>1. /\ n + k \in 1 .. Len(pipe) /\ pipe[n + k] = "bind2"
        /\ k # 1 => k - 1 \in 1 .. Len(rest) /\ rest[k - 1] = pipe[n + (k - 1)]
    BY <1>3, <1>4, <1>10
  <2>2. CASE k # 1
    <3>1. n + k # 1 /\ n + (k - 1) = (n + k) - 1
      BY <2>2
    <3> QED
      BY <1>8, <2>1, <2>2, <3>1
  <2>3. CASE k = 1 /\ n = 0
    BY <1>6, <1>8, <2>1, <2>3
  <2>4. CASE k = 1 /\ n # 0
    <3>1. (n + k) - 1 = n /\ n \in 1 .. n /\ n + k # 1
      BY <2>4
    <3> QED
      BY <1>7, <1>8, <2>1, <2>4, <3>1
  <2> QED
    BY <2>2, <2>3, <2>4
<1> QED
  BY <1>9, <1>10

\* What write() does.
LEMMA PrintsCells ==
  ASSUME TypeOK, NEW cells \in Seq(Cells), Prints(cells)
  PROVE  /\ pipe' \in Seq(Cells) /\ Len(pipe') <= PipeSize
         /\ printed' \in Seq(Cells)
         /\ Len(pipe') = Len(pipe) + Len(cells)
         /\ Len(printed') = Len(printed) + Len(cells)
         /\ Elems(pipe') = Elems(pipe) \cup Elems(cells)
         /\ Printed' = Printed \cup Elems(cells)
<1>1. pipe \in Seq(Cells) /\ printed \in Seq(Cells) /\ PipeSize \in Nat
  BY SizesOK DEF TypeOK
<1>2. pipe' = pipe \o cells /\ printed' = printed \o cells
      /\ Len(pipe) + Len(cells) <= PipeSize
  BY DEF Prints
<1>3. /\ pipe \o cells \in Seq(Cells)
      /\ Len(pipe \o cells) = Len(pipe) + Len(cells)
      /\ Elems(pipe \o cells) = Elems(pipe) \cup Elems(cells)
  BY <1>1, ElemsConcat
<1>4. /\ printed \o cells \in Seq(Cells)
      /\ Len(printed \o cells) = Len(printed) + Len(cells)
      /\ Elems(printed \o cells) = Elems(printed) \cup Elems(cells)
  BY <1>1, ElemsConcat
<1>5. /\ pipe' \in Seq(Cells) /\ Len(pipe') = Len(pipe) + Len(cells)
      /\ Elems(pipe') = Elems(pipe) \cup Elems(cells)
  BY <1>2, <1>3, Zenon
<1>6. /\ printed' \in Seq(Cells) /\ Len(printed') = Len(printed) + Len(cells)
      /\ Elems(printed') = Elems(printed) \cup Elems(cells)
  BY <1>2, <1>4, Zenon
<1>7. Printed' = Printed \cup Elems(cells)
  BY <1>6 DEF Printed
<1> QED
  BY <1>2, <1>5, <1>6, <1>7, Zenon

\* It does not upset the order, if the second half of the binding message is not the first cell.
LEMMA PrintsInOrder ==
  ASSUME TypeOK, InOrder, NEW cells \in Seq(Cells), Prints(cells), waitbuf' = waitbuf,
         \A k \in 1 .. Len(cells) : cells[k] = "bind2" => k # 1 /\ cells[k - 1] = "bind1"
  PROVE  InOrder'
<1>1. pipe \in Seq(Cells) /\ Len(pipe) \in Nat /\ Len(cells) \in Nat
  BY LenProperties DEF TypeOK
<1>2. /\ pipe' = pipe \o cells /\ Len(pipe') = Len(pipe) + Len(cells)
      /\ \A k \in 1 .. Len(pipe) + Len(cells) :
           pipe'[k] = IF k <= Len(pipe) THEN pipe[k] ELSE cells[k - Len(pipe)]
  BY <1>1, ConcatProperties DEF Prints
<1>3. SUFFICES ASSUME NEW k \in 1 .. Len(pipe'), pipe'[k] = "bind2"
               PROVE  IF k = 1 THEN "bind1" \in Elems(waitbuf) ELSE pipe'[k - 1] = "bind1"
  BY DEF InOrder, Elems
<1>4. CASE k <= Len(pipe)
  <2>1. k \in 1 .. Len(pipe) /\ pipe[k] = "bind2"
    BY <1>1, <1>2, <1>3, <1>4
  <2>2. IF k = 1 THEN "bind1" \in Elems(waitbuf) ELSE pipe[k - 1] = "bind1"
    BY <2>1 DEF InOrder
  <2>3. k # 1 => pipe'[k - 1] = pipe[k - 1]
    <3>1. k # 1 => k - 1 \in 1 .. Len(pipe) + Len(cells) /\ k - 1 <= Len(pipe)
      BY <1>1, <2>1
    <3> QED
      BY <1>2, <3>1
  <2> QED
    BY <2>2, <2>3
<1>5. CASE k > Len(pipe)
  <2>1. k - Len(pipe) \in 1 .. Len(cells) /\ cells[k - Len(pipe)] = "bind2"
    BY <1>1, <1>2, <1>3, <1>5
  <2>2. k - Len(pipe) # 1 /\ cells[(k - Len(pipe)) - 1] = "bind1"
    BY <2>1
  <2>3. /\ k - 1 \in 1 .. Len(pipe) + Len(cells) /\ ~(k - 1 <= Len(pipe)) /\ k # 1
        /\ (k - 1) - Len(pipe) = (k - Len(pipe)) - 1
    BY <1>1, <1>2, <2>1, <2>2
  <2>4. pipe'[k - 1] = cells[(k - 1) - Len(pipe)]
    BY <1>2, <2>3
  <2> QED
    BY <2>2, <2>3, <2>4
<1> QED
  BY <1>1, <1>2, <1>4, <1>5

-----------------------------------------------------------------------------
(* nfqws2.                                                                 *)

\* The actions of nfqws2 that print, with what they print.
PrintStep(cells) ==
  \/ ExecFails /\ cells = <<"execv_failed">>
  \/ BootPrints /\ \E m \in Boots : cells = <<m>>
  \/ Binds /\ cells = <<"bind1", "bind2">>
  \/ Receives /\ cells = <<"packet">>
  \/ Desyncs /\ cells = <<"lua_func">>
  \/ Complains /\ cells = <<"error">>

Silent == Exec \/ Passes \/ Dies \/ Terminates \/ IsKilled

LEMMA ChildSteps ==
  ASSUME Child
  PROVE  Silent \/ \E cells \in Seq(Cells) : PrintStep(cells) /\ Prints(cells)
<1>1. \A m \in Boots : <<m>> \in Seq(Cells)
  BY SizesOK DEF Cells, Markers
<1>2. <<"bind1", "bind2">> \in Seq(Cells) /\ <<"execv_failed">> \in Seq(Cells)
      /\ <<"packet">> \in Seq(Cells) /\ <<"lua_func">> \in Seq(Cells) /\ <<"error">> \in Seq(Cells)
  BY DEF Cells, Markers
<1>3. CASE ExecFails
  BY <1>2, <1>3 DEF ExecFails, PrintStep
<1>4. CASE BootPrints
  <2>1. PICK m \in Boots : Prints(<<m>>)
    BY <1>4 DEF BootPrints
  <2>2. PrintStep(<<m>>)
    BY <1>4 DEF PrintStep
  <2> QED
    BY <1>1, <2>1, <2>2
<1>5. CASE Binds
  BY <1>2, <1>5 DEF Binds, PrintStep
<1>6. CASE Receives
  BY <1>2, <1>6 DEF Receives, PrintStep
<1>7. CASE Desyncs
  BY <1>2, <1>7 DEF Desyncs, PrintStep
<1>8. CASE Complains
  BY <1>2, <1>8 DEF Complains, PrintStep
<1> QED
  BY <1>3, <1>4, <1>5, <1>6, <1>7, <1>8 DEF Child, Silent

LEMMA SilentSame ==
  Silent => UNCHANGED <<threadVars, signal, pipe, printed>>
BY DEF Silent, Exec, Passes, Dies, Terminates, IsKilled

LEMMA PrintsSame ==
  ASSUME NEW cells, PrintStep(cells)
  PROVE  UNCHANGED <<threadVars, signal>>
BY DEF PrintStep, ExecFails, BootPrints, Binds, Receives, Desyncs, Complains

\* The second half of the binding message is printed after the first only.
LEMMA PrintOrder ==
  ASSUME NEW cells, PrintStep(cells)
  PROVE  \A k \in 1 .. Len(cells) : cells[k] = "bind2" => k # 1 /\ cells[k - 1] = "bind1"
<1>1. CASE cells = <<"bind1", "bind2">>
  BY <1>1
<1>2. CASE \E m : cells = <<m>> /\ m # "bind2"
  BY <1>2
<1>3. \A m \in Boots : m # "bind2"
  BY SizesOK
<1> QED
  BY <1>1, <1>2, <1>3 DEF PrintStep

-----------------------------------------------------------------------------
(* Types.                                                                  *)

LEMMA InitTypes == Init => TypeOK
<1> SUFFICES ASSUME Init PROVE TypeOK
  OBVIOUS
<1>1. /\ waitbuf \in Seq(Cells) /\ Len(waitbuf) <= WaitSize
      /\ logs \in Seq(Cells) /\ Len(logs) <= LogSize
      /\ pipe \in Seq(Cells) /\ Len(pipe) <= PipeSize
      /\ printed \in Seq(Cells)
  BY SizesOK, ElemsEmpty DEF Init
<1> QED
  BY <1>1 DEF Init, TypeOK, Results

LEMMA ChildTypes ==
  ASSUME TypeOK, Child PROVE TypeOK'
<1>1. CASE Silent
  <2>1. /\ request' \in {"none", "sent", "received", "altered", "answered"}
        /\ child' \in {"forked", "booting", "bound", "zombie", "reaped"}
        /\ code' \in Nat
    BY <1>1 DEF TypeOK, Silent, Exec, Passes, Dies, Terminates, IsKilled, Exits, childVars,
       SIGTERM, SIGKILL
  <2>2. UNCHANGED <<threadVars, signal, pipe, printed>>
    BY <1>1, SilentSame
  <2> QED
    BY <2>1, <2>2 DEF TypeOK, threadVars
<1>2. ASSUME NEW cells \in Seq(Cells), PrintStep(cells), Prints(cells) PROVE TypeOK'
  <2>1. /\ pipe' \in Seq(Cells) /\ Len(pipe') <= PipeSize
        /\ printed' \in Seq(Cells)
    BY <1>2, PrintsCells
  <2>2. /\ request' \in {"none", "sent", "received", "altered", "answered"}
        /\ child' \in {"forked", "booting", "bound", "zombie", "reaped"}
        /\ code' \in Nat
    BY <1>2 DEF TypeOK, PrintStep, ExecFails, BootPrints, Binds, Receives, Desyncs, Complains,
       Exits, childVars
  <2>3. UNCHANGED <<threadVars, signal>>
    BY <1>2, PrintsSame
  <2> QED
    BY <2>1, <2>2, <2>3 DEF TypeOK, threadVars
<1> QED
  BY <1>1, <1>2, ChildSteps

LEMMA ThreadTypes ==
  ASSUME TypeOK, Thread PROVE TypeOK'
<1> USE DEF At, Goto, childVars
<1>1. CASE WaitReads
  <2>1. /\ waitbuf' \in Seq(Cells) /\ Len(waitbuf') <= WaitSize
        /\ pipe' \in Seq(Cells) /\ Len(pipe') <= Len(pipe)
    <3>1. /\ waitbuf \in Seq(Cells) /\ WaitSize \in Nat /\ Len(waitbuf) <= WaitSize
          /\ waitbuf' = Read(waitbuf, WaitSize).buf /\ pipe' = Read(waitbuf, WaitSize).rest
      BY <1>1, SizesOK DEF WaitReads, TypeOK
    <3>2. Moved(waitbuf, WaitSize, waitbuf', pipe')
      BY <3>1, ReadMoves
    <3> QED
      BY <3>2 DEF Moved
  <2>2. Len(pipe') <= PipeSize
    <3>1. Len(pipe) \in Nat /\ Len(pipe') \in Nat /\ PipeSize \in Nat /\ Len(pipe) <= PipeSize
      BY <2>1, LenProperties, SizesOK DEF TypeOK
    <3> QED
      BY <2>1, <3>1
  <2>3. confirmed' \in BOOLEAN /\ pc' \in {"wait", "http"}
        /\ UNCHANGED <<logs, http, verdict, summary, childVars, request, signal, printed>>
    BY <1>1 DEF WaitReads
  <2> QED
    BY <2>1, <2>2, <2>3 DEF TypeOK
<1>2. CASE DrainReads
  <2>1. /\ logs' \in Seq(Cells) /\ Len(logs') <= LogSize
        /\ pipe' \in Seq(Cells) /\ Len(pipe') <= Len(pipe)
    <3>1. /\ logs \in Seq(Cells) /\ LogSize \in Nat /\ Len(logs) <= LogSize
          /\ logs' = Read(logs, LogSize).buf /\ pipe' = Read(logs, LogSize).rest
      BY <1>2, SizesOK DEF DrainReads, TypeOK
    <3>2. Moved(logs, LogSize, logs', pipe')
      BY <3>1, ReadMoves
    <3> QED
      BY <3>2 DEF Moved
  <2>2. Len(pipe') <= PipeSize
    <3>1. Len(pipe) \in Nat /\ Len(pipe') \in Nat /\ PipeSize \in Nat /\ Len(pipe) <= PipeSize
      BY <2>1, LenProperties, SizesOK DEF TypeOK
    <3> QED
      BY <2>1, <3>1
  <2>3. pc' \in {"reap", "drain_wait"}
        /\ UNCHANGED <<confirmed, waitbuf, http, verdict, summary, childVars, request, signal,
                       printed>>
    BY <1>2 DEF DrainReads
  <2> QED
    BY <2>1, <2>2, <2>3 DEF TypeOK
<1>3. CASE Judges
  <2>1. \A res : /\ testing_profile_verdict(res) \in Results
                 /\ testing_profile_summary(res) \in DOMAIN SummaryWord
    BY DEF testing_profile_verdict, testing_profile_summary, Results, SummaryWord
  <2>2. /\ pc' = "done" /\ verdict' \in Results /\ summary' \in DOMAIN SummaryWord
        /\ UNCHANGED <<confirmed, waitbuf, logs, http, child, code, request, signal, pipe, printed>>
    BY <1>3, <2>1 DEF Judges
  <2> QED
    BY <2>2 DEF TypeOK
<1>4. CASE WaitEnds \/ Sends \/ DrainWaits \/ DrainEnds \/ Reaps
  BY <1>4 DEF WaitEnds, Sends, DrainWaits, DrainEnds, Reaps, TypeOK, threadVars
<1>5. CASE Answered \/ NotAnswered \/ Kills
  BY <1>5 DEF Answered, NotAnswered, Kills, TypeOK, SIGTERM, SIGKILL
<1> QED
  BY <1>1, <1>2, <1>3, <1>4, <1>5 DEF Thread

-----------------------------------------------------------------------------
(* Cells are kept.                                                         *)

LEMMA InitKept == Init => Kept
  BY ElemsEmpty DEF Init, Kept, Printed

LEMMA ChildKept ==
  ASSUME TypeOK, Kept, Child PROVE Kept'
<1>1. CASE Silent
  <2>1. UNCHANGED <<pc, waitbuf, logs, pipe, printed>>
    BY <1>1, SilentSame DEF threadVars
  <2> QED
    BY <2>1 DEF Kept, Printed
<1>2. ASSUME NEW cells \in Seq(Cells), PrintStep(cells), Prints(cells) PROVE Kept'
  <2>1. UNCHANGED <<pc, waitbuf, logs>>
    BY <1>2, PrintsSame DEF threadVars
  <2>2. /\ Len(pipe') = Len(pipe) + Len(cells)
        /\ Len(printed') = Len(printed) + Len(cells)
        /\ Elems(pipe') = Elems(pipe) \cup Elems(cells)
        /\ Printed' = Printed \cup Elems(cells)
    BY <1>2, PrintsCells
  <2>3. Printed' = Elems(waitbuf') \cup Elems(logs') \cup Elems(pipe')
    BY <2>1, <2>2 DEF Kept
  <2>4. Len(printed') = Len(waitbuf') + Len(logs') + Len(pipe')
    <3>1. /\ Len(waitbuf) \in Nat /\ Len(logs) \in Nat /\ Len(pipe) \in Nat
          /\ Len(printed) \in Nat /\ Len(cells) \in Nat
      BY <1>2, LenProperties DEF TypeOK
    <3>2. Len(waitbuf') = Len(waitbuf) /\ Len(logs') = Len(logs)
      BY <2>1
    <3>3. Len(printed) = Len(waitbuf) + Len(logs) + Len(pipe)
      BY DEF Kept
    <3>4. Len(pipe') = Len(pipe) + Len(cells) /\ Len(printed') = Len(printed) + Len(cells)
      BY <2>2
    <3> QED
      BY <3>1, <3>2, <3>3, <3>4
  <2> QED
    BY <2>1, <2>3, <2>4 DEF Kept
<1> QED
  BY <1>1, <1>2, ChildSteps

LEMMA ThreadPrintsNothing == Thread => printed' = printed
BY DEF Thread, WaitReads, WaitEnds, Sends, Answered, NotAnswered, DrainReads, DrainWaits, DrainEnds,
   Reaps, Kills, Judges

LEMMA ThreadKept ==
  ASSUME TypeOK, Kept, Thread PROVE Kept'
<1> USE DEF At, Goto
<1>1. /\ Len(waitbuf) \in Nat /\ Len(logs) \in Nat /\ Len(pipe) \in Nat /\ Len(printed) \in Nat
  BY LenProperties DEF TypeOK
<1>2. printed' = printed /\ Printed' = Printed
  BY ThreadPrintsNothing DEF Printed
<1>3. CASE WaitReads
  <2>1. /\ waitbuf \in Seq(Cells) /\ WaitSize \in Nat /\ Len(waitbuf) <= WaitSize
        /\ waitbuf' = Read(waitbuf, WaitSize).buf /\ pipe' = Read(waitbuf, WaitSize).rest
    BY <1>3, SizesOK DEF WaitReads, TypeOK
  <2>2. /\ Len(waitbuf') + Len(pipe') = Len(waitbuf) + Len(pipe)
        /\ Elems(waitbuf') \cup Elems(pipe') = Elems(waitbuf) \cup Elems(pipe)
        /\ waitbuf' \in Seq(Cells) /\ pipe' \in Seq(Cells)
    <3>1. Moved(waitbuf, WaitSize, waitbuf', pipe')
      BY <2>1, ReadMoves
    <3> QED
      BY <3>1 DEF Moved
  <2>3. Len(waitbuf') \in Nat /\ Len(pipe') \in Nat
    BY <2>2, LenProperties
  <2>4. logs' = logs /\ pc = "wait"
    BY <1>3 DEF WaitReads
  <2>5. Len(printed') = Len(waitbuf') + Len(logs') + Len(pipe')
    <3>1. Len(logs') = Len(logs) /\ Len(printed') = Len(printed)
      BY <1>2, <2>4
    <3>2. Len(printed) = Len(waitbuf) + Len(logs) + Len(pipe)
      BY DEF Kept
    <3>3. Len(waitbuf') + Len(pipe') = Len(waitbuf) + Len(pipe)
      BY <2>2
    <3> QED
      BY <1>1, <2>3, <3>1, <3>2, <3>3
  <2>6. Printed' = Elems(waitbuf') \cup Elems(logs') \cup Elems(pipe')
    BY <1>2, <2>2, <2>4 DEF Kept
  <2> QED
    BY <2>4, <2>5, <2>6 DEF Kept
<1>4. CASE DrainReads
  <2>1. /\ logs \in Seq(Cells) /\ LogSize \in Nat /\ Len(logs) <= LogSize
        /\ logs' = Read(logs, LogSize).buf /\ pipe' = Read(logs, LogSize).rest
    BY <1>4, SizesOK DEF DrainReads, TypeOK
  <2>2. /\ Len(logs') + Len(pipe') = Len(logs) + Len(pipe)
        /\ Elems(logs') \cup Elems(pipe') = Elems(logs) \cup Elems(pipe)
        /\ logs' \in Seq(Cells) /\ pipe' \in Seq(Cells)
    <3>1. Moved(logs, LogSize, logs', pipe')
      BY <2>1, ReadMoves
    <3> QED
      BY <3>1 DEF Moved
  <2>3. Len(logs') \in Nat /\ Len(pipe') \in Nat
    BY <2>2, LenProperties
  <2>4. waitbuf' = waitbuf /\ pc' \in {"reap", "drain_wait"}
    BY <1>4 DEF DrainReads
  <2>5. Len(printed') = Len(waitbuf') + Len(logs') + Len(pipe')
    <3>1. Len(waitbuf') = Len(waitbuf) /\ Len(printed') = Len(printed)
      BY <1>2, <2>4
    <3>2. Len(printed) = Len(waitbuf) + Len(logs) + Len(pipe)
      BY DEF Kept
    <3>3. Len(logs') + Len(pipe') = Len(logs) + Len(pipe)
      BY <2>2
    <3> QED
      BY <1>1, <2>3, <3>1, <3>2, <3>3
  <2>6. Printed' = Elems(waitbuf') \cup Elems(logs') \cup Elems(pipe')
    BY <1>2, <2>2, <2>4 DEF Kept
  <2> QED
    BY <2>4, <2>5, <2>6 DEF Kept
<1>5. CASE WaitEnds \/ Sends \/ Answered \/ NotAnswered \/ DrainWaits \/ DrainEnds \/ Reaps \/ Kills
             \/ Judges
  <2>1. /\ UNCHANGED <<waitbuf, logs, pipe>>
        /\ pc' \in {"wait", "http", "drain"} => pc \in {"wait", "http", "drain"}
    BY <1>5 DEF WaitEnds, Sends, Answered, NotAnswered, DrainWaits, DrainEnds, Reaps, Kills, Judges,
       threadVars
  <2> QED
    BY <1>2, <2>1 DEF Kept
<1> QED
  BY <1>3, <1>4, <1>5 DEF Thread

-----------------------------------------------------------------------------
(* The story the output tells.                                             *)

LEMMA InitStory == Init => Story
<1>1. Init => Printed = {}
  BY ElemsEmpty DEF Init, Printed
<1> QED
  BY <1>1 DEF Init, Story, Passed

LEMMA ChildStory ==
  ASSUME TypeOK, Story, Child PROVE Story'
<1> USE DEF Passed, Bound
<1>1. CASE Silent
  <2>1. printed' = printed /\ Printed' = Printed /\ UNCHANGED <<pc, http>>
    BY <1>1, SilentSame DEF Printed, threadVars
  <2>2. CASE Exec
    BY <2>1, <2>2 DEF Exec, Story
  <2>3. CASE Passes
    BY <2>1, <2>3 DEF Passes, Story, childVars
  <2>4. CASE Dies
    BY <2>1, <2>4 DEF Dies, Exits, Story
  <2>5. CASE Terminates \/ IsKilled
    BY <2>1, <2>5 DEF Terminates, IsKilled, Exits, Alive, Story
  <2> QED
    BY <1>1, <2>2, <2>3, <2>4, <2>5 DEF Silent
<1>2. ASSUME NEW cells \in Seq(Cells), PrintStep(cells), Prints(cells) PROVE Story'
  <2>1. Printed' = Printed \cup Elems(cells)
    BY <1>2, PrintsCells
  <2>2. UNCHANGED <<pc, http>>
    BY <1>2, PrintsSame DEF threadVars
  <2>3. CASE ExecFails /\ cells = <<"execv_failed">>
    <3>1. Elems(cells) = {"execv_failed"}
      BY <2>3, ElemsOne DEF Cells, Markers
    <3> QED
      BY <2>1, <2>2, <2>3, <3>1 DEF ExecFails, Exits, Story
  <2>4. CASE BootPrints /\ \E m \in Boots : cells = <<m>>
    <3>1. Elems(cells) \subseteq {"noise", "error", "need_queue"}
      BY <2>4, ElemsOne, SizesOK DEF Cells, Markers
    <3> QED
      BY <2>1, <2>2, <2>4, <3>1 DEF BootPrints, Story, childVars
  <2>5. CASE Binds /\ cells = <<"bind1", "bind2">>
    <3>1. Elems(cells) = {"bind1", "bind2"}
      BY <2>5, ElemsTwo DEF Cells, Markers
    <3> QED
      BY <2>1, <2>2, <2>5, <3>1 DEF Binds, Story
  <2>6. CASE Receives /\ cells = <<"packet">>
    <3>1. Elems(cells) = {"packet"}
      BY <2>6, ElemsOne DEF Cells, Markers
    <3> QED
      BY <2>1, <2>2, <2>6, <3>1 DEF Receives, Story, childVars
  <2>7. CASE Desyncs /\ cells = <<"lua_func">>
    <3>1. Elems(cells) = {"lua_func"}
      BY <2>7, ElemsOne DEF Cells, Markers
    <3> QED
      BY <2>1, <2>2, <2>7, <3>1 DEF Desyncs, Story, childVars
  <2>8. CASE Complains /\ cells = <<"error">>
    <3>1. Elems(cells) = {"error"}
      BY <2>8, ElemsOne DEF Cells, Markers
    <3> QED
      BY <2>1, <2>2, <2>8, <3>1 DEF Complains, Story, childVars
  <2> QED
    BY <1>2, <2>3, <2>4, <2>5, <2>6, <2>7, <2>8 DEF PrintStep
<1> QED
  BY <1>1, <1>2, ChildSteps

LEMMA ThreadStory ==
  ASSUME TypeOK, Story, Thread PROVE Story'
<1> USE DEF At, Goto, Passed, Bound, childVars
<1>1. Printed' = Printed
  BY ThreadPrintsNothing DEF Printed
<1>2. CASE WaitReads \/ WaitEnds \/ DrainReads \/ DrainEnds \/ Judges
  BY <1>1, <1>2 DEF WaitReads, WaitEnds, DrainReads, DrainEnds, Judges, Story
<1>3. CASE Sends
  BY <1>1, <1>3 DEF Sends, Story, threadVars
<1>4. CASE Answered \/ NotAnswered \/ Kills
  BY <1>1, <1>4 DEF Answered, NotAnswered, Kills, Story
<1>5. CASE DrainWaits \/ Reaps
  BY <1>1, <1>5 DEF DrainWaits, Reaps, Story
<1> QED
  BY <1>2, <1>3, <1>4, <1>5 DEF Thread

-----------------------------------------------------------------------------
(* What the wait dropped.                                                  *)

LEMMA InitDropped == Init => Dropped
<1> SUFFICES ASSUME Init PROVE Dropped
  OBVIOUS
<1>1. confirmed = FALSE /\ Elems(waitbuf) = {} /\ 1 .. Len(pipe) = {}
  BY ElemsEmpty DEF Init
<1>2. confirmed = (Bound \subseteq Elems(waitbuf))
  BY <1>1 DEF Bound
<1> QED
  BY <1>1, <1>2 DEF Dropped, InOrder

LEMMA ChildDropped ==
  ASSUME TypeOK, Dropped, Child PROVE Dropped'
<1>1. UNCHANGED <<pc, confirmed, waitbuf>>
  BY ChildSteps, SilentSame, PrintsSame DEF threadVars
<1>2. ASSUME pc = "wait" PROVE InOrder'
  <2>1. InOrder
    BY <1>2 DEF Dropped
  <2>2. CASE Silent
    <3>1. pipe' = pipe
      BY <2>2, SilentSame
    <3> QED
      BY <1>1, <2>1, <3>1 DEF InOrder
  <2>3. ASSUME NEW cells \in Seq(Cells), PrintStep(cells), Prints(cells) PROVE InOrder'
    BY <1>1, <2>1, <2>3, PrintOrder, PrintsInOrder
  <2> QED
    BY <2>2, <2>3, ChildSteps
<1> QED
  BY <1>1, <1>2 DEF Dropped

LEMMA ThreadDropped ==
  ASSUME TypeOK, Kept, Story, Dropped, Thread PROVE Dropped'
<1> USE DEF At, Goto
<1>1. CASE WaitReads
  <2>1. /\ waitbuf \in Seq(Cells) /\ WaitSize \in Nat /\ Len(waitbuf) <= WaitSize
        /\ waitbuf' = Read(waitbuf, WaitSize).buf /\ pipe' = Read(waitbuf, WaitSize).rest
        /\ pc = "wait" /\ confirmed' = ("bind" \in Found(waitbuf'))
    BY <1>1, SizesOK DEF WaitReads, TypeOK
  <2>2. Moved(waitbuf, WaitSize, waitbuf', pipe')
    BY <2>1, ReadMoves
  <2>3. "packet" \notin Elems(waitbuf')
    <3>1. "packet" \notin Printed
      BY <2>1 DEF Story, Passed
    <3> QED
      BY <2>2, <3>1 DEF Kept, Moved
  <2>4. confirmed' = (Bound \subseteq Elems(waitbuf'))
    <3>1. "bind" \notin Elems(waitbuf')
      BY <2>2, ElemsType DEF Moved, Cells, Markers
    <3> QED
      BY <2>1, <3>1 DEF Found, Bound, Markers
  <2>5. /\ "bind2" \in Elems(waitbuf') => "bind1" \in Elems(waitbuf')
        /\ InOrder'
    BY <2>1, ReadInOrder DEF InOrder
  <2> QED
    BY <2>3, <2>4, <2>5 DEF Dropped
<1>2. CASE WaitEnds \/ Sends \/ Answered \/ NotAnswered \/ DrainReads \/ DrainWaits \/ DrainEnds
             \/ Reaps \/ Kills \/ Judges
  <2>1. /\ UNCHANGED <<confirmed, waitbuf>>
        /\ pc' # "wait"
    BY <1>2 DEF WaitEnds, Sends, Answered, NotAnswered, DrainReads, DrainWaits, DrainEnds, Reaps,
       Kills, Judges, threadVars
  <2> QED
    BY <2>1 DEF Dropped
<1> QED
  BY <1>1, <1>2 DEF Thread

-----------------------------------------------------------------------------
(* What the drain collected.                                               *)

LEMMA InitCollected == Init => Collected
  BY DEF Init, Collected

LEMMA ChildCollected ==
  ASSUME TypeOK, Collected, Child PROVE Collected'
<1>1. UNCHANGED <<pc, http, waitbuf, logs>>
  BY ChildSteps, SilentSame, PrintsSame DEF threadVars
<1>2. Len(printed) <= Len(printed') /\ Len(printed') \in Nat
  <2>1. Len(printed) \in Nat
    BY LenProperties DEF TypeOK
  <2>2. CASE Silent
    BY <2>1, <2>2, SilentSame
  <2>3. ASSUME NEW cells \in Seq(Cells), PrintStep(cells), Prints(cells)
        PROVE  Len(printed) <= Len(printed') /\ Len(printed') \in Nat
    <3>1. Len(cells) \in Nat /\ Len(printed') = Len(printed) + Len(cells)
      BY <2>3, LenProperties, PrintsCells
    <3> QED
      BY <2>1, <3>1
  <2> QED
    BY <2>2, <2>3, ChildSteps
<1>3. Len(printed') - Len(waitbuf') <= LogSize => Len(printed) - Len(waitbuf) <= LogSize
  <2>1. Len(printed) \in Nat /\ Len(waitbuf) \in Nat /\ Len(waitbuf') = Len(waitbuf) /\ LogSize \in Nat
    BY <1>1, LenProperties, SizesOK DEF TypeOK
  <2> QED
    BY <1>2, <2>1
<1> QED
  BY <1>1, <1>3 DEF Collected

LEMMA ThreadCollected ==
  ASSUME TypeOK, Kept, Story, Collected, Thread PROVE Collected'
<1> USE DEF At, Goto
<1>1. printed' = printed
  BY ThreadPrintsNothing
<1>2. CASE DrainReads
  <2>1. /\ logs \in Seq(Cells) /\ LogSize \in Nat /\ Len(logs) <= LogSize
        /\ logs' = Read(logs, LogSize).buf /\ pipe' = Read(logs, LogSize).rest
        /\ waitbuf' = waitbuf /\ http' = http /\ pc \in {"drain", "drain_on"}
    BY <1>2, SizesOK DEF DrainReads, TypeOK
  <2>2. Moved(logs, LogSize, logs', pipe')
    BY <2>1, ReadMoves
  <2>3. ASSUME http, Len(printed) - Len(waitbuf) <= LogSize
        PROVE  Bound \cup {"packet"} \subseteq Elems(waitbuf) \cup Elems(logs')
    <3>1. Elems(pipe') = {}
      <4>1. Len(waitbuf) \in Nat /\ Len(logs) \in Nat /\ Len(pipe) \in Nat
        BY LenProperties DEF TypeOK
      <4>2. Len(printed) = Len(waitbuf) + Len(logs) + Len(pipe)
        BY DEF Kept
      <4>3. Len(logs) + Len(pipe) <= LogSize
        BY <2>1, <2>3, <4>1, <4>2
      <4> QED
        BY <2>2, <4>3 DEF Moved
    <3>2. Printed = Elems(waitbuf) \cup Elems(logs')
      BY <2>2, <3>1 DEF Kept, Moved
    <3>3. Bound \cup {"packet"} \subseteq Printed
      BY <2>3 DEF Story, Passed
    <3> QED
      BY <3>2, <3>3
  <2> QED
    BY <1>1, <2>1, <2>3 DEF Collected
<1>3. CASE DrainWaits \/ DrainEnds \/ Reaps \/ Kills \/ Judges
  <2>1. /\ UNCHANGED <<waitbuf, logs, http>>
        /\ pc \in {"drain_wait", "drain_on", "reap", "kill_wait", "judge", "done"}
    BY <1>3 DEF DrainWaits, DrainEnds, Reaps, Kills, Judges
  <2> QED
    BY <1>1, <2>1 DEF Collected
<1>4. CASE WaitReads \/ WaitEnds \/ Sends \/ Answered \/ NotAnswered
  <2>1. pc' \in {"wait", "http", "drain"}
    BY <1>4 DEF WaitReads, WaitEnds, Sends, Answered, NotAnswered, threadVars
  <2> QED
    BY <2>1 DEF Collected
<1> QED
  BY <1>2, <1>3, <1>4 DEF Thread

-----------------------------------------------------------------------------
(* The judgement.                                                          *)

\* The two chains of conditions agree, on every record.
LEMMA ChainsAgree ==
  ASSUME NEW res
  PROVE  SummaryWord[testing_profile_summary(res)] = testing_profile_verdict(res)
<1>1. CASE Broken(res)
  BY <1>1 DEF SummaryWord, testing_profile_summary, testing_profile_verdict
<1>2. CASE ~Broken(res) /\ ~res.test_success
  BY <1>2 DEF SummaryWord, testing_profile_summary, testing_profile_verdict
<1>3. CASE ~Broken(res) /\ res.test_success
  BY <1>3 DEF SummaryWord, testing_profile_summary, testing_profile_verdict
<1> QED
  BY <1>1, <1>2, <1>3

\* A verdict other than ERROR has a trace of the packet, or of what was done to it.
LEMMA GoodHasTrace ==
  ASSUME NEW success, NEW exit, NEW found, NEW known, "lua_call" \notin found,
         JudgeRun(success, exit, found, known) \in {"SUCCESS", "PARTIAL", "FAIL"}
  PROVE  "packet" \in found \/ "lua_func" \in found
<1> DEFINE res == Repair(analyze_test(success, exit, found), known)
<1>1. ~Broken(res)
  BY DEF JudgeRun, testing_profile_verdict
<1>2. res.queue_hit \/ res.desync_applied
  BY <1>1 DEF Broken
<1>3. /\ res.desync_applied => "lua_func" \in found
      /\ res.queue_hit => "packet" \in found
  BY DEF Repair, analyze_test
<1> QED
  BY <1>2, <1>3

\* What it takes not to be judged ERROR.
LEMMA NoError ==
  ASSUME NEW success, NEW exit, NEW found, NEW known, nfqws2_exit_is_expected(exit),
         found \cap {"execv_failed", "need_queue"} = {},
         "packet" \in found, "bind" \in found \/ known
  PROVE  JudgeRun(success, exit, found, known) # "ERROR"
<1> DEFINE res == Repair(analyze_test(success, exit, found), known)
<1>1. res.queue_hit /\ res.nfqws_exit_code = exit /\ res.logs = found
  BY DEF Repair, analyze_test
<1>2. ~Broken(res)
  BY <1>1 DEF Broken
<1> QED
  BY <1>2 DEF JudgeRun, testing_profile_verdict

\* The exit code counts only as expected or not, and a broken run is an ERROR.
LEMMA SameJudgement ==
  ASSUME NEW success, NEW exit, NEW other, NEW found, NEW known,
         nfqws2_exit_is_expected(exit), nfqws2_exit_is_expected(other)
  PROVE  JudgeRun(success, exit, found, known) = JudgeRun(success, other, found, known)
<1> DEFINE res(c) == Repair(analyze_test(success, c, found), known)
<1>1. \A c : /\ res(c).nfqws_exit_code = c
             /\ res(c).logs = res(other).logs
             /\ res(c).queue_hit = res(other).queue_hit
             /\ res(c).desync_applied = res(other).desync_applied
             /\ res(c).errors_detected = res(other).errors_detected
             /\ res(c).test_success = res(other).test_success
  BY DEF Repair, analyze_test
<1> HIDE DEF res
<1>2. Broken(res(exit)) <=> Broken(res(other))
  BY <1>1 DEF Broken
<1>3. testing_profile_verdict(res(exit)) = testing_profile_verdict(res(other))
  BY <1>1, <1>2 DEF testing_profile_verdict
<1> QED
  BY <1>3 DEF JudgeRun, res

LEMMA BrokenIsError ==
  ASSUME NEW success, NEW exit, NEW found, NEW known,
         ~(nfqws2_exit_is_expected(exit) /\ found \cap {"execv_failed", "need_queue"} = {})
  PROVE  JudgeRun(success, exit, found, known) = "ERROR"
<1> DEFINE res == Repair(analyze_test(success, exit, found), known)
<1>1. res.nfqws_exit_code = exit /\ res.logs = found
  BY DEF Repair, analyze_test
<1>2. Broken(res)
  BY <1>1 DEF Broken
<1> QED
  BY <1>2 DEF JudgeRun, testing_profile_verdict

LEMMA InitJudged == Init => Judged
  BY DEF Init, Judged, VerdictSound, SummaryAgrees, WorkingNotError

\* Nothing is printed, and nothing changes, when the run is over.
LEMMA ChildJudged ==
  ASSUME TypeOK, Story, Judged, Child PROVE Judged'
<1>1. UNCHANGED <<pc, verdict>>
  BY ChildSteps, SilentSame, PrintsSame DEF threadVars
<1>2. pc # "done"
  <2>1. child # "reaped"
    BY DEF Child, Exec, ExecFails, BootPrints, Binds, Receives, Desyncs, Passes, Complains, Dies,
       Terminates, IsKilled, Alive
  <2> QED
    BY <2>1 DEF Story
<1> QED
  BY <1>1, <1>2 DEF Judged, VerdictSound, SummaryAgrees, WorkingNotError

LEMMA ThreadJudged ==
  ASSUME TypeOK, Kept, Story, Dropped, Collected, Judged, Thread PROVE Judged'
<1> USE DEF At, Goto
<1>1. CASE Judges
  <2> DEFINE found == Found(logs)
             res   == Repair(analyze_test(http, code, found), confirmed)
  <2>1. /\ verdict' = JudgeRun(http, code, found, confirmed)
        /\ verdict' = testing_profile_verdict(res)
        /\ summary' = testing_profile_summary(res)
        /\ pc = "judge" /\ pc' = "done"
        /\ UNCHANGED <<http, code, waitbuf, printed>>
    BY <1>1 DEF Judges, JudgeRun, childVars
  <2>2. Printed' = Printed
    BY <2>1 DEF Printed
  <2>3. Elems(logs) \subseteq Printed
    BY DEF Kept
  <2>4. \A m \in Markers \ {"bind"} : m \in found <=> m \in Elems(logs)
    BY DEF Found
  <2> HIDE DEF found
  <2>5. VerdictSound'
    <3>1. SUFFICES ASSUME verdict' \in {"SUCCESS", "PARTIAL", "FAIL"}
                   PROVE  "packet" \in Printed
      BY <2>2 DEF VerdictSound
    <3>2. "lua_call" \notin found
      BY <2>3, <2>4 DEF Story, Markers
    <3>3. "packet" \in found \/ "lua_func" \in found
      BY <2>1, <3>1, <3>2, GoodHasTrace
    <3>4. "packet" \in Printed \/ "lua_func" \in Printed
      BY <2>3, <2>4, <3>3 DEF Markers
    <3> QED
      BY <3>4 DEF Story
  <2>6. SummaryAgrees'
    BY <2>1, ChainsAgree DEF SummaryAgrees
  <2>7. WorkingNotError'
    <3>1. SUFFICES ASSUME http, Fits, nfqws2_exit_is_expected(code), "need_queue" \notin Printed
                   PROVE  verdict' # "ERROR"
      BY <2>1, <2>2 DEF WorkingNotError, Fits, Elems
    <3>2. /\ Bound \cup {"packet"} \subseteq Elems(waitbuf) \cup Elems(logs)
          /\ "packet" \notin Elems(waitbuf)
      BY <2>1, <3>1 DEF Collected, Fits, Dropped
    <3>3. "packet" \in found
      BY <2>4, <3>2 DEF Markers
    <3>4. found \cap {"execv_failed", "need_queue"} = {}
      <4>1. "execv_failed" \notin Printed
        BY <3>1 DEF Story, Passed
      <4> QED
        BY <2>3, <2>4, <3>1, <4>1 DEF Markers
    <3>5. "bind" \in found \/ confirmed
      <4>1. CASE Bound \subseteq Elems(waitbuf)
        BY <4>1 DEF Dropped
      <4>2. CASE ~(Bound \subseteq Elems(waitbuf))
        <5>1. "bind1" \notin Elems(waitbuf) /\ "bind2" \notin Elems(waitbuf)
          BY <3>1, <4>2 DEF Fits, Dropped, Bound
        <5>2. {"bind1", "bind2"} \subseteq Elems(logs)
          BY <3>2, <5>1 DEF Bound
        <5> QED
          BY <5>2 DEF Found, found
      <4> QED
        BY <4>1, <4>2
    <3> QED
      BY <2>1, <3>1, <3>3, <3>4, <3>5, NoError
  <2> QED
    BY <2>1, <2>5, <2>6, <2>7 DEF Judged
<1>2. CASE WaitReads \/ WaitEnds \/ Sends \/ Answered \/ NotAnswered \/ DrainReads \/ DrainWaits
             \/ DrainEnds \/ Reaps \/ Kills
  <2>1. pc # "done" /\ pc' # "done" /\ verdict' = verdict
    BY <1>2 DEF WaitReads, WaitEnds, Sends, Answered, NotAnswered, DrainReads, DrainWaits, DrainEnds,
       Reaps, Kills, threadVars
  <2> QED
    BY <2>1 DEF Judged, VerdictSound, SummaryAgrees, WorkingNotError
<1> QED
  BY <1>1, <1>2 DEF Thread

-----------------------------------------------------------------------------
(* The theorems.                                                           *)

LEMMA InitInv == Init => IInv
  BY InitTypes, InitKept, InitStory, InitDropped, InitCollected, InitJudged DEF IInv

LEMMA StepInv ==
  ASSUME IInv, [Next]_vars PROVE IInv'
<1> USE DEF IInv
<1>1. CASE Child
  BY <1>1, ChildTypes, ChildKept, ChildStory, ChildDropped, ChildCollected, ChildJudged
<1>2. CASE Thread
  BY <1>2, ThreadTypes, ThreadKept, ThreadStory, ThreadDropped, ThreadCollected, ThreadJudged
<1>3. CASE UNCHANGED vars
  <2>1. /\ UNCHANGED <<pc, confirmed, waitbuf, logs, http, verdict, summary>>
        /\ UNCHANGED <<child, code, request, signal, pipe, printed>>
        /\ Printed' = Printed
    BY <1>3 DEF vars, threadVars, childVars, Printed
  <2>2. TypeOK' /\ Kept'
    BY <2>1 DEF TypeOK, Kept
  <2>3. Story'
    BY <2>1 DEF Story
  <2>4. Dropped' /\ Collected'
    BY <2>1 DEF Dropped, InOrder, Collected
  <2>5. Judged'
    BY <2>1 DEF Judged, VerdictSound, SummaryAgrees, WorkingNotError, Fits
  <2> QED
    BY <2>2, <2>3, <2>4, <2>5
<1> QED
  BY <1>1, <1>2, <1>3 DEF Next

LEMMA Invariant == Spec => []IInv
<1>1. Init => IInv
  BY InitInv
<1>2. IInv /\ [Next]_vars => IInv'
  BY StepInv
<1> QED
  BY <1>1, <1>2, PTL DEF Spec

\* The run keeps its types: the buffers of wait_for_nfqws2_ready and nfqws2_logs are not
\* written past their end, however much nfqws2 prints.
THEOREM RunTypes == Spec => []TypeOK
<1>1. IInv => TypeOK
  BY DEF IInv
<1> QED
  BY <1>1, Invariant, PTL

\* A verdict other than ERROR is given only if nfqws2 received the request.
THEOREM RunVerdictSound == Spec => []VerdictSound
<1>1. IInv => VerdictSound
  BY DEF IInv, Judged
<1> QED
  BY <1>1, Invariant, PTL

\* The line SUMMARY of testing.log says what the menu shows.
THEOREM RunSummaryAgrees == Spec => []SummaryAgrees
<1>1. IInv => SummaryAgrees
  BY DEF IInv, Judged
<1> QED
  BY <1>1, Invariant, PTL

\* A request that came through is not judged ERROR when nfqws2 ended as it should and its
\* output fitted, although one part was dropped and another may never be read.
THEOREM RunWorkingNotError == Spec => []WorkingNotError
<1>1. IInv => WorkingNotError
  BY DEF IInv, Judged
<1> QED
  BY <1>1, Invariant, PTL

-----------------------------------------------------------------------------
(* The run keeps to NfqwsContract.                                         *)

\* A step of the contract, or none.
Keeps == Contract!Next \/ UNCHANGED <<stage, Left, confirmed, http, verdict>>

LEMMA MoreTraces ==
  ASSUME NEW cells, NEW more
  PROVE  /\ more \cap ({"packet", "lua_func"} \cup Bound) = {} => Traces(cells \cup more) = Traces(cells)
         /\ more = Bound => Traces(cells \cup more) = Traces(cells) \cup {"bind"}
         /\ more = {"packet"} => Traces(cells \cup more) = Traces(cells) \cup {"packet"}
         /\ more = {"lua_func"} => Traces(cells \cup more) = Traces(cells) \cup {"lua_func"}
         /\ Traces(cells) \subseteq {"bind", "packet", "lua_func"}
         /\ "bind" \in Traces(cells) <=> Bound \subseteq cells
         /\ "packet" \in Traces(cells) <=> "packet" \in cells
         /\ "lua_func" \in Traces(cells) <=> "lua_func" \in cells
BY DEF Traces, Bound

\* The contract judges as the run does.
LEMMA SameJudge ==
  /\ \A success, exit, found, known :
       Contract!JudgeRun(success, exit, found, known) = JudgeRun(success, exit, found, known)
  /\ Contract!Results = Results /\ Contract!SIGKILL = SIGKILL
BY DEF Results, Contract!Results, SIGKILL, Contract!SIGKILL, SIGTERM, Contract!SIGTERM, JudgeRun,
   Contract!JudgeRun, testing_profile_verdict, Contract!testing_profile_verdict, Broken,
   Contract!Broken, nfqws2_exit_is_expected, Contract!nfqws2_exit_is_expected, Repair,
   Contract!Repair, analyze_test, Contract!analyze_test

\* All that is printed is in the pipe first, and so not dropped.
LEMMA PrintedLeft ==
  ASSUME TypeOK, Kept, NEW cells \in Seq(Cells), PrintStep(cells), Prints(cells)
  PROVE  NotDropped' = NotDropped \cup Elems(cells)
<1>1. UNCHANGED <<pc, logs>>
  BY PrintsSame DEF threadVars
<1>2. Elems(pipe') = Elems(pipe) \cup Elems(cells) /\ Printed' = Printed \cup Elems(cells)
  BY PrintsCells
<1> QED
  BY <1>1, <1>2 DEF NotDropped

LEMMA ChildKeeps ==
  ASSUME IInv, Child PROVE Keeps
<1> USE DEF IInv
<1>1. UNCHANGED <<pc, confirmed, http, verdict, stage>>
  <2>1. UNCHANGED <<pc, confirmed, http, verdict>>
    BY ChildSteps, SilentSame, PrintsSame DEF threadVars
  <2> QED
    BY <2>1 DEF stage
<1>2. CASE Silent
  <2>1. UNCHANGED <<logs, pipe, printed>>
    BY <1>2, SilentSame DEF threadVars
  <2>2. Left' = Left
    BY <1>1, <2>1 DEF Left, Traces, NotDropped, Printed
  <2> QED
    BY <1>1, <2>2 DEF Keeps
<1>3. ASSUME NEW cells \in Seq(Cells), PrintStep(cells), Prints(cells) PROVE Keeps
  <2>1. NotDropped' = NotDropped \cup Elems(cells)
    BY <1>3, PrintedLeft
  <2>2. stage \in {"wait", "http", "stop"}
    <3>1. child # "reaped"
      BY <1>3 DEF PrintStep, ExecFails, BootPrints, Binds, Receives, Desyncs, Complains
    <3> QED
      BY <3>1 DEF Story, stage, TypeOK
  <2>3. ASSUME Elems(cells) \cap ({"packet", "lua_func"} \cup Bound) = {} PROVE Keeps
    <3>1. Left' = Left
      BY <2>1, <2>3, MoreTraces DEF Left
    <3> QED
      BY <1>1, <3>1 DEF Keeps
  <2>4. CASE Binds /\ cells = <<"bind1", "bind2">>
    <3>1. Elems(cells) = Bound
      BY <2>4, ElemsTwo DEF Bound, Cells, Markers
    <3>2. Left' = Left \cup {"bind"}
      BY <2>1, <3>1, MoreTraces DEF Left
    <3>3. Contract!Logs({"bind"})
      BY <3>2 DEF Contract!Logs
    <3> QED
      BY <1>1, <2>2, <3>3 DEF Keeps, Contract!Next, Contract!Prints
  <2>5. CASE Receives /\ cells = <<"packet">>
    <3>1. Elems(cells) = {"packet"}
      BY <2>5, ElemsOne DEF Cells, Markers
    <3>2. Left' = Left \cup {"packet"}
      BY <2>1, <3>1, MoreTraces DEF Left
    <3>3. stage # "wait"
      BY <2>5 DEF Receives, Story, stage
    <3>4. Contract!Logs({"packet"})
      BY <3>2 DEF Contract!Logs
    <3> QED
      BY <1>1, <2>2, <3>3, <3>4 DEF Keeps, Contract!Next, Contract!Prints
  <2>6. CASE Desyncs /\ cells = <<"lua_func">>
    <3>1. Elems(cells) = {"lua_func"}
      BY <2>6, ElemsOne DEF Cells, Markers
    <3>2. Left' = Left \cup {"lua_func"}
      BY <2>1, <3>1, MoreTraces DEF Left
    <3>3. pc # "wait"
      BY <2>6 DEF Desyncs, Story
    <3>4. "packet" \in Left
      <4>1. "packet" \in Printed /\ "packet" \notin Elems(waitbuf)
        BY <2>6 DEF Desyncs, Story, Passed, Dropped
      <4>2. "packet" \in NotDropped
        BY <3>3, <4>1 DEF Kept, NotDropped
      <4> QED
        BY <4>2, MoreTraces DEF Left
    <3>5. Contract!Logs({"lua_func"})
      BY <3>2, <3>4 DEF Contract!Logs
    <3> QED
      BY <1>1, <2>2, <3>3, <3>5 DEF Keeps, Contract!Next, Contract!Prints, stage
  <2>7. CASE ExecFails /\ cells = <<"execv_failed">>
    BY <2>3, <2>7, ElemsOne DEF Bound, Cells, Markers
  <2>8. CASE BootPrints /\ \E m \in Boots : cells = <<m>>
    BY <2>3, <2>8, ElemsOne, SizesOK DEF Bound, Cells, Markers
  <2>9. CASE Complains /\ cells = <<"error">>
    BY <2>3, <2>9, ElemsOne DEF Bound, Cells, Markers
  <2> QED
    BY <1>3, <2>4, <2>5, <2>6, <2>7, <2>8, <2>9 DEF PrintStep
<1> QED
  BY <1>2, <1>3, ChildSteps

\* Dropping what the wait has read: no more than the binding message is lost, and it was
\* printed if it is confirmed.
LEMMA WaitOverKeeps ==
  ASSUME IInv, Kept', Dropped', pc = "wait", pc' = "http", logs' = << >>, Printed' = Printed,
         UNCHANGED <<http, verdict>>
  PROVE  Keeps
<1> USE DEF IInv
<1>1. NotDropped = Printed /\ NotDropped' = Elems(pipe')
  BY ElemsEmpty DEF NotDropped
<1>2. Elems(pipe') \subseteq Printed /\ Elems(waitbuf') \subseteq Printed
  BY DEF Kept
<1>3. "packet" \notin Printed /\ "lua_func" \notin Printed
  BY DEF Story, Passed
<1>4. Left \subseteq {"bind"} /\ Left' \subseteq Left
  <2>1. Left = Traces(Printed) /\ Left' = Traces(Elems(pipe'))
    BY <1>1 DEF Left
  <2> QED
    BY <1>2, <1>3, <2>1 DEF Traces
<1>5. confirmed' \in BOOLEAN /\ (confirmed' => "bind" \in Left)
  <2>1. confirmed' = (Bound \subseteq Elems(waitbuf'))
    BY DEF Dropped
  <2>2. Bound \subseteq Printed => "bind" \in Left
    BY <1>1, MoreTraces DEF Left
  <2> QED
    BY <1>2, <2>1, <2>2
<1>6. stage = "wait" /\ stage' = "http"
  BY DEF stage
<1>7. Left' \in {Left, Left \ {"bind"}}
  BY <1>4
<1> QED
  BY <1>5, <1>6, <1>7 DEF Keeps, Contract!Next, Contract!WaitEnds

\* Whatever the exit code and the output, the verdict is one that Testing allows for.
LEMMA JudgesKeeps ==
  ASSUME IInv, Judges PROVE Keeps
<1> USE DEF IInv
<1> DEFINE found == Found(logs)
<1>1. /\ pc = "judge" /\ pc' = "done" /\ verdict' = JudgeRun(http, code, found, confirmed)
      /\ UNCHANGED <<http, confirmed, logs, pipe>>
  BY DEF Judges, At, Goto, JudgeRun
<1>2. stage = "stop" /\ stage' = "over" /\ Left' = Left
  BY <1>1 DEF stage, Left, NotDropped
<1>3. found \subseteq Markers \ {"lua_call", "desync_word"}
  <2>1. Elems(logs) \subseteq Printed
    BY DEF Kept
  <2> QED
    BY <2>1 DEF Found, Story, Markers
<1>4. found \cap {"bind", "packet", "lua_func"} \subseteq Left
  <2>1. NotDropped = Elems(logs) \cup Elems(pipe)
    BY <1>1 DEF NotDropped
  <2>2. "bind" \notin Elems(logs)
    BY ElemsType DEF TypeOK, Cells, Markers
  <2> QED
    BY <2>1, <2>2 DEF Left, Traces, Found
<1> HIDE DEF found
<1>5. \E exit \in {0, 128 + SIGKILL}, seen \in SUBSET (Left \cup {"error"}) :
        verdict' = JudgeRun(http, exit, seen, confirmed)
  <2>1. CASE nfqws2_exit_is_expected(code) /\ found \cap {"execv_failed", "need_queue"} = {}
    <3>1. found \in SUBSET (Left \cup {"error"})
      BY <1>3, <1>4, <2>1 DEF Markers
    <3>2. JudgeRun(http, code, found, confirmed) = JudgeRun(http, 0, found, confirmed)
      BY <2>1, SameJudgement DEF nfqws2_exit_is_expected
    <3> QED
      BY <1>1, <3>1, <3>2
  <2>2. CASE ~(nfqws2_exit_is_expected(code) /\ found \cap {"execv_failed", "need_queue"} = {})
    <3>1. JudgeRun(http, code, found, confirmed) = "ERROR"
      BY <2>2, BrokenIsError
    <3>2. JudgeRun(http, 128 + SIGKILL, {}, confirmed) = "ERROR"
      BY BrokenIsError DEF nfqws2_exit_is_expected, SIGKILL, SIGTERM
    <3> QED
      BY <1>1, <3>1, <3>2
  <2> QED
    BY <2>1, <2>2
<1>6. /\ Left \cap {"packet"} \subseteq Left' /\ Left' \subseteq Left
      /\ confirmed' \in BOOLEAN /\ http' \in BOOLEAN
  BY <1>1, <1>2 DEF TypeOK
<1>7. Contract!Judges
  BY <1>2, <1>5, <1>6, SameJudge, Zenon DEF Contract!Judges
<1> QED
  BY <1>7 DEF Keeps, Contract!Next

LEMMA ThreadKeeps ==
  ASSUME IInv, IInv', Thread PROVE Keeps
<1> USE DEF IInv, At, Goto
<1>1. Printed' = Printed
  BY ThreadPrintsNothing DEF Printed
<1>2. CASE WaitReads
  <2>1. /\ pc = "wait" /\ pc' = (IF confirmed' \/ waitbuf' = waitbuf \/ Hangup THEN "http" ELSE "wait")
        /\ logs' = << >> /\ UNCHANGED <<http, verdict>>
        /\ waitbuf' = Read(waitbuf, WaitSize).buf /\ pipe' = Read(waitbuf, WaitSize).rest
    BY <1>2 DEF WaitReads, Kept
  <2>2. CASE pc' = "http"
    BY <1>1, <2>1, <2>2, WaitOverKeeps
  <2>3. CASE pc' = "wait"
    <3>1. ~confirmed'
      BY <2>1, <2>3
    <3>2. Elems(waitbuf) \subseteq Elems(waitbuf')
      <4>1. waitbuf \in Seq(Cells) /\ WaitSize \in Nat /\ Len(waitbuf) <= WaitSize
        BY SizesOK DEF TypeOK
      <4> QED
        BY <2>1, <4>1, ReadMoves DEF Moved
    <3>3. confirmed = confirmed'
      BY <3>1, <3>2 DEF Dropped
    <3>4. Left' = Left /\ stage' = stage
      BY <1>1, <2>1, <2>3 DEF Left, NotDropped, stage
    <3> QED
      BY <2>1, <3>3, <3>4 DEF Keeps
  <2> QED
    BY <2>1, <2>2, <2>3
<1>3. CASE WaitEnds
  BY <1>1, <1>3, WaitOverKeeps DEF WaitEnds, Kept
<1>4. CASE Answered \/ NotAnswered
  <2>1. pc = "http" /\ pc' = "drain" /\ UNCHANGED <<logs, pipe, confirmed, verdict>>
    BY <1>4 DEF Answered, NotAnswered
  <2>2. stage = "http" /\ stage' = "stop" /\ Left' = Left /\ http' \in BOOLEAN
    BY <2>1 DEF stage, Left, NotDropped, TypeOK
  <2>3. Contract!Logs({})
    BY <2>2 DEF Contract!Logs
  <2> QED
    BY <2>1, <2>2, <2>3 DEF Keeps, Contract!Next, Contract!Requests
<1>5. CASE DrainReads
  <2>1. /\ pc \in {"drain", "drain_on"} /\ pc' \in {"reap", "drain_wait"}
        /\ UNCHANGED <<confirmed, http, verdict>>
        /\ logs' = Read(logs, LogSize).buf /\ pipe' = Read(logs, LogSize).rest
    BY <1>5 DEF DrainReads
  <2>2. Elems(logs') \cup Elems(pipe') = Elems(logs) \cup Elems(pipe)
    <3>1. logs \in Seq(Cells) /\ LogSize \in Nat /\ Len(logs) <= LogSize
      BY SizesOK DEF TypeOK
    <3> QED
      BY <2>1, <3>1, ReadMoves DEF Moved
  <2>3. Left' = Left /\ stage' = stage
    BY <2>1, <2>2 DEF Left, NotDropped, stage
  <2> QED
    BY <2>1, <2>3 DEF Keeps
<1>6. CASE Sends \/ DrainWaits \/ DrainEnds \/ Reaps \/ Kills
  <2>1. /\ UNCHANGED <<logs, pipe, confirmed, http, verdict>>
        /\ \/ pc' = pc /\ pc = "http"
           \/ /\ pc \in {"drain_wait", "drain_on", "reap", "kill_wait"}
              /\ pc' \in {"judge", "drain_on", "reap", "kill_wait"}
    BY <1>6 DEF Sends, DrainWaits, DrainEnds, Reaps, Kills, threadVars
  <2>2. Left' = Left /\ stage' = stage
    BY <2>1 DEF Left, NotDropped, stage
  <2> QED
    BY <2>1, <2>2 DEF Keeps
<1>7. CASE Judges
  BY <1>7, JudgesKeeps
<1> QED
  BY <1>2, <1>3, <1>4, <1>5, <1>6, <1>7 DEF Thread

LEMMA InitKeeps == Init => Contract!Init
<1> SUFFICES ASSUME Init PROVE Contract!Init
  OBVIOUS
<1>1. stage = "wait" /\ Left = {}
  BY ElemsEmpty DEF Init, stage, Left, NotDropped, Printed, Traces
<1>2. confirmed = FALSE /\ http = FALSE /\ verdict \in Results
  BY DEF Init, Results
<1> QED
  BY <1>1, <1>2, SameJudge DEF Contract!Init

\* Testing takes a run of nfqws2 in the steps of NfqwsContract.  The run itself, with
\* buffers and pipes of any size, with any output and at any speed of either process,
\* does nothing else.
THEOREM RunKeepsContract == Spec => KeepsContract
<1>1. IInv /\ IInv' /\ [Next]_vars => [Contract!Next]_<<stage, Left, confirmed, http, verdict>>
  <2> SUFFICES ASSUME IInv, IInv', [Next]_vars PROVE Keeps
    BY DEF Keeps
  <2>1. CASE UNCHANGED vars
    BY <2>1 DEF vars, threadVars, childVars, Keeps, stage, Left, NotDropped, Printed
  <2> QED
    BY <2>1, ChildKeeps, ThreadKeeps DEF Next
<1> QED
  BY <1>1, InitKeeps, Invariant, PTL DEF Spec, KeepsContract, Contract!Spec, Contract!vars
=============================================================================
