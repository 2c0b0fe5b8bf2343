----------------------------- MODULE TemplateProof -----------------------------
(***************************************************************************)
(* First, that a config of which Tidy holds agrees with itself over one    *)
(* round of ZapretTemplate (FirstRound): what fgets and the shell make of  *)
(* a file is found position by position, and what is generated has the     *)
(* positions of the file before and behind the lines it replaces.          *)
(*                                                                         *)
(* Then, that the first round says all: when the config agrees with itself *)
(* over one round, then over any number of sessions, with any profiles     *)
(* applied in any of them, zapret2 has the strategy applied last and all   *)
(* its other settings.                                                     *)
(***************************************************************************)
EXTENDS ZapretTemplate, SequenceTheorems, WellFoundedInduction, TLAPS

-----------------------------------------------------------------------------
(* Numbers.                                                                *)

LEMMA Least ==
  ASSUME NEW S, S \subseteq Nat, S # {}
  PROVE  \E m \in S : \A n \in S : m <= n
  <1>1. PICK m \in S : \A n \in S : <<n, m>> \notin OpToRel(<, Nat)
    BY NatLessThanWellFounded, WFMin, Zenon
  <1>2. ASSUME NEW n \in S PROVE m <= n
    <2>1. ~(n < m)
      BY <1>1, Zenon DEF OpToRel
    <2> QED BY <2>1
  <1> QED BY <1>2

LEMMA Induction ==
  ASSUME NEW S, 0 \in S, \A n \in Nat : n \in S => n + 1 \in S
  PROVE  Nat \subseteq S
  <1> SUFFICES ASSUME Nat \ S # {} PROVE FALSE
    BY Zenon
  <1>1. PICK m \in Nat \ S : \A n \in Nat \ S : m <= n
    BY Least, Zenon
  <1>2. m # 0 /\ m - 1 \in Nat \ S
    BY <1>1
  <1> QED BY <1>1, <1>2

LEMMA MinIs ==
  ASSUME NEW S, S \subseteq Nat, S # {}
  PROVE  Min(S) \in S /\ \A n \in S : Min(S) <= n
  BY Least, Zenon DEF Min

LEMMA MinUnique ==
  ASSUME NEW S, S \subseteq Nat, NEW m \in S, \A n \in S : m <= n
  PROVE  Min(S) = m
  <1>1. Min(S) \in S /\ Min(S) <= m
    BY MinIs, Zenon
  <1>2. m <= Min(S)
    BY <1>1, Zenon
  <1>3. Min(S) \in Nat /\ m \in Nat
    BY <1>1, Zenon
  <1> QED BY <1>1, <1>2, <1>3

LEMMA MaxIs ==
  ASSUME NEW k \in Nat, NEW S, S \subseteq 0 .. k, S # {}
  PROVE  Max(S) \in S /\ \A n \in S : n <= Max(S)
  <1> DEFINE bounds == {m \in Nat : \A n \in S : n <= m}
  <1>1. k \in bounds
    OBVIOUS
  <1>2. PICK m \in bounds : \A n \in bounds : m <= n
    BY <1>1, Least, Zenon
  <1>3. m \in S
    <2> SUFFICES ASSUME m \notin S PROVE FALSE
      OBVIOUS
    <2>1. PICK x \in S : TRUE
      OBVIOUS
    <2>2. \A n \in S : n <= m - 1
      BY <1>2
    <2>3. m - 1 \in bounds
      BY <2>1, <2>2, <1>2
    <2> QED BY <2>3, <1>2
  <1>4. \E n \in S : \A l \in S : n >= l
    BY <1>2, <1>3
  <1>5. Max(S) \in S /\ \A n \in S : Max(S) >= n
    BY <1>4, Zenon DEF Max
  <1> QED BY <1>5

LEMMA MaxUnique ==
  ASSUME NEW k \in Nat, NEW S, S \subseteq 0 .. k, NEW m \in S, \A n \in S : n <= m
  PROVE  Max(S) = m
  <1>1. Max(S) \in S /\ m <= Max(S)
    BY MaxIs, Zenon
  <1>2. Max(S) <= m
    BY <1>1, Zenon
  <1>3. Max(S) \in 0 .. k /\ m \in 0 .. k
    BY <1>1, Zenon
  <1> QED BY <1>1, <1>2, <1>3

-----------------------------------------------------------------------------
(* What fgets has read.                                                    *)

\* The function buffered stands for does what its definition says.
LEMMA BufferedIs ==
  ASSUME NEW file \in Seq(Tokens)
  PROVE  buffered(file) =
           [i \in 0 .. Len(file) |->
              IF i = 0 \/ file[i] = "nl" \/ buffered(file)[i - 1] + 1 = LineMax
              THEN 0 ELSE buffered(file)[i - 1] + 1]
  <1> DEFINE Step(n, i) == IF i = 0 \/ file[i] = "nl" \/ n[i - 1] + 1 = LineMax
                           THEN 0 ELSE n[i - 1] + 1
             Fills(n, k) == n = [i \in 0 .. k |-> Step(n, i)]
             S == {k \in Nat : \E n : Fills(n, k)}
  <1>1. 0 \in S
    <2> DEFINE n == [i \in 0 .. 0 |-> 0]
    <2>1. Fills(n, 0)
      OBVIOUS
    <2> QED BY <2>1
  <1>2. ASSUME NEW k \in Nat, k \in S PROVE k + 1 \in S
    <2>1. PICK n : Fills(n, k)
      BY <1>2
    <2> DEFINE m == [i \in 0 .. k + 1 |-> IF i = k + 1 THEN Step(n, i) ELSE n[i]]
    <2>2. ASSUME NEW i \in 0 .. k + 1 PROVE m[i] = Step(m, i)
      <3>1. i # 0 => m[i - 1] = n[i - 1]
        OBVIOUS
      <3>2. Step(m, i) = Step(n, i)
        BY <3>1
      <3>3. i # k + 1 => n[i] = Step(n, i)
        BY <2>1
      <3> QED BY <3>2, <3>3
    <2>3. Fills(m, k + 1)
      BY <2>2
    <2>4. \E l : Fills(l, k + 1)
      <3> HIDE DEF m, Fills
      <3> QED BY <2>3, Zenon
    <2> QED BY <2>4
  <1>3. Nat \subseteq S
    <2> HIDE DEF S
    <2> QED BY <1>1, <1>2, Induction
  <1>4. \E n : Fills(n, Len(file))
    BY <1>3
  <1> QED BY <1>4, Zenon DEF buffered

LEMMA BufferedAt ==
  ASSUME NEW file \in Seq(Tokens)
  PROVE  /\ buffered(file)[0] = 0
         /\ \A i \in 1 .. Len(file) :
              buffered(file)[i] = IF file[i] = "nl" \/ buffered(file)[i - 1] + 1 = LineMax
                                  THEN 0 ELSE buffered(file)[i - 1] + 1
  <1>1. ASSUME NEW i \in 0 .. Len(file)
        PROVE  buffered(file)[i] =
                 IF i = 0 \/ file[i] = "nl" \/ buffered(file)[i - 1] + 1 = LineMax
                 THEN 0 ELSE buffered(file)[i - 1] + 1
    BY BufferedIs, Zenon
  <1> QED BY <1>1

\* The pieces of a file are those of its parts, when it is cut where a piece ends.
LEMMA BufferedBehind ==
  ASSUME NEW file \in Seq(Tokens), NEW part \in Seq(Tokens),
         NEW n \in Nat, NEW k \in Nat, n + k <= Len(file), k <= Len(part),
         buffered(file)[n] = 0, \A i \in 1 .. k : file[n + i] = part[i]
  PROVE  \A i \in 0 .. k : buffered(file)[n + i] = buffered(part)[i]
  <1> DEFINE S == {i \in Nat : i <= k => buffered(file)[n + i] = buffered(part)[i]}
  <1>1. 0 \in S
    BY BufferedAt
  <1>2. ASSUME NEW i \in Nat, i \in S PROVE i + 1 \in S
    <2> SUFFICES ASSUME i + 1 <= k
                 PROVE  buffered(file)[n + (i + 1)] = buffered(part)[i + 1]
      OBVIOUS
    <2>1. buffered(file)[n + i] = buffered(part)[i]
      BY <1>2
    <2>2. n + (i + 1) \in 1 .. Len(file) /\ (n + (i + 1)) - 1 = n + i
      OBVIOUS
    <2>3. i + 1 \in 1 .. Len(part) /\ (i + 1) - 1 = i
      OBVIOUS
    <2>4. file[n + (i + 1)] = part[i + 1]
      OBVIOUS
    <2>5. /\ buffered(file)[n + (i + 1)] =
               IF file[n + (i + 1)] = "nl" \/ buffered(file)[n + i] + 1 = LineMax
               THEN 0 ELSE buffered(file)[n + i] + 1
          /\ buffered(part)[i + 1] =
               IF part[i + 1] = "nl" \/ buffered(part)[i] + 1 = LineMax
               THEN 0 ELSE buffered(part)[i] + 1
      BY <2>2, <2>3, BufferedAt
    <2> QED BY <2>1, <2>4, <2>5
  <1>3. Nat \subseteq S
    <2> HIDE DEF S
    <2> QED BY <1>1, <1>2, Induction
  <1> QED BY <1>3

-----------------------------------------------------------------------------
(* What the shell has read.                                                *)

Shells == [in : {"code", "comment", "string", "opt", "value"},
           opt : Seq(Tokens), others : Seq(Tokens)]

ShellStart == [in |-> "code", opt |-> << >>, others |-> << >>]

LEMMA ReadsType ==
  ASSUME NEW shell \in Shells, NEW c \in Tokens
  PROVE  ShellReads(shell, c) \in Shells
  <1>1. /\ shell = [in |-> shell.in, opt |-> shell.opt, others |-> shell.others]
        /\ shell.in \in {"code", "comment", "string", "opt", "value"}
        /\ shell.opt \in Seq(Tokens) /\ shell.others \in Seq(Tokens)
    BY DEF Shells
  <1>2. Append(shell.opt, c) \in Seq(Tokens) /\ Append(shell.others, c) \in Seq(Tokens)
        /\ << >> \in Seq(Tokens) /\ <<c>> \in Seq(Tokens)
    BY <1>1
  <1>3. CASE shell.in \in {"comment", "value", "opt"}
    BY <1>1, <1>2, <1>3 DEF ShellReads, Shells
  <1>4. CASE shell.in = "string"
    BY <1>1, <1>2, <1>4 DEF ShellReads, Shells
  <1>5. CASE shell.in = "code"
    BY <1>1, <1>2, <1>5 DEF ShellReads, Shells
  <1> QED BY <1>1, <1>3, <1>4, <1>5

\* What the shell reads next is not told by the value NFQWS2_OPT has.
LEMMA ReadsAlike ==
  ASSUME NEW s \in Shells, NEW t \in Shells, NEW c \in Tokens,
         s.in = t.in, s.others = t.others, s.in \notin {"opt", "value"}
  PROVE  /\ ShellReads(s, c).in = ShellReads(t, c).in
         /\ ShellReads(s, c).others = ShellReads(t, c).others
         /\ ShellReads(s, c).in # "value"
         /\ ShellReads(t, c).opt = t.opt
  BY DEF ShellReads, Shells

\* A token of the value.
LEMMA ReadsValue ==
  ASSUME NEW s \in Shells, NEW c \in Tokens, s.in = "value", c # "quote"
  PROVE  /\ ShellReads(s, c).in = "value"
         /\ ShellReads(s, c).opt = Append(s.opt, c)
         /\ ShellReads(s, c).others = s.others
  BY DEF ShellReads, Shells

\* The function ShellAt stands for does what its definition says.
LEMMA ShellAtIs ==
  ASSUME NEW file \in Seq(Tokens)
  PROVE  ShellAt(file) =
           [i \in 0 .. Len(file) |->
              IF i = 0 THEN ShellStart ELSE ShellReads(ShellAt(file)[i - 1], file[i])]
  <1> DEFINE Step(h, i) == IF i = 0 THEN ShellStart ELSE ShellReads(h[i - 1], file[i])
             Reads(h, k) == h = [i \in 0 .. k |-> Step(h, i)]
             S == {k \in Nat : \E h : Reads(h, k)}
  <1>1. 0 \in S
    <2> DEFINE h == [i \in 0 .. 0 |-> ShellStart]
    <2>1. Reads(h, 0)
      OBVIOUS
    <2> QED BY <2>1
  <1>2. ASSUME NEW k \in Nat, k \in S PROVE k + 1 \in S
    <2>1. PICK h : Reads(h, k)
      BY <1>2
    <2> DEFINE m == [i \in 0 .. k + 1 |-> IF i = k + 1 THEN Step(h, i) ELSE h[i]]
    <2>2. ASSUME NEW i \in 0 .. k + 1 PROVE m[i] = Step(m, i)
      <3>1. i # 0 => m[i - 1] = h[i - 1]
        OBVIOUS
      <3>2. Step(m, i) = Step(h, i)
        BY <3>1
      <3>3. i # k + 1 => h[i] = Step(h, i)
        BY <2>1
      <3> QED BY <3>2, <3>3
    <2>3. Reads(m, k + 1)
      BY <2>2
    <2>4. \E l : Reads(l, k + 1)
      <3> HIDE DEF m, Reads
      <3> QED BY <2>3, Zenon
    <2> HIDE DEF Reads
    <2> QED BY <2>4
  <1>3. Nat \subseteq S
    <2> HIDE DEF S
    <2> QED BY <1>1, <1>2, Induction
  <1>4. \E h : Reads(h, Len(file))
    BY <1>3
  <1> QED BY <1>4, Zenon DEF ShellAt, ShellStart

LEMMA ShellAtStep ==
  ASSUME NEW file \in Seq(Tokens)
  PROVE  /\ ShellAt(file)[0] = ShellStart
         /\ \A i \in 1 .. Len(file) :
              ShellAt(file)[i] = ShellReads(ShellAt(file)[i - 1], file[i])
  <1>1. ASSUME NEW i \in 0 .. Len(file)
        PROVE  ShellAt(file)[i] =
                 IF i = 0 THEN ShellStart ELSE ShellReads(ShellAt(file)[i - 1], file[i])
    BY ShellAtIs, Zenon
  <1> QED BY <1>1

LEMMA ShellAtType ==
  ASSUME NEW file \in Seq(Tokens)
  PROVE  \A i \in 0 .. Len(file) : ShellAt(file)[i] \in Shells
  <1> DEFINE S == {i \in Nat : i <= Len(file) => ShellAt(file)[i] \in Shells}
  <1>1. 0 \in S
    <2>1. ShellStart \in Shells
      BY DEF ShellStart, Shells
    <2> QED BY <2>1, ShellAtStep
  <1>2. ASSUME NEW i \in Nat, i \in S PROVE i + 1 \in S
    <2> SUFFICES ASSUME i + 1 <= Len(file) PROVE ShellAt(file)[i + 1] \in Shells
      OBVIOUS
    <2>1. i + 1 \in 1 .. Len(file) /\ (i + 1) - 1 = i /\ file[i + 1] \in Tokens
      OBVIOUS
    <2>2. ShellAt(file)[i + 1] = ShellReads(ShellAt(file)[i], file[i + 1])
      BY <2>1, ShellAtStep
    <2>3. ShellAt(file)[i] \in Shells
      BY <1>2
    <2> QED BY <2>1, <2>2, <2>3, ReadsType, Zenon
  <1>3. Nat \subseteq S
    <2> HIDE DEF S
    <2> QED BY <1>1, <1>2, Induction
  <1> QED BY <1>3

\* Two files are read alike as long as they are.
LEMMA ShellBefore ==
  ASSUME NEW f \in Seq(Tokens), NEW g \in Seq(Tokens),
         NEW k \in Nat, k <= Len(f), k <= Len(g), \A i \in 1 .. k : f[i] = g[i]
  PROVE  ShellAt(g)[k] = ShellAt(f)[k]
  <1> DEFINE S == {i \in Nat : i <= k => ShellAt(g)[i] = ShellAt(f)[i]}
  <1>1. 0 \in S
    BY ShellAtStep
  <1>2. ASSUME NEW i \in Nat, i \in S PROVE i + 1 \in S
    <2> SUFFICES ASSUME i + 1 <= k PROVE ShellAt(g)[i + 1] = ShellAt(f)[i + 1]
      OBVIOUS
    <2>1. /\ i + 1 \in 1 .. Len(f) /\ i + 1 \in 1 .. Len(g) /\ (i + 1) - 1 = i
          /\ f[i + 1] = g[i + 1]
      OBVIOUS
    <2>2. /\ ShellAt(f)[i + 1] = ShellReads(ShellAt(f)[i], f[i + 1])
          /\ ShellAt(g)[i + 1] = ShellReads(ShellAt(g)[i], g[i + 1])
      BY <2>1, ShellAtStep
    <2> QED BY <1>2, <2>1, <2>2
  <1>3. Nat \subseteq S
    <2> HIDE DEF S
    <2> QED BY <1>1, <1>2, Induction
  <1> QED BY <1>3

\* In the value of NFQWS2_OPT the shell takes what there is up to the next quote.
LEMMA ShellWithin ==
  ASSUME NEW g \in Seq(Tokens), NEW s \in Seq(Tokens), NEW n \in Nat,
         n + Len(s) <= Len(g), \A i \in 1 .. Len(s) : g[n + i] = s[i] /\ s[i] # "quote",
         ShellAt(g)[n].in = "value", ShellAt(g)[n].opt = << >>
  PROVE  /\ ShellAt(g)[n + Len(s)].in = "value"
         /\ ShellAt(g)[n + Len(s)].opt = s
         /\ ShellAt(g)[n + Len(s)].others = ShellAt(g)[n].others
  <1> DEFINE Agrees(i) == /\ ShellAt(g)[n + i].in = "value"
                          /\ ShellAt(g)[n + i].opt = SubSeq(s, 1, i)
                          /\ ShellAt(g)[n + i].others = ShellAt(g)[n].others
             S == {i \in Nat : i <= Len(s) => Agrees(i)}
  <1>1. 0 \in S
    <2>1. SubSeq(s, 1, 0) = << >> /\ n + 0 = n
      BY SubSeqEmpty
    <2>2. Agrees(0)
      BY <2>1, Zenon
    <2> QED BY <2>2
  <1>2. ASSUME NEW i \in Nat, i \in S PROVE i + 1 \in S
    <2> SUFFICES ASSUME i + 1 <= Len(s) PROVE Agrees(i + 1)
      OBVIOUS
    <2>1. /\ n + (i + 1) \in 1 .. Len(g) /\ (n + (i + 1)) - 1 = n + i
          /\ n + i \in 0 .. Len(g)
          /\ i + 1 \in 1 .. Len(s) /\ g[n + (i + 1)] = s[i + 1]
          /\ s[i + 1] \in Tokens /\ s[i + 1] # "quote"
      OBVIOUS
    <2>2. ShellAt(g)[n + (i + 1)] = ShellReads(ShellAt(g)[n + i], s[i + 1])
      BY <2>1, ShellAtStep
    <2>3. ShellAt(g)[n + i] \in Shells
      BY <2>1, ShellAtType
    <2>4. Agrees(i)
      BY <1>2
    <2>5. Append(SubSeq(s, 1, i), s[i + 1]) = SubSeq(s, 1, i + 1)
      OBVIOUS
    <2> QED BY <2>1, <2>2, <2>3, <2>4, <2>5, ReadsValue
  <1>3. Nat \subseteq S
    <2> HIDE DEF S
    <2> QED BY <1>1, <1>2, Induction
  <1>4. Agrees(Len(s))
    BY <1>3
  <1>5. SubSeq(s, 1, Len(s)) = s
    BY SubSeqFull
  <1> QED BY <1>4, <1>5

\* Where no assignment follows, the shell reads the same behind different values.
LEMMA ShellBehind ==
  ASSUME NEW f \in Seq(Tokens), NEW g \in Seq(Tokens),
         NEW m \in Nat, NEW n \in Nat, NEW k \in Nat, m + k = Len(f), n + k = Len(g),
         \A i \in 1 .. k : g[n + i] = f[m + i],
         ShellAt(f)[m].in = "code", ShellAt(g)[n].in = "code",
         ShellAt(g)[n].others = ShellAt(f)[m].others,
         \A i \in m .. Len(f) : ShellAt(f)[i].in # "opt"
  PROVE  /\ ShellAt(g)[Len(g)].others = ShellAt(f)[Len(f)].others
         /\ ShellAt(g)[Len(g)].opt = ShellAt(g)[n].opt
  <1> DEFINE Agrees(i) == /\ ShellAt(g)[n + i].in = ShellAt(f)[m + i].in
                          /\ ShellAt(g)[n + i].others = ShellAt(f)[m + i].others
                          /\ ShellAt(f)[m + i].in \notin {"opt", "value"}
                          /\ ShellAt(g)[n + i].opt = ShellAt(g)[n].opt
             S == {i \in Nat : i <= k => Agrees(i)}
  <1>1. 0 \in S
    OBVIOUS
  <1>2. ASSUME NEW i \in Nat, i \in S PROVE i + 1 \in S
    <2> SUFFICES ASSUME i + 1 <= k PROVE Agrees(i + 1)
      OBVIOUS
    <2>1. /\ n + (i + 1) \in 1 .. Len(g) /\ (n + (i + 1)) - 1 = n + i
          /\ m + (i + 1) \in 1 .. Len(f) /\ (m + (i + 1)) - 1 = m + i
          /\ n + i \in 0 .. Len(g) /\ m + i \in 0 .. Len(f)
          /\ i + 1 \in 1 .. k /\ m + (i + 1) \in m .. Len(f)
      OBVIOUS
    <2>7. g[n + (i + 1)] = f[m + (i + 1)] /\ f[m + (i + 1)] \in Tokens
      BY <2>1, ElementOfSeq, Zenon
    <2>2. /\ ShellAt(g)[n + (i + 1)] = ShellReads(ShellAt(g)[n + i], f[m + (i + 1)])
          /\ ShellAt(f)[m + (i + 1)] = ShellReads(ShellAt(f)[m + i], f[m + (i + 1)])
      BY <2>1, <2>7, ShellAtStep
    <2>3. ShellAt(g)[n + i] \in Shells /\ ShellAt(f)[m + i] \in Shells
      BY <2>1, ShellAtType
    <2>4. Agrees(i)
      BY <1>2
    <2>5. ShellAt(f)[m + (i + 1)].in # "opt"
      BY <2>1, Zenon
    <2>6. /\ ShellAt(g)[n + (i + 1)].in = ShellAt(f)[m + (i + 1)].in
          /\ ShellAt(g)[n + (i + 1)].others = ShellAt(f)[m + (i + 1)].others
          /\ ShellAt(f)[m + (i + 1)].in # "value"
          /\ ShellAt(g)[n + (i + 1)].opt = ShellAt(g)[n + i].opt
      <3> HIDE DEF Agrees
      <3>1. /\ ShellAt(f)[m + i].in = ShellAt(g)[n + i].in
            /\ ShellAt(f)[m + i].others = ShellAt(g)[n + i].others
            /\ ShellAt(f)[m + i].in \notin {"opt", "value"}
        BY <2>4, Zenon DEF Agrees
      <3> DEFINE s == ShellAt(f)[m + i]
                 t == ShellAt(g)[n + i]
                 c == f[m + (i + 1)]
      <3>2. /\ ShellReads(s, c).in = ShellReads(t, c).in
            /\ ShellReads(s, c).others = ShellReads(t, c).others
            /\ ShellReads(s, c).in # "value"
            /\ ShellReads(t, c).opt = t.opt
        BY <2>3, <2>7, <3>1, ReadsAlike, Zenon
      <3> QED BY <2>2, <3>2, Zenon
    <2> QED BY <2>4, <2>5, <2>6, Zenon
  <1>3. Nat \subseteq S
    <2> HIDE DEF S
    <2> QED BY <1>1, <1>2, Induction
  <1>4. Agrees(k)
    BY <1>3
  <1> QED BY <1>4

-----------------------------------------------------------------------------
(* What read_conf_engine finds and create_zapret_configs writes.           *)

LEMMA InvalidTemplate == ~Valid(Invalid)
  BY DEF Valid, Invalid

LEMMA PieceIs ==
  ASSUME NEW file, NEW p
  PROVE  p \in Pieces(file) <=>
           p \in 1 .. Len(file) /\ (buffered(file)[p] = 0 \/ p = Len(file))
  BY Zenon DEF Pieces

\* The lines of the value are whole pieces, and there is no value before them.
LEMMA Found ==
  ASSUME NEW f \in Seq(Tokens), text(f) = f, Valid(read_conf_engine(f)),
         NEW a, a = read_conf_engine(f).first, NEW b, b = read_conf_engine(f).last
  PROVE  /\ read_conf_engine(f) = [text |-> f, first |-> a, last |-> b]
         /\ a \in 1 .. Len(f) /\ b \in a .. Len(f)
         /\ buffered(f)[a - 1] = 0
         /\ \A q \in Opens(f) : a <= q
  <1>1. /\ Opens(f) # {} /\ Closes(f) # {}
        /\ read_conf_engine(f) = [text |-> f, first |-> Begin(f, Min(Opens(f))),
                                  last |-> End(f, Min(Closes(f)))]
    BY InvalidTemplate, Zenon DEF read_conf_engine
  <1>2. a = Begin(f, Min(Opens(f))) /\ b = End(f, Min(Closes(f)))
    BY <1>1
  <1>3. Opens(f) \subseteq 1 .. Len(f) /\ Closes(f) \subseteq Min(Opens(f)) + 1 .. Len(f)
    BY DEF Opens, Closes
  <1>4. PICK open \in 1 .. Len(f) : open = Min(Opens(f)) /\ \A q \in Opens(f) : open <= q
    <2>1. Opens(f) \subseteq Nat
      BY <1>3
    <2> QED BY <1>1, <1>3, <2>1, MinIs, Zenon
  <1>5. PICK close \in open + 1 .. Len(f) : close = Min(Closes(f))
    <2>1. Closes(f) \subseteq Nat
      BY <1>3, <1>4
    <2> QED BY <1>1, <1>3, <1>4, <2>1, MinIs, Zenon
  <1>6. /\ a \in 1 .. open /\ buffered(f)[a - 1] = 0
    <2> DEFINE before == {0} \cup {p \in Pieces(f) : p < open}
    <2>1. before \subseteq 0 .. Len(f) /\ before # {}
      BY PieceIs
    <2>2. Max(before) \in before
      <3>1. Len(f) \in Nat
        OBVIOUS
      <3> HIDE DEF before
      <3> QED BY <2>1, <3>1, MaxIs, Zenon
    <2>3. a = Max(before) + 1
      BY <1>2, <1>4, Zenon DEF Begin
    <2>4. CASE Max(before) = 0
      BY <2>3, <2>4, BufferedAt
    <2>5. CASE Max(before) \in Pieces(f) /\ Max(before) < open
      <3>1. Max(before) \in 1 .. Len(f) /\ buffered(f)[Max(before)] = 0
        BY <2>5, <1>4, PieceIs
      <3> HIDE DEF before
      <3> QED BY <2>3, <2>5, <3>1
    <2> QED BY <2>2, <2>4, <2>5
  <1>7. b \in close .. Len(f)
    <2> DEFINE behind == {p \in Pieces(f) : p >= close}
    <2>1. behind \subseteq Nat /\ Len(f) \in behind
      BY PieceIs
    <2>2. Min(behind) \in behind
      BY <2>1, MinIs
    <2>3. b = Min(behind)
      BY <1>2, <1>5, Zenon DEF End
    <2> QED BY <2>2, <2>3, PieceIs
  <1>8. ASSUME NEW q \in Opens(f) PROVE a <= q
    <2>1. open <= q /\ q \in 1 .. Len(f)
      BY <1>3, <1>4
    <2> QED BY <1>6, <2>1
  <1>9. a \in 1 .. Len(f) /\ b \in a .. Len(f)
    BY <1>6, <1>7
  <1> QED BY <1>1, <1>2, <1>6, <1>8, <1>9, Zenon

LEMMA PairIs ==
  ASSUME NEW x \in Tokens, NEW y \in Tokens
  PROVE  /\ <<x, y>> \in Seq(Tokens) /\ Len(<<x, y>>) = 2
         /\ <<x, y>>[1] = x /\ <<x, y>>[2] = y
  OBVIOUS

LEMMA Joined ==
  ASSUME NEW s \in Seq(Tokens), NEW t \in Seq(Tokens)
  PROVE  /\ s \o t \in Seq(Tokens) /\ Len(s \o t) = Len(s) + Len(t)
         /\ \A i \in 1 .. Len(s) : (s \o t)[i] = s[i]
         /\ \A i \in 1 .. Len(t) : (s \o t)[Len(s) + i] = t[i]
  <1>1. /\ s \o t \in Seq(Tokens) /\ Len(s \o t) = Len(s) + Len(t)
        /\ \A i \in 1 .. Len(s) + Len(t) :
             (s \o t)[i] = IF i <= Len(s) THEN s[i] ELSE t[i - Len(s)]
    BY ConcatProperties, Zenon
  <1>2. ASSUME NEW i \in 1 .. Len(s) PROVE (s \o t)[i] = s[i]
    <2>1. i \in 1 .. Len(s) + Len(t) /\ i <= Len(s)
      OBVIOUS
    <2> QED BY <1>1, <2>1, Zenon
  <1>3. ASSUME NEW i \in 1 .. Len(t) PROVE (s \o t)[Len(s) + i] = t[i]
    <2>1. /\ Len(s) + i \in 1 .. Len(s) + Len(t) /\ ~(Len(s) + i <= Len(s))
          /\ (Len(s) + i) - Len(s) = i
      OBVIOUS
    <2> QED BY <1>1, <2>1, Zenon
  <1> QED BY <1>1, <1>2, <1>3

LEMMA AssignmentIs ==
  ASSUME NEW s \in Seq(Tokens)
  PROVE  /\ Assignment(s) \in Seq(Tokens) /\ Len(Assignment(s)) = Len(s) + 4
         /\ Assignment(s)[1] = "opt" /\ Assignment(s)[2] = "quote"
         /\ \A i \in 1 .. Len(s) : Assignment(s)[2 + i] = s[i]
         /\ Assignment(s)[Len(s) + 3] = "quote" /\ Assignment(s)[Len(s) + 4] = "nl"
  <1> DEFINE opening == <<"opt", "quote">>
             closing == <<"quote", "nl">>
  <1>1. "opt" \in Tokens /\ "quote" \in Tokens /\ "nl" \in Tokens
    BY TemplateOK
  <1>2. /\ opening \in Seq(Tokens) /\ Len(opening) = 2
        /\ opening[1] = "opt" /\ opening[2] = "quote"
    BY <1>1, PairIs, Zenon
  <1>3. /\ closing \in Seq(Tokens) /\ Len(closing) = 2
        /\ closing[1] = "quote" /\ closing[2] = "nl"
    BY <1>1, PairIs, Zenon
  <1>4. Assignment(s) = (opening \o s) \o closing
    BY DEF Assignment
  <1> HIDE DEF opening, closing
  <1>5. /\ opening \o s \in Seq(Tokens) /\ Len(opening \o s) = Len(opening) + Len(s)
        /\ \A i \in 1 .. Len(opening) : (opening \o s)[i] = opening[i]
        /\ \A i \in 1 .. Len(s) : (opening \o s)[Len(opening) + i] = s[i]
    BY <1>2, Joined, Zenon
  <1>6. /\ Assignment(s) \in Seq(Tokens)
        /\ Len(Assignment(s)) = Len(opening \o s) + Len(closing)
        /\ \A i \in 1 .. Len(opening \o s) : Assignment(s)[i] = (opening \o s)[i]
        /\ \A i \in 1 .. Len(closing) : Assignment(s)[Len(opening \o s) + i] = closing[i]
    <2> DEFINE first == opening \o s
    <2>1. first \in Seq(Tokens)
      BY <1>5
    <2> HIDE DEF first
    <2>2. /\ first \o closing \in Seq(Tokens)
          /\ Len(first \o closing) = Len(first) + Len(closing)
          /\ \A i \in 1 .. Len(first) : (first \o closing)[i] = first[i]
          /\ \A i \in 1 .. Len(closing) : (first \o closing)[Len(first) + i] = closing[i]
      BY <1>3, <2>1, Joined, Zenon
    <2>3. Assignment(s) = first \o closing
      BY <1>4 DEF first
    <2> QED BY <2>2, <2>3 DEF first
  <1>7. Len(s) \in Nat /\ Len(opening \o s) = 2 + Len(s)
    BY <1>2, <1>5
  <1>8. \A i \in 1 .. Len(s) : Assignment(s)[2 + i] = s[i]
    <2> TAKE i \in 1 .. Len(s)
    <2>1. 2 + i \in 1 .. Len(opening \o s)
      BY <1>7
    <2> QED BY <1>2, <1>5, <1>6, <2>1, Zenon
  <1>9. Assignment(s)[1] = "opt" /\ Assignment(s)[2] = "quote"
    <2>1. /\ 1 \in 1 .. Len(opening) /\ 2 \in 1 .. Len(opening)
          /\ 1 \in 1 .. Len(opening \o s) /\ 2 \in 1 .. Len(opening \o s)
      BY <1>2, <1>7
    <2> QED BY <1>2, <1>5, <1>6, <2>1, Zenon
  <1>10. Assignment(s)[Len(s) + 3] = "quote" /\ Assignment(s)[Len(s) + 4] = "nl"
    <2>1. /\ 1 \in 1 .. Len(closing) /\ 2 \in 1 .. Len(closing)
          /\ Len(opening \o s) + 1 = Len(s) + 3 /\ Len(opening \o s) + 2 = Len(s) + 4
      BY <1>3, <1>7
    <2>2. Assignment(s)[Len(opening \o s) + 1] = "quote"
      BY <1>3, <1>6, <2>1, Zenon
    <2>3. Assignment(s)[Len(opening \o s) + 2] = "nl"
      BY <1>3, <1>6, <2>1, Zenon
    <2> QED BY <2>1, <2>2, <2>3, Zenon
  <1>11. Len(Assignment(s)) = Len(s) + 4
    BY <1>3, <1>6, <1>7
  <1> QED BY <1>6, <1>8, <1>9, <1>10, <1>11, Zenon

\* g is the file before the lines of the value, the line of the profile, and the file
\* behind them.
IsWritten(f, a, b, s, g) ==
  /\ g \in Seq(Tokens)
  /\ Len(g) = (a + Len(s) + 3) + (Len(f) - b)
  /\ \A i \in 1 .. a - 1 : g[i] = f[i]
  /\ \A i \in 1 .. Len(s) + 4 : g[(a - 1) + i] = Assignment(s)[i]
  /\ \A i \in 1 .. Len(f) - b : g[(a + Len(s) + 3) + i] = f[b + i]

LEMMA Written ==
  ASSUME NEW f \in Seq(Tokens), NEW a \in 1 .. Len(f), NEW b \in a .. Len(f),
         NEW s \in Seq(Tokens),
         NEW g, g = create_zapret_configs([text |-> f, first |-> a, last |-> b], s)
  PROVE  IsWritten(f, a, b, s, g)
  <1> DEFINE before == SubSeq(f, 1, a - 1)
             line   == Assignment(s)
             behind == SubSeq(f, b + 1, Len(f))
  <1>1. /\ before \in Seq(Tokens) /\ Len(before) = a - 1
        /\ \A i \in 1 .. a - 1 : before[i] = f[i]
    OBVIOUS
  <1>2. /\ behind \in Seq(Tokens) /\ Len(behind) = Len(f) - b
        /\ \A i \in 1 .. Len(f) - b : behind[i] = f[b + i]
    OBVIOUS
  <1>3. g = (before \o line) \o behind
    BY DEF create_zapret_configs
  <1>4. line \in Seq(Tokens) /\ Len(line) = Len(s) + 4
    BY AssignmentIs
  <1> HIDE DEF before, line, behind
  <1>5. /\ before \o line \in Seq(Tokens) /\ Len(before \o line) = Len(before) + Len(line)
        /\ \A i \in 1 .. Len(before) : (before \o line)[i] = before[i]
        /\ \A i \in 1 .. Len(line) : (before \o line)[Len(before) + i] = line[i]
    BY <1>1, <1>4, Joined, Zenon
  <1>6. /\ g \in Seq(Tokens) /\ Len(g) = Len(before \o line) + Len(behind)
        /\ \A i \in 1 .. Len(before \o line) : g[i] = (before \o line)[i]
        /\ \A i \in 1 .. Len(behind) : g[Len(before \o line) + i] = behind[i]
    <2> DEFINE first == before \o line
    <2>1. first \in Seq(Tokens)
      BY <1>5
    <2> HIDE DEF first
    <2>2. /\ first \o behind \in Seq(Tokens)
          /\ Len(first \o behind) = Len(first) + Len(behind)
          /\ \A i \in 1 .. Len(first) : (first \o behind)[i] = first[i]
          /\ \A i \in 1 .. Len(behind) : (first \o behind)[Len(first) + i] = behind[i]
      BY <1>2, <2>1, Joined, Zenon
    <2>3. g = first \o behind
      BY <1>3 DEF first
    <2> QED BY <2>2, <2>3 DEF first
  <1>7. Len(before \o line) = a + Len(s) + 3
    BY <1>1, <1>4, <1>5
  <1>8. \A i \in 1 .. a - 1 : g[i] = f[i]
    <2> TAKE i \in 1 .. a - 1
    <2>1. i \in 1 .. Len(before) /\ i \in 1 .. Len(before \o line)
      BY <1>1, <1>7
    <2> QED BY <1>1, <1>5, <1>6, <2>1, Zenon
  <1>9. \A i \in 1 .. Len(s) + 4 : g[(a - 1) + i] = line[i]
    <2> TAKE i \in 1 .. Len(s) + 4
    <2>1. i \in 1 .. Len(line) /\ (a - 1) + i \in 1 .. Len(before \o line)
      BY <1>4, <1>7
    <2> QED BY <1>1, <1>5, <1>6, <2>1, Zenon
  <1>10. \A i \in 1 .. Len(f) - b : g[(a + Len(s) + 3) + i] = f[b + i]
    BY <1>2, <1>6, <1>7, Zenon
  <1>11. Len(g) = (a + Len(s) + 3) + (Len(f) - b)
    BY <1>2, <1>6, <1>7
  <1> QED BY <1>6, <1>8, <1>9, <1>10, <1>11, Zenon DEF line, IsWritten

\* What Tidy and the lemmas before say of a file f, a strategy s and what is generated, g.
Rounds(f, s, a, b, g) ==
  /\ f \in Seq(Tokens) /\ s \in Seq(Tokens)
  /\ a \in 1 .. Len(f) /\ b \in a .. Len(f)
  /\ read_conf_engine(f) = [text |-> f, first |-> a, last |-> b]
  /\ g = Generated(f, s) /\ text(g) = g
  /\ IsWritten(f, a, b, s, g)
  /\ \A i \in 1 .. Len(s) : s[i] # "quote"

LEMMA TidyRounds ==
  ASSUME NEW f \in Seq(Tokens), NEW s \in Seq(Tokens), Valid(read_conf_engine(f)), Tidy(f, s)
  PROVE  Rounds(f, s, read_conf_engine(f).first, read_conf_engine(f).last, Generated(f, s))
  <1> DEFINE a == read_conf_engine(f).first
             b == read_conf_engine(f).last
             g == Generated(f, s)
  <1>1. /\ text(f) = f /\ text(g) = g /\ \A i \in 1 .. Len(s) : s[i] # "quote"
    BY Zenon DEF Tidy
  <1>2. /\ read_conf_engine(f) = [text |-> f, first |-> a, last |-> b]
        /\ a \in 1 .. Len(f) /\ b \in a .. Len(f)
    BY <1>1, Found, Zenon
  <1>3. g = create_zapret_configs([text |-> f, first |-> a, last |-> b], s)
    BY <1>2, Zenon DEF Generated
  <1> HIDE DEF a, b, g
  <1>4. IsWritten(f, a, b, s, g)
    BY <1>2, <1>3, Written
  <1>5. Rounds(f, s, a, b, g)
    BY <1>1, <1>2, <1>4, Zenon DEF Rounds, g
  <1> QED BY <1>5, Zenon DEF a, b, g

\* fgets reads the file before the line of the profile as it did, and then the line as if
\* the file began with it.
LEMMA ReadsLine ==
  ASSUME NEW f, NEW s, NEW a, NEW b, NEW g, Rounds(f, s, a, b, g), buffered(f)[a - 1] = 0
  PROVE  /\ \A i \in 0 .. a - 1 : buffered(g)[i] = buffered(f)[i]
         /\ \A i \in 0 .. Len(s) + 4 : buffered(g)[(a - 1) + i] = buffered(Assignment(s))[i]
  <1>1. /\ f \in Seq(Tokens) /\ s \in Seq(Tokens) /\ g \in Seq(Tokens)
        /\ a \in 1 .. Len(f) /\ b \in a .. Len(f)
        /\ Len(g) = (a + Len(s) + 3) + (Len(f) - b)
    BY Zenon DEF Rounds, IsWritten
  <1>2. \A i \in 0 .. a - 1 : buffered(g)[0 + i] = buffered(f)[i]
    <2>1. /\ 0 \in Nat /\ a - 1 \in Nat /\ 0 + (a - 1) <= Len(g) /\ a - 1 <= Len(f)
          /\ buffered(g)[0] = 0
      BY <1>1, BufferedAt
    <2>2. \A i \in 1 .. a - 1 : g[0 + i] = f[i]
      BY DEF Rounds, IsWritten
    <2> QED BY <1>1, <2>1, <2>2, BufferedBehind, Zenon
  <1>3. \A i \in 0 .. a - 1 : buffered(g)[i] = buffered(f)[i]
    BY <1>2
  <1>4. \A i \in 0 .. Len(s) + 4 : buffered(g)[(a - 1) + i] = buffered(Assignment(s))[i]
    <2>1. /\ Assignment(s) \in Seq(Tokens) /\ Len(Assignment(s)) = Len(s) + 4
      BY <1>1, AssignmentIs, Zenon
    <2>2. /\ a - 1 \in Nat /\ Len(s) + 4 \in Nat /\ (a - 1) + (Len(s) + 4) <= Len(g)
          /\ Len(s) + 4 <= Len(Assignment(s)) /\ buffered(g)[a - 1] = 0
      BY <1>1, <1>3, <2>1
    <2>3. \A i \in 1 .. Len(s) + 4 : g[(a - 1) + i] = Assignment(s)[i]
      BY Zenon DEF Rounds, IsWritten
    <2> DEFINE line == Assignment(s)
    <2>4. /\ line \in Seq(Tokens) /\ Len(s) + 4 <= Len(line)
          /\ \A i \in 1 .. Len(s) + 4 : g[(a - 1) + i] = line[i]
      BY <2>1, <2>2, <2>3, Zenon
    <2> HIDE DEF line
    <2>5. \A i \in 0 .. Len(s) + 4 : buffered(g)[(a - 1) + i] = buffered(line)[i]
      BY <1>1, <2>2, <2>4, BufferedBehind
    <2> QED BY <2>5, Zenon DEF line
  <1> QED BY <1>3, <1>4

\* The line of the profile is found where it was written.
LEMMA ReadAgain ==
  ASSUME NEW f, NEW s, NEW a, NEW b, NEW g, Rounds(f, s, a, b, g), buffered(f)[a - 1] = 0,
         \A q \in Opens(f) : a <= q, buffered(Assignment(s))[Len(s) + 3] # 0
  PROVE  read_conf_engine(g) = [text |-> g, first |-> a, last |-> a + Len(s) + 3]
  <1>1. /\ f \in Seq(Tokens) /\ s \in Seq(Tokens) /\ g \in Seq(Tokens)
        /\ a \in 1 .. Len(f) /\ b \in a .. Len(f) /\ text(g) = g
        /\ Len(g) = (a + Len(s) + 3) + (Len(f) - b)
        /\ \A i \in 1 .. a - 1 : g[i] = f[i]
        /\ \A i \in 1 .. Len(s) + 4 : g[(a - 1) + i] = Assignment(s)[i]
        /\ \A i \in 1 .. Len(s) : s[i] # "quote"
    BY Zenon DEF Rounds, IsWritten
  <1>2. a \in Nat \ {0} /\ Len(s) \in Nat /\ Len(g) \in Nat /\ a + Len(s) + 3 <= Len(g)
    BY <1>1
  <1>3. /\ \A i \in 0 .. a - 1 : buffered(g)[i] = buffered(f)[i]
        /\ \A i \in 0 .. Len(s) + 4 : buffered(g)[(a - 1) + i] = buffered(Assignment(s))[i]
    BY ReadsLine
  <1>4. /\ Assignment(s) \in Seq(Tokens) /\ Len(Assignment(s)) = Len(s) + 4
        /\ Assignment(s)[1] = "opt" /\ Assignment(s)[2] = "quote"
        /\ \A i \in 1 .. Len(s) : Assignment(s)[2 + i] = s[i]
        /\ Assignment(s)[Len(s) + 3] = "quote" /\ Assignment(s)[Len(s) + 4] = "nl"
    BY <1>1, AssignmentIs, Zenon
  <1>5. /\ g[a] = "opt" /\ g[a + 1] = "quote" /\ g[a + Len(s) + 2] = "quote"
        /\ \A q \in a + 2 .. a + Len(s) + 1 : g[q] # "quote"
    <2>1. g[(a - 1) + 1] = "opt" /\ g[(a - 1) + 2] = "quote"
          /\ g[(a - 1) + (Len(s) + 3)] = "quote"
      <3>1. /\ 1 \in 1 .. Len(s) + 4 /\ 2 \in 1 .. Len(s) + 4
            /\ Len(s) + 3 \in 1 .. Len(s) + 4
        BY <1>2
      <3> QED BY <1>1, <1>4, <3>1, Zenon
    <2>2. ASSUME NEW q \in a + 2 .. a + Len(s) + 1 PROVE g[q] # "quote"
      <3> DEFINE i == q - (a + 1)
      <3>1. i \in 1 .. Len(s) /\ 2 + i \in 1 .. Len(s) + 4 /\ (a - 1) + (2 + i) = q
        BY <1>2
      <3> HIDE DEF i
      <3>2. g[(a - 1) + (2 + i)] = s[i]
        BY <1>1, <1>4, <3>1, Zenon
      <3> QED BY <1>1, <3>1, <3>2, Zenon
    <2>3. (a - 1) + 1 = a /\ (a - 1) + 2 = a + 1 /\ (a - 1) + (Len(s) + 3) = a + Len(s) + 2
      BY <1>2
    <2> QED BY <2>1, <2>2, <2>3, Zenon
  <1>6. a \notin Pieces(g)
    <2>1. buffered(Assignment(s))[1] = 1
      <3>1. /\ 1 \in 1 .. Len(Assignment(s)) /\ 1 - 1 = 0 /\ Assignment(s)[1] # "nl"
            /\ 0 + 1 # LineMax /\ 0 + 1 = 1
        BY <1>2, <1>4, TemplateOK
      <3> QED BY <1>4, <3>1, BufferedAt
    <2>2. 1 \in 0 .. Len(s) + 4 /\ (a - 1) + 1 = a /\ a # Len(g)
      BY <1>2
    <2>3. buffered(g)[a] = 1
      BY <1>3, <2>1, <2>2
    <2> QED BY <2>2, <2>3, PieceIs
  <1>7. a + 1 \in Opens(g) /\ \A q \in Opens(g) : a + 1 <= q
    <2>1. a + 1 \in Opens(g)
      <3>1. a + 1 \in 1 .. Len(g) /\ a \in 1 .. a + 1 /\ a \in 1 .. Len(g)
        BY <1>2
      <3>2. Together(Pieces(g), a, a + 1)
        <4>1. ASSUME NEW p \in Pieces(g) PROVE p < a <=> p < a + 1
          <5>1. p \in Nat /\ p # a
            BY <1>6, PieceIs
          <5> QED BY <1>2, <5>1
        <4> QED BY <4>1, Zenon DEF Together
      <3> QED BY <1>5, <3>1, <3>2, Zenon DEF Opens
    <2>2. ASSUME NEW q \in Opens(g), q < a PROVE FALSE
      <3>1. PICK e \in 1 .. q : g[e] \in {"=", "opt"} /\ Together(Pieces(g), e, q)
        BY Zenon DEF Opens
      <3>2. PICK o \in 1 .. Len(g) : g[o] = "opt" /\ Together(Pieces(g), o, q)
        BY Zenon DEF Opens
      <3>3. q \in 1 .. Len(g) /\ g[q] = "quote"
        BY Zenon DEF Opens
      <3>4. o < a
        <4>1. a - 1 \in 1 .. Len(g) /\ a - 1 \in 0 .. a - 1 /\ ~(a - 1 < q)
          BY <1>2, <2>2, <3>3
        <4>2. a - 1 \in Pieces(g)
          BY <1>3, <4>1, PieceIs
        <4>3. ~(a - 1 < o)
          BY <3>2, <4>1, <4>2, Zenon DEF Together
        <4> QED BY <1>2, <4>3
      <3>5. /\ e \in 1 .. a - 1 /\ o \in 1 .. a - 1 /\ q \in 1 .. a - 1
            /\ e \in 1 .. q /\ o \in 1 .. Len(f) /\ q \in 1 .. Len(f)
        BY <1>1, <1>2, <2>2, <3>3, <3>4
      <3>6. f[e] = g[e] /\ f[o] = g[o] /\ f[q] = g[q]
        BY <1>1, <3>5, Zenon
      <3>7. ASSUME NEW i \in 1 .. a - 1, Together(Pieces(g), i, q)
            PROVE  Together(Pieces(f), i, q)
        <4>1. ASSUME NEW p \in Pieces(f) PROVE p < i <=> p < q
          <5>1. p \in 1 .. Len(f) /\ (buffered(f)[p] = 0 \/ p = Len(f))
            BY PieceIs
          <5>2. CASE p < a
            <6>1. p \in 0 .. a - 1 /\ p # Len(f) /\ p \in 1 .. Len(g)
              BY <1>1, <1>2, <5>1, <5>2
            <6>2. p \in Pieces(g)
              BY <1>3, <5>1, <6>1, PieceIs
            <6> QED BY <3>7, <6>2, Zenon DEF Together
          <5>3. CASE ~(p < a)
            BY <1>2, <2>2, <3>3, <5>1, <5>3
          <5> QED BY <5>2, <5>3
        <4> QED BY <4>1, Zenon DEF Together
      <3>8. Together(Pieces(f), e, q) /\ Together(Pieces(f), o, q)
        BY <3>1, <3>2, <3>5, <3>7, Zenon
      <3>9. q \in Opens(f)
        BY <3>1, <3>2, <3>3, <3>5, <3>6, <3>8, Zenon DEF Opens
      <3> QED BY <1>2, <2>2, <3>3, <3>9
    <2>3. ASSUME NEW q \in Opens(g) PROVE a + 1 <= q
      <3>1. q \in 1 .. Len(g) /\ g[q] = "quote"
        BY Zenon DEF Opens
      <3>2. q # a
        BY <1>5, <3>1
      <3> QED BY <1>2, <2>2, <3>1, <3>2
    <2> QED BY <2>1, <2>3
  <1>8. Min(Opens(g)) = a + 1
    <2>1. Opens(g) \subseteq Nat
      BY DEF Opens
    <2> QED BY <1>7, <2>1, MinUnique, Zenon
  <1>9. /\ Closes(g) = {q \in (a + 1) + 1 .. Len(g) : g[q] = "quote"}
    BY <1>8, Zenon DEF Closes
  <1>10. a + Len(s) + 2 \in Closes(g) /\ \A q \in Closes(g) : a + Len(s) + 2 <= q
    <2>1. a + Len(s) + 2 \in (a + 1) + 1 .. Len(g)
      BY <1>2
    <2>2. ASSUME NEW q \in Closes(g) PROVE a + Len(s) + 2 <= q
      <3>1. q \in (a + 1) + 1 .. Len(g) /\ g[q] = "quote"
        BY <1>9
      <3>2. q \notin a + 2 .. a + Len(s) + 1
        BY <1>5, <3>1
      <3> QED BY <1>2, <3>1, <3>2
    <2> QED BY <1>5, <1>9, <2>1, <2>2
  <1>11. Min(Closes(g)) = a + Len(s) + 2
    <2>1. Closes(g) \subseteq Nat
      BY <1>2, <1>9
    <2> QED BY <1>10, <2>1, MinUnique, Zenon
  <1>12. Begin(g, a + 1) = a
    <2> DEFINE before == {0} \cup {p \in Pieces(g) : p < a + 1}
    <2>1. before \subseteq 0 .. Len(g)
      BY <1>2, PieceIs
    <2>2. a - 1 \in before
      <3>1. CASE a = 1
        BY <3>1
      <3>2. CASE a # 1
        <4>1. a - 1 \in 1 .. Len(g) /\ a - 1 < a + 1 /\ a - 1 \in 0 .. a - 1
          BY <1>2, <3>2
        <4>2. a - 1 \in Pieces(g)
          BY <1>3, <4>1, PieceIs
        <4> QED BY <4>1, <4>2
      <3> QED BY <3>1, <3>2
    <2>3. ASSUME NEW p \in before PROVE p <= a - 1
      <3>1. p \in Nat /\ p < a + 1 /\ p # a
        BY <1>2, <1>6, PieceIs
      <3> QED BY <1>2, <3>1
    <2>4. Max(before) = a - 1
      <3> HIDE DEF before
      <3> QED BY <1>2, <2>1, <2>2, <2>3, MaxUnique, Zenon
    <2>5. Begin(g, a + 1) = Max(before) + 1
      BY Zenon DEF Begin
    <2> QED BY <1>2, <2>4, <2>5
  <1>13. End(g, a + Len(s) + 2) = a + Len(s) + 3
    <2> DEFINE behind == {p \in Pieces(g) : p >= a + Len(s) + 2}
    <2>1. behind \subseteq Nat
      BY PieceIs
    <2>2. buffered(Assignment(s))[Len(s) + 4] = 0
      <3>1. Len(s) + 4 \in 1 .. Len(Assignment(s))
        BY <1>2, <1>4
      <3> QED BY <1>4, <3>1, BufferedAt
    <2>3. /\ Len(s) + 4 \in 0 .. Len(s) + 4 /\ (a - 1) + (Len(s) + 4) = a + Len(s) + 3
          /\ Len(s) + 3 \in 0 .. Len(s) + 4 /\ (a - 1) + (Len(s) + 3) = a + Len(s) + 2
      BY <1>2
    <2>4. buffered(g)[a + Len(s) + 3] = 0 /\ buffered(g)[a + Len(s) + 2] # 0
      BY <1>3, <2>2, <2>3
    <2>5. a + Len(s) + 3 \in behind
      BY <1>2, <2>4, PieceIs
    <2>6. ASSUME NEW p \in behind PROVE a + Len(s) + 3 <= p
      <3>1. p \in Nat /\ p >= a + Len(s) + 2 /\ p # a + Len(s) + 2
        BY <1>2, <2>4, PieceIs
      <3> QED BY <1>2, <3>1
    <2>7. Min(behind) = a + Len(s) + 3
      <3> HIDE DEF behind
      <3> QED BY <2>1, <2>5, <2>6, MinUnique, Zenon
    <2> QED BY <2>7, Zenon DEF End
  <1>14. Opens(g) # {} /\ Closes(g) # {}
    BY <1>7, <1>10, Zenon
  <1> QED BY <1>1, <1>8, <1>11, <1>12, <1>13, <1>14, Zenon DEF read_conf_engine

LEMMA SameEnd ==
  ASSUME NEW f \in Seq(Tokens), NEW g \in Seq(Tokens),
         NEW m \in 0 .. Len(f), NEW n \in 0 .. Len(g), Len(f) - m = Len(g) - n,
         \A i \in 1 .. Len(f) - m : g[n + i] = f[m + i]
  PROVE  SubSeq(g, n + 1, Len(g)) = SubSeq(f, m + 1, Len(f))
  <1> DEFINE x == SubSeq(g, n + 1, Len(g))
             y == SubSeq(f, m + 1, Len(f))
  <1>1. /\ x \in Seq(Tokens) /\ Len(x) = Len(g) - n
        /\ \A i \in 1 .. Len(g) - n : x[i] = g[n + i]
    OBVIOUS
  <1>2. /\ y \in Seq(Tokens) /\ Len(y) = Len(f) - m
        /\ \A i \in 1 .. Len(f) - m : y[i] = f[m + i]
    OBVIOUS
  <1> HIDE DEF x, y
  <1>3. Len(x) = Len(y)
    BY <1>1, <1>2
  <1>4. ASSUME NEW i \in 1 .. Len(x) PROVE x[i] = y[i]
    BY <1>1, <1>2, <1>4
  <1>5. x = y
    BY <1>1, <1>2, <1>3, <1>4, SeqEqual
  <1> QED BY <1>5 DEF x, y

\* So a config generated from the generated one has nothing of the strategy in between.
LEMMA GeneratedAgain ==
  ASSUME NEW f, NEW s, NEW a, NEW b, NEW g, Rounds(f, s, a, b, g),
         read_conf_engine(g) = [text |-> g, first |-> a, last |-> a + Len(s) + 3], NEW next
  PROVE  Generated(g, next) = Generated(f, next)
  <1>1. /\ f \in Seq(Tokens) /\ g \in Seq(Tokens) /\ Len(s) \in Nat
        /\ a \in 1 .. Len(f) /\ b \in a .. Len(f)
        /\ read_conf_engine(f) = [text |-> f, first |-> a, last |-> b]
        /\ Len(g) = (a + Len(s) + 3) + (Len(f) - b)
        /\ \A i \in 1 .. a - 1 : g[i] = f[i]
        /\ \A i \in 1 .. Len(f) - b : g[(a + Len(s) + 3) + i] = f[b + i]
    BY DEF Rounds, IsWritten
  <1>2. SubSeq(g, 1, a - 1) = SubSeq(f, 1, a - 1)
    <2>1. \A i \in 1 .. a - 1 : g[i] \in Tokens /\ f[i] \in Tokens
      BY <1>1
    <2> QED BY <1>1, <2>1
  <1>3. SubSeq(g, (a + Len(s) + 3) + 1, Len(g)) = SubSeq(f, b + 1, Len(f))
    <2> DEFINE n == a + Len(s) + 3
    <2>1. n \in 0 .. Len(g) /\ b \in 0 .. Len(f) /\ Len(f) - b = Len(g) - n
      BY <1>1
    <2>2. \A i \in 1 .. Len(f) - b : g[n + i] = f[b + i]
      BY <1>1, Zenon
    <2> HIDE DEF n
    <2>3. SubSeq(g, n + 1, Len(g)) = SubSeq(f, b + 1, Len(f))
      BY <1>1, <2>1, <2>2, SameEnd, Zenon
    <2> QED BY <2>3 DEF n
  <1>4. Generated(g, next) =
          (SubSeq(g, 1, a - 1) \o Assignment(next)) \o SubSeq(g, (a + Len(s) + 3) + 1, Len(g))
    <2>1. Generated(g, next) =
            create_zapret_configs([text |-> g, first |-> a, last |-> a + Len(s) + 3], next)
      BY Zenon DEF Generated
    <2> QED BY <2>1 DEF create_zapret_configs
  <1>5. Generated(f, next) =
          (SubSeq(f, 1, a - 1) \o Assignment(next)) \o SubSeq(f, b + 1, Len(f))
    <2>1. Generated(f, next) =
            create_zapret_configs([text |-> f, first |-> a, last |-> b], next)
      BY <1>1, Zenon DEF Generated
    <2> QED BY <2>1 DEF create_zapret_configs
  <1> QED BY <1>2, <1>3, <1>4, <1>5, Zenon

\* The shell comes to the line of the profile as it came to the lines of the value, takes
\* the strategy from it, and leaves it as it left them.
LEMMA ShellOfGenerated ==
  ASSUME NEW f, NEW s, NEW a, NEW b, NEW g, Rounds(f, s, a, b, g),
         ShellAt(f)[a - 1].in = "code", ShellAt(f)[b].in = "code",
         ShellAt(f)[b].others = ShellAt(f)[a - 1].others,
         \A i \in b .. Len(f) : ShellAt(f)[i].in # "opt"
  PROVE  Shell(g).opt = s /\ Shell(g).others = Shell(f).others
  <1>1. /\ f \in Seq(Tokens) /\ s \in Seq(Tokens) /\ g \in Seq(Tokens)
        /\ a \in 1 .. Len(f) /\ b \in a .. Len(f)
        /\ Len(g) = (a + Len(s) + 3) + (Len(f) - b)
        /\ \A i \in 1 .. a - 1 : g[i] = f[i]
        /\ \A i \in 1 .. Len(s) + 4 : g[(a - 1) + i] = Assignment(s)[i]
        /\ \A i \in 1 .. Len(f) - b : g[(a + Len(s) + 3) + i] = f[b + i]
        /\ \A i \in 1 .. Len(s) : s[i] # "quote"
    BY Zenon DEF Rounds, IsWritten
  <1>2. /\ a \in Nat \ {0} /\ Len(s) \in Nat /\ Len(g) \in Nat
        /\ a + Len(s) + 3 <= Len(g)
    BY <1>1
  <1>3. /\ Assignment(s)[1] = "opt" /\ Assignment(s)[2] = "quote"
        /\ \A i \in 1 .. Len(s) : Assignment(s)[2 + i] = s[i]
        /\ Assignment(s)[Len(s) + 3] = "quote" /\ Assignment(s)[Len(s) + 4] = "nl"
    BY <1>1, AssignmentIs, Zenon
  <1>4. /\ g[a] = "opt" /\ g[a + 1] = "quote"
        /\ \A i \in 1 .. Len(s) : g[(a + 1) + i] = s[i] /\ s[i] # "quote"
        /\ g[a + Len(s) + 2] = "quote" /\ g[a + Len(s) + 3] = "nl"
    <2>1. /\ g[(a - 1) + 1] = "opt" /\ g[(a - 1) + 2] = "quote"
          /\ g[(a - 1) + (Len(s) + 3)] = "quote" /\ g[(a - 1) + (Len(s) + 4)] = "nl"
      <3>1. /\ 1 \in 1 .. Len(s) + 4 /\ 2 \in 1 .. Len(s) + 4
            /\ Len(s) + 3 \in 1 .. Len(s) + 4 /\ Len(s) + 4 \in 1 .. Len(s) + 4
        BY <1>2
      <3> QED BY <1>1, <1>3, <3>1, Zenon
    <2>2. ASSUME NEW i \in 1 .. Len(s) PROVE g[(a + 1) + i] = s[i] /\ s[i] # "quote"
      <3>1. 2 + i \in 1 .. Len(s) + 4 /\ (a - 1) + (2 + i) = (a + 1) + i
        BY <1>2
      <3>2. g[(a - 1) + (2 + i)] = s[i]
        BY <1>1, <1>3, <3>1, Zenon
      <3> QED BY <1>1, <3>1, <3>2, Zenon
    <2>3. /\ (a - 1) + 1 = a /\ (a - 1) + 2 = a + 1
          /\ (a - 1) + (Len(s) + 3) = a + Len(s) + 2
          /\ (a - 1) + (Len(s) + 4) = a + Len(s) + 3
      BY <1>2
    <2> QED BY <2>1, <2>2, <2>3, Zenon
  <1>5. ShellAt(g)[a - 1] = ShellAt(f)[a - 1] /\ ShellAt(g)[a - 1] \in Shells
    <2>1. a - 1 \in Nat /\ a - 1 <= Len(f) /\ a - 1 <= Len(g) /\ a - 1 \in 0 .. Len(g)
      BY <1>1, <1>2
    <2>2. \A i \in 1 .. a - 1 : f[i] = g[i]
      BY <1>1
    <2> QED BY <1>1, <2>1, <2>2, ShellBefore, ShellAtType, Zenon
  <1>6. /\ ShellAt(g)[a + 1].in = "value" /\ ShellAt(g)[a + 1].opt = << >>
        /\ ShellAt(g)[a + 1].others = ShellAt(f)[a - 1].others
    <2>1. /\ a \in 1 .. Len(g) /\ a + 1 \in 1 .. Len(g) /\ (a + 1) - 1 = a
      BY <1>2
    <2>2. /\ ShellAt(g)[a] = ShellReads(ShellAt(g)[a - 1], "opt")
          /\ ShellAt(g)[a + 1] = ShellReads(ShellAt(g)[a], "quote")
      BY <1>1, <1>4, <2>1, ShellAtStep
    <2>3. /\ ShellAt(g)[a].in = "opt"
          /\ ShellAt(g)[a].others = ShellAt(f)[a - 1].others
      BY <1>5, <2>2 DEF ShellReads, Shells
    <2>4. ShellAt(g)[a] \in Shells
      BY <1>1, <1>2, ShellAtType
    <2> QED BY <2>2, <2>3, <2>4 DEF ShellReads, Shells
  <1>7. /\ ShellAt(g)[(a + 1) + Len(s)].in = "value" /\ ShellAt(g)[(a + 1) + Len(s)].opt = s
        /\ ShellAt(g)[(a + 1) + Len(s)].others = ShellAt(f)[a - 1].others
    <2>1. a + 1 \in Nat /\ (a + 1) + Len(s) <= Len(g)
      BY <1>2
    <2> QED BY <1>1, <1>4, <1>6, <2>1, ShellWithin, Zenon
  <1>8. /\ ShellAt(g)[a + Len(s) + 3].in = "code" /\ ShellAt(g)[a + Len(s) + 3].opt = s
        /\ ShellAt(g)[a + Len(s) + 3].others = ShellAt(f)[a - 1].others
    <2>1. /\ a + Len(s) + 2 \in 1 .. Len(g) /\ (a + Len(s) + 2) - 1 = (a + 1) + Len(s)
          /\ a + Len(s) + 3 \in 1 .. Len(g) /\ (a + Len(s) + 3) - 1 = a + Len(s) + 2
          /\ (a + 1) + Len(s) \in 0 .. Len(g) /\ a + Len(s) + 2 \in 0 .. Len(g)
      BY <1>2
    <2>2. /\ ShellAt(g)[a + Len(s) + 2] = ShellReads(ShellAt(g)[(a + 1) + Len(s)], "quote")
          /\ ShellAt(g)[a + Len(s) + 3] = ShellReads(ShellAt(g)[a + Len(s) + 2], "nl")
      BY <1>1, <1>4, <2>1, ShellAtStep
    <2>3. ShellAt(g)[(a + 1) + Len(s)] \in Shells /\ ShellAt(g)[a + Len(s) + 2] \in Shells
      BY <1>1, <2>1, ShellAtType
    <2>4. /\ ShellAt(g)[a + Len(s) + 2].in = "code" /\ ShellAt(g)[a + Len(s) + 2].opt = s
          /\ ShellAt(g)[a + Len(s) + 2].others = ShellAt(f)[a - 1].others
      BY <1>7, <2>2, <2>3 DEF ShellReads, Shells
    <2> QED BY <2>2, <2>3, <2>4 DEF ShellReads, Shells
  <1>9. /\ ShellAt(g)[Len(g)].others = ShellAt(f)[Len(f)].others
        /\ ShellAt(g)[Len(g)].opt = ShellAt(g)[a + Len(s) + 3].opt
    <2>1. /\ b \in Nat /\ a + Len(s) + 3 \in Nat /\ Len(f) - b \in Nat
          /\ b + (Len(f) - b) = Len(f) /\ (a + Len(s) + 3) + (Len(f) - b) = Len(g)
          /\ ShellAt(g)[a + Len(s) + 3].others = ShellAt(f)[b].others
      BY <1>1, <1>2, <1>8
    <2>2. \A i \in 1 .. Len(f) - b : g[(a + Len(s) + 3) + i] = f[b + i]
      BY <1>1, Zenon
    <2> DEFINE n == a + Len(s) + 3
               k == Len(f) - b
    <2>3. /\ n \in Nat /\ k \in Nat /\ b + k = Len(f) /\ n + k = Len(g)
          /\ ShellAt(g)[n].in = "code" /\ ShellAt(g)[n].others = ShellAt(f)[b].others
          /\ \A i \in 1 .. k : g[n + i] = f[b + i]
      BY <1>8, <2>1, <2>2, Zenon
    <2>4. b \in Nat /\ f \in Seq(Tokens) /\ g \in Seq(Tokens)
      BY <1>1, <2>1, Zenon
    <2> HIDE DEF n, k
    <2>5. /\ ShellAt(g)[Len(g)].others = ShellAt(f)[Len(f)].others
          /\ ShellAt(g)[Len(g)].opt = ShellAt(g)[n].opt
      BY <2>3, <2>4, ShellBehind, Zenon
    <2> QED BY <2>5, Zenon DEF n
  <1> QED BY <1>8, <1>9, Zenon DEF Shell

\* A file of which Tidy holds agrees with itself over one round.
LEMMA TidyAgrees ==
  ASSUME AllTidy, NEW file \in Configs
  PROVE  RoundAgrees(file)
  <1> SUFFICES ASSUME Valid(read_conf_engine(file)), NEW s \in Strategies
               PROVE  /\ Shell(Generated(file, s)).opt = s
                      /\ Shell(Generated(file, s)).others = Shell(file).others
                      /\ \A next \in Strategies :
                           Generated(Generated(file, s), next) = Generated(file, next)
    BY Zenon DEF RoundAgrees
  <1> DEFINE a == read_conf_engine(file).first
             b == read_conf_engine(file).last
             g == Generated(file, s)
  <1>1. file \in Seq(Tokens) /\ s \in Seq(Tokens)
    BY TemplateOK, Zenon
  <1>2. Tidy(file, s)
    BY Zenon DEF AllTidy
  <1>3. Rounds(file, s, a, b, g)
    BY <1>1, <1>2, TidyRounds, Zenon
  <1>4. /\ text(file) = file
        /\ ShellAt(file)[a - 1].in = "code" /\ ShellAt(file)[b].in = "code"
        /\ ShellAt(file)[b].others = ShellAt(file)[a - 1].others
        /\ \A i \in b .. Len(file) : ShellAt(file)[i].in # "opt"
        /\ buffered(Assignment(s))[Len(s) + 3] # 0
    BY <1>2, Zenon DEF Tidy
  <1>5. buffered(file)[a - 1] = 0 /\ \A q \in Opens(file) : a <= q
    BY <1>1, <1>4, Found, Zenon
  <1> HIDE DEF a, b, g
  <1>6. Shell(g).opt = s /\ Shell(g).others = Shell(file).others
    BY <1>3, <1>4, ShellOfGenerated
  <1>7. read_conf_engine(g) = [text |-> g, first |-> a, last |-> a + Len(s) + 3]
    BY <1>3, <1>4, <1>5, ReadAgain
  <1>8. \A next \in Strategies : Generated(g, next) = Generated(file, next)
    BY <1>3, <1>7, GeneratedAgain
  <1> QED BY <1>6, <1>8, Zenon DEF g

\* Whatever config zapret2 has and whatever strategies profiles.conf names, if they are as
\* Tidy asks for: what is generated has the strategy and all other settings, and leads to
\* the same configs as the config it was generated from.
THEOREM RoundsAgree == ASSUME AllTidy PROVE Spec => []FirstRound
  <1>1. Init => FirstRound /\ original \in Configs
    BY TidyAgrees, Zenon DEF Init, FirstRound
  <1>2. /\ FirstRound /\ original \in Configs /\ [Next]_vars
        => FirstRound' /\ (original \in Configs)'
    <2> SUFFICES ASSUME original \in Configs, [Next]_vars
                 PROVE  FirstRound' /\ original' \in Configs
      OBVIOUS
    <2>1. original' = original
      BY Zenon DEF Next, Start, Apply, vars
    <2>2. RoundAgrees(original)
      BY TidyAgrees, Zenon
    <2> QED BY <2>1, <2>2, Zenon DEF FirstRound, RoundAgrees
  <1> QED BY <1>1, <1>2, PTL DEF Spec

-----------------------------------------------------------------------------
(* From the first round to any number of them.                             *)

\* The config is the original or was generated from it; so is what the template was
\* read from, which may be a strategy behind.
TemplateInv ==
  /\ RoundAgrees(original)
  /\ \/ applied = NotApplied /\ config = original
     \/ /\ applied \in Strategies
        /\ Valid(read_conf_engine(original))
        /\ config = Generated(original, applied)
  /\ \/ template = Invalid
     \/ template = read_conf_engine(original)
     \/ /\ Valid(read_conf_engine(original))
        /\ \E strategy \in Strategies :
             template = read_conf_engine(Generated(original, strategy))

\* What a round keeps of one config.
LEMMA Round ==
  ASSUME NEW file, RoundAgrees(file), Valid(read_conf_engine(file)),
         NEW strategy \in Strategies
  PROVE  /\ Shell(Generated(file, strategy)).opt = strategy
         /\ Shell(Generated(file, strategy)).others = Shell(file).others
         /\ \A next \in Strategies :
              Valid(read_conf_engine(Generated(file, strategy)))
                => Generated(Generated(file, strategy), next) = Generated(file, next)
  BY Zenon DEF RoundAgrees

\* Whatever the template was read from, the config generated is the one generated from
\* the original.
LEMMA FromOriginal ==
  ASSUME TemplateInv, Valid(template), NEW strategy \in Strategies
  PROVE  /\ Valid(read_conf_engine(original))
         /\ create_zapret_configs(template, strategy) = Generated(original, strategy)
  <1>1. CASE template = read_conf_engine(original)
    BY <1>1, Zenon DEF Generated
  <1>2. ASSUME Valid(read_conf_engine(original)), NEW earlier \in Strategies,
               template = read_conf_engine(Generated(original, earlier))
        PROVE  create_zapret_configs(template, strategy) = Generated(original, strategy)
    <2>1. Generated(Generated(original, earlier), strategy) = Generated(original, strategy)
      BY <1>2, Round, Zenon DEF TemplateInv
    <2> QED BY <1>2, <2>1, Zenon DEF Generated
  <1> QED BY <1>1, <1>2, InvalidTemplate, Zenon DEF TemplateInv

LEMMA TemplateStep ==
  ASSUME TemplateInv, [Next]_vars
  PROVE  TemplateInv'
  <1>1. CASE Start
    <2>1. UNCHANGED <<config, original, applied>> /\ template' = read_conf_engine(config)
      BY <1>1, Zenon DEF Start
    <2> QED BY <2>1, Zenon DEF TemplateInv
  <1>2. ASSUME NEW strategy \in Strategies, Apply(strategy) PROVE TemplateInv'
    <2>1. /\ Valid(template) /\ UNCHANGED <<original, template>> /\ applied' = strategy
          /\ config' = create_zapret_configs(template, strategy)
      BY <1>2, Zenon DEF Apply
    <2>2. /\ Valid(read_conf_engine(original))
          /\ config' = Generated(original, strategy)
      BY <2>1, FromOriginal, Zenon
    <2> QED BY <2>1, <2>2, Zenon DEF TemplateInv
  <1>3. CASE UNCHANGED vars
    BY <1>3, Zenon DEF vars, TemplateInv
  <1> QED BY <1>1, <1>2, <1>3 DEF Next

LEMMA TemplateInvariant == Spec /\ FirstRound => []TemplateInv
  <1>1. Init /\ FirstRound => TemplateInv
    BY Zenon DEF Init, FirstRound, TemplateInv
  <1>2. TemplateInv /\ [Next]_vars => TemplateInv'
    BY TemplateStep
  <1> QED BY <1>1, <1>2, PTL DEF Spec

\* If the config agrees with itself in the first round, then however often a generated
\* config has become the template, the strategy of the profile applied last is in effect.
THEOREM LastStrategyInEffect == Spec /\ FirstRound => []StrategyInEffect
  <1>1. ASSUME TemplateInv, applied # NotApplied PROVE Shell(config).opt = applied
    <2>1. /\ applied \in Strategies /\ RoundAgrees(original)
          /\ Valid(read_conf_engine(original)) /\ config = Generated(original, applied)
      BY <1>1, Zenon DEF TemplateInv
    <2>2. Shell(Generated(original, applied)).opt = applied
      BY <2>1, Round, Zenon
    <2> QED BY <2>1, <2>2, Zenon
  <1>2. TemplateInv => StrategyInEffect
    BY <1>1, Zenon DEF StrategyInEffect
  <1> QED BY <1>2, TemplateInvariant, PTL

\* If the config agrees with itself in the first round, no number of sessions wears away
\* another setting of it.
THEOREM SettingsKept == Spec /\ FirstRound => []OthersKept
  <1>1. ASSUME TemplateInv PROVE Shell(config).others = Shell(original).others
    <2>1. CASE config = original
      BY <2>1, Zenon
    <2>2. ASSUME applied \in Strategies, Valid(read_conf_engine(original)),
                 config = Generated(original, applied)
          PROVE  Shell(config).others = Shell(original).others
      <3>1. RoundAgrees(original)
        BY <1>1, Zenon DEF TemplateInv
      <3>2. Shell(Generated(original, applied)).others = Shell(original).others
        BY <2>2, <3>1, Round, Zenon
      <3> QED BY <2>2, <3>2, Zenon
    <2> QED BY <1>1, <2>1, <2>2, Zenon DEF TemplateInv
  <1>2. TemplateInv => OthersKept
    BY <1>1, Zenon DEF OthersKept
  <1> QED BY <1>2, TemplateInvariant, PTL

\* If the config agrees with itself in the first round, it has no history: it is what the
\* first session would have generated for the profile applied last.
THEOREM ConfigHasNoTrace == Spec /\ FirstRound => []NoTrace
  <1>1. TemplateInv => NoTrace
    BY Zenon DEF TemplateInv, NoTrace
  <1> QED BY <1>1, TemplateInvariant, PTL

\* Whatever configs and strategies there are, if they are as Tidy asks for: in any session
\* zapret2 has the strategy applied last and all its other settings, and its config has no
\* trace of the profiles applied before.
THEOREM AnyNumberOfSessions ==
  ASSUME AllTidy PROVE Spec => [](StrategyInEffect /\ OthersKept /\ NoTrace)
  BY RoundsAgree, LastStrategyInEffect, SettingsKept, ConfigHasNoTrace, PTL
=============================================================================
