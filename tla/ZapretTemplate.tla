---------------------------- MODULE ZapretTemplate ----------------------------
(***************************************************************************)
(* The configs of the profiles: read_conf_engine reads the config of       *)
(* zapret2 as a template and finds NFQWS2_OPT in it, create_zapret_configs *)
(* writes the template out with another NFQWS2_OPT.  As the result is      *)
(* copied over the config it was read from, the next session reads what    *)
(* this one has written.                                                   *)
(*                                                                         *)
(* A file is a sequence of tokens: "opt" stands for the text NFQWS2_OPT=,  *)
(* "=" for any other "=", "quote" for a double quote, "nl" for the end of  *)
(* a line, "#" for the beginning of a comment, any other token for a piece *)
(* of text.                                                                *)
(***************************************************************************)
EXTENDS Naturals, Sequences, FiniteSetsExt

CONSTANTS
  LineMax,    \* bound: what fgets reads at a time, 511 characters in the code
  MaxLines,   \* bound: what fits into ZapretConf.text, 256 in the code
  Tokens,     \* what files consist of
  Configs,    \* configs of zapret2 there can be
  Strategies, \* values of NFQWS2_OPT in profiles.conf
  MaxSessions \* bound: starts of the program

ASSUME TemplateOK ==
  /\ LineMax \in Nat \ {0, 1}
  /\ MaxLines \in Nat \ {0}
  /\ MaxSessions \in Nat
  /\ {"opt", "=", "quote", "nl", "#"} \subseteq Tokens
  /\ \A file \in Configs \cup Strategies : file \in Seq(Tokens)

VARIABLES
  config,    \* the config of zapret2
  original,  \* what it was at first
  template,  \* the ZapretConf of this session
  applied,   \* the strategy of the profile applied last
  session    \* sessions so far
vars == <<config, original, template, applied, session>>

NotApplied == << >>

-----------------------------------------------------------------------------
(* read_conf_engine.                                                       *)

\* What fgets has in its buffer after i characters of the file: nothing when it has just
\* returned a piece, at the end of a line or when the buffer is full.
buffered(file) ==
  LET n[i \in 0 .. Len(file)] ==
        IF i = 0 \/ file[i] = "nl" \/ n[i - 1] + 1 = LineMax THEN 0 ELSE n[i - 1] + 1
  IN  n

\* The pieces, each by its last position in the file.
Pieces(file) ==
  LET n == buffered(file) IN {i \in 1 .. Len(file) : n[i] = 0 \/ i = Len(file)}

\* text, one piece behind the other.
text(file) ==
  LET ends == Pieces(file)
      full == {p \in ends : Cardinality({q \in ends : q <= p}) = MaxLines}
  IN  SubSeq(file, 1, IF full = {} THEN Len(file) ELSE Min(full))

\* Where the piece with position i begins and where it ends.
Begin(t, i) == Max({0} \cup {p \in Pieces(t) : p < i}) + 1
End(t, i)   == Min({p \in Pieces(t) : p >= i})

\* No piece ends between the positions i and j.
Together(ends, i, j) == \A p \in ends : p < i <=> p < j

\* Quotes in a piece with NFQWS2_OPT= in it, behind the first "=" of the piece, be it
\* this one or another; the quotes after the first of them.
Opens(t) ==
  LET ends == Pieces(t)
  IN  {q \in 1 .. Len(t) :
         /\ t[q] = "quote"
         /\ \E e \in 1 .. q : t[e] \in {"=", "opt"} /\ Together(ends, e, q)
         /\ \E o \in 1 .. Len(t) : t[o] = "opt" /\ Together(ends, o, q)}
Closes(t) == {q \in Min(Opens(t)) + 1 .. Len(t) : t[q] = "quote"}

Invalid == [text |-> << >>, first |-> 0, last |-> 0]

\* The value ends with the second quote, in the same piece or (stand_format) in another.
\* first and last are the positions create_zapret_configs puts its line for.
read_conf_engine(file) ==
  LET t == text(file)
  IN  IF Opens(t) = {} \/ Closes(t) = {} THEN Invalid
      ELSE [text |-> t, first |-> Begin(t, Min(Opens(t))), last |-> End(t, Min(Closes(t)))]

\* create_zapret_configs goes on with a template it has found NFQWS2_OPT in.
Valid(conf) == conf.first > 0

-----------------------------------------------------------------------------
(* create_zapret_configs.                                                  *)

\* The line of the profile.
Assignment(strategy) == <<"opt", "quote">> \o strategy \o <<"quote", "nl">>

\* Mutant: the line with the closing quote is kept.
KeepsClosing(conf, strategy) ==
  SubSeq(conf.text, 1, conf.first - 1) \o Assignment(strategy)
  \o SubSeq(conf.text, End(conf.text, Min(Opens(conf.text))) + 1, Len(conf.text))

\* Mutant: the line NFQWS2_OPT= opens with is kept when the value is in other lines.
KeepsOpening(conf, strategy) ==
  SubSeq(conf.text, 1, Begin(conf.text, Min(Closes(conf.text))) - 1) \o Assignment(strategy)
  \o SubSeq(conf.text, conf.last + 1, Len(conf.text))

\* Mutant: no end of line after the assignment.
NoLineEnd(conf, strategy) ==
  SubSeq(conf.text, 1, conf.first - 1)
  \o <<"opt", "quote">> \o strategy \o <<"quote">>
  \o SubSeq(conf.text, conf.last + 1, Len(conf.text))

create_zapret_configs(conf, strategy) ==
  SubSeq(conf.text, 1, conf.first - 1) \o Assignment(strategy)
  \o SubSeq(conf.text, conf.last + 1, Len(conf.text))

-----------------------------------------------------------------------------
Init ==
  /\ original \in Configs
  /\ config = original
  /\ template = Invalid
  /\ applied = NotApplied
  /\ session = 0

\* main reads the template once; the program ends when it is not valid.
Start ==
  /\ session < MaxSessions
  /\ template' = read_conf_engine(config)
  /\ session' = session + 1
  /\ UNCHANGED <<config, original, applied>>

\* Enter: the generated config of a profile is copied over the config of zapret2.
Apply(strategy) ==
  /\ Valid(template)
  /\ config' = create_zapret_configs(template, strategy)
  /\ applied' = strategy
  /\ UNCHANGED <<original, template, session>>

Next == Start \/ \E strategy \in Strategies : Apply(strategy)

Spec == Init /\ [][Next]_vars

-----------------------------------------------------------------------------
(* The reference definition: what the shell makes of a config.             *)

ShellReads(shell, c) ==
  CASE shell.in = "comment" -> IF c = "nl" THEN [shell EXCEPT !.in = "code"] ELSE shell
    [] shell.in = "value" /\ c = "quote"  -> [shell EXCEPT !.in = "code"]
    [] shell.in = "value" /\ c # "quote"  -> [shell EXCEPT !.opt = Append(@, c)]
    [] shell.in = "opt" /\ c = "quote"    -> [shell EXCEPT !.in = "value", !.opt = << >>]
    [] shell.in = "opt" /\ c # "quote"    -> [shell EXCEPT !.in = "code", !.opt = <<c>>]
    [] shell.in = "string" -> [shell EXCEPT !.in = IF c = "quote" THEN "code" ELSE "string",
                                            !.others = Append(@, c)]
    [] shell.in = "code" /\ c = "#"       -> [shell EXCEPT !.in = "comment"]
    [] shell.in = "code" /\ c = "opt"     -> [shell EXCEPT !.in = "opt"]
    [] shell.in = "code" /\ c = "quote"   -> [shell EXCEPT !.in = "string",
                                                           !.others = Append(@, c)]
    [] shell.in = "code" /\ c = "nl"      -> shell
    [] OTHER                              -> [shell EXCEPT !.others = Append(@, c)]

\* After i tokens of the file.
ShellAt(file) ==
  LET shell[i \in 0 .. Len(file)] ==
        IF i = 0 THEN [in |-> "code", opt |-> << >>, others |-> << >>]
        ELSE ShellReads(shell[i - 1], file[i])
  IN  shell

Shell(file) == ShellAt(file)[Len(file)]

\* The config generated of a file for a profile with this strategy.
Generated(file, strategy) == create_zapret_configs(read_conf_engine(file), strategy)

\* One round on a file: what is generated has the strategy and the other settings, and
\* a config generated from it is the one generated from the file at once.
RoundAgrees(file) ==
  Valid(read_conf_engine(file)) =>
    \A strategy \in Strategies :
      LET made == Generated(file, strategy)
      IN  /\ Shell(made).opt = strategy
          /\ Shell(made).others = Shell(file).others
          /\ \A next \in Strategies :
               Valid(read_conf_engine(made)) => Generated(made, next) = Generated(file, next)

\* What the round relies on.  The file and what is generated of it fit into text; to the
\* shell the lines replaced are an assignment of NFQWS2_OPT and nothing else, and there is
\* none behind them; the strategy has no quote, and the one that closes it is not the last
\* character fgets takes.
Tidy(file, strategy) ==
  LET conf  == read_conf_engine(file)
      shell == ShellAt(file)
  IN  /\ text(file) = file
      /\ text(Generated(file, strategy)) = Generated(file, strategy)
      /\ shell[conf.first - 1].in = "code" /\ shell[conf.last].in = "code"
      /\ shell[conf.last].others = shell[conf.first - 1].others
      /\ \A i \in conf.last .. Len(file) : shell[i].in # "opt"
      /\ \A i \in 1 .. Len(strategy) : strategy[i] # "quote"
      /\ buffered(Assignment(strategy))[Len(strategy) + 3] # 0

AllTidy ==
  \A file \in Configs : Valid(read_conf_engine(file)) =>
    \A strategy \in Strategies : Tidy(file, strategy)

\* Every config there can be agrees with itself over one round: read as a template,
\* written with a strategy, and read again, it leads to the same configs.
FirstRound == session = 0 => RoundAgrees(original)

\* zapret2 runs with the strategy of the profile applied last, whatever the config
\* looked like and however often it was taken as the template.
StrategyInEffect == applied # NotApplied => Shell(config).opt = applied

\* All other settings stay what they were, in their order.
OthersKept == Shell(config).others = Shell(original).others

\* Applying a profile leaves no trace of the profiles applied before, over any
\* number of sessions: the config is the one made from the original at once.
NoTrace ==
  applied # NotApplied =>
    config = Generated(original, applied)

=============================================================================
