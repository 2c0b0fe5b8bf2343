--------------------------- MODULE MCZapretTemplate ---------------------------
\* ZapretTemplate on small instances: configs put together from lines of each kind.
EXTENDS ZapretTemplate, SequencesExt

\* A setting, one too long for fgets, a comment, a value of several lines.
OtherLines ==
  { <<"a", "nl">>,
    <<"b", "b", "b", "b", "b", "b", "b", "nl">>,
    <<"#", "x", "quote", "nl">>,
    <<"c", "=", "quote", "nl", "c", "quote", "nl">> }

\* NFQWS2_OPT in one line, in several in two ways, and in one too long for fgets.
OptLines ==
  { <<"opt", "quote", "u", "quote", "nl">>,
    <<"opt", "quote", "nl", "u", "nl", "quote", "nl">>,
    <<"opt", "quote", "u", "nl", "u", "quote", "nl">>,
    <<"opt", "quote", "u", "u", "u", "u", "quote", "nl">> }

Blocks(n) == UNION {[1 .. k -> OtherLines] : k \in 0 .. n}

\* Configs as zapret2 has them, also without the end of the last line.
PlainConfigs ==
  { FlattenSeq(before) \o opt \o FlattenSeq(after) :
      before \in Blocks(2), opt \in OptLines, after \in Blocks(1) }
  \cup { FlattenSeq(before) \o <<"opt", "quote", "u", "quote">> : before \in Blocks(2) }

\* Configs read_conf_engine finds nothing in.
OtherConfigs == { FlattenSeq(b) : b \in Blocks(2) }
                  \cup { FlattenSeq(b) \o <<"opt", "quote", "u", "nl">> : b \in Blocks(1) }

AllConfigs == PlainConfigs \cup OtherConfigs

\* Too many lines.
LongConfigs == { <<"a", "nl", "opt", "quote", "u", "quote", "nl", "a", "nl", "b", "nl">> }

\* A comment that shows how NFQWS2_OPT is written.
CommentedConfigs ==
  { <<"#", "opt", "quote", "x", "quote", "nl", "opt", "quote", "u", "quote", "nl">> }

\* Strategies of one token, of a line too long for fgets, of several lines; and one
\* that makes the line just as long as fgets reads.
PlainStrategies == { <<"s">>, <<"s", "s", "s", "t">>, <<"s", "nl", "t">> }
EdgeStrategies  == { <<"s", "s">> }

\* The configs and strategies of the run zapret_template are as the theorems ask for.
ASSUME PlainIsTidy == Configs = AllConfigs /\ Strategies = PlainStrategies => AllTidy
=============================================================================
