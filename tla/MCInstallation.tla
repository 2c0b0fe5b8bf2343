---------------------------- MODULE MCInstallation ----------------------------
\* Installation on small instances: what profiles.conf can hold.
EXTENDS Installation

Sec(id, opt) == [id |-> id, strategy |-> opt]

\* One profile; two, of two strategies, in either order; two of one strategy; and
\* files read_conf_profiles refuses: no section, a wrong first id, a placeholder.
Confs ==
  { << Sec(0, "a") >>,
    << Sec(0, "a"), Sec(1, "b") >>,
    << Sec(0, "b"), Sec(1, "a") >>,
    << Sec(0, "a"), Sec(1, "a") >>,
    << Sec(1, "a"), Sec(0, "b") >>,
    << >>,
    << Sec(0, NoOpt) >> }
=============================================================================
