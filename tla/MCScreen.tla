------------------------------- MODULE MCScreen -------------------------------
\* Screen on a small instance: the set-ups a session starts with.
EXTENDS Screen

\* One usable set-up, and one that testing_profiles refuses.
ScreenConfs == [root : BOOLEAN, domain : {TRUE}, tables : {"iptables"}]
=============================================================================
