------------------------------ MODULE MCTesting ------------------------------
\* Testing on small instances: the values its constants take in the runs.
EXTENDS Testing, TLC

\* Root with either packet filter, root without one, and no root.
SafeConfs == [root : {TRUE}, domain : {TRUE}, tables : {"iptables", "nftables"}]
               \cup [root : BOOLEAN, domain : {FALSE}, tables : {""}]

\* The packet filter whose rules can be taken away, and one the program does not know.
AnyConfs == [root : {TRUE}, domain : {TRUE}, tables : {"iptables", "other"}]

\* The set-up whose rules stay.
NftablesConf == [root : {TRUE}, domain : {TRUE}, tables : {"nftables"}]

\* One usable set-up.
IptablesConf == [root : {TRUE}, domain : {TRUE}, tables : {"iptables"}]

\* One usable set-up, and one that testing_profiles refuses.
LiveConfs == IptablesConf \cup [root : {FALSE}, domain : {TRUE}, tables : {"iptables"}]

\* Bound for the properties of marks and rules, which mention neither the service
\* nor nfqws2: an active service only refuses keys, and a child that dies changes
\* only which verdict its test ends with, never when or where it is published.
QuietSystem == ~zapret2_active /\ \A t \in Threads : child[t] # "dead"

\* Bound on the nftables rules, which no test takes away: a sweep leaves two, and a
\* test beside them sees what any more of them would show it.
MaxLeft == 3
FewRules == rules["nftables"] <= MaxLeft

Symmetry == Permutations(Threads)
=============================================================================
