------------------------------- MODULE MCBoot -------------------------------
EXTENDS Boot

\* Two packets with configurations: the second comes as the first is used.
MCTwoPackets == {<<c, d>> : c, d \in Configs}

\* Or a single packet of every other kind.
MCHosts == MCTwoPackets \cup {<<kind>> : kind \in Kinds \ Configs}
=============================================================================
