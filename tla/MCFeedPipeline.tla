--------------------------- MODULE MCFeedPipeline ---------------------------
EXTENDS FeedPipeline

\* The upper half of the eight IPv6 addresses is the mapped block.
MCMappedTag == <<1>>
MCDefaults == {MappedBlock}

\* Every way to write one prefix, and pairs of addresses of either family.
MCLines == {<<p>> : p \in AllPrefixes}
MCAddresses == {p \in AllPrefixes : p.family = 4 /\ p.bits = W4}
               \cup {[family |-> 6, addr |-> <<0, 0, 0>>, bits |-> W6]}
V4(addr) == [family |-> 4, addr |-> addr, bits |-> W4]
MCBodies == MCLines \cup {<<p, q>> : p, q \in MCAddresses}
                    \cup {<<>>, <<V4(<<0, 0>>), Malformed>>}
MCProtected == MCLines \cup {<<>>}
MCExceptions == {<<>>, <<V4(<<0, 0>>)>>}
MCEdited == {<<>>, <<V4(<<0, 1>>)>>, <<Malformed>>}
=============================================================================
