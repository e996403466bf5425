-------------------------- MODULE MCMessageBrowser --------------------------
(***************************************************************************)
(* Small instances of MessageBrowser for TLC: topic "a" has one partition,  *)
(* topic "b" has two, and a page shows one message of at most two read.     *)
(***************************************************************************)
EXTENDS MessageBrowser

MCTopics == {"a", "b"}
MCParts == [t \in Topics |-> IF t = "a" THEN {0} ELSE {0, 1}]
Msg(t, p, o, s) == [topic |-> t, part |-> p, off |-> o, ts |-> s]

\* Two messages in "a" and one in each partition of "b".
Mixed == {Msg("a", 0, 0, 0), Msg("a", 0, 1, 1),
          Msg("b", 1, 0, 0), Msg("b", 0, 0, 1)}
\* Partition 0 stopped long ago, partition 1 is busy.
Idle0 == {Msg("b", 0, 0, 0), Msg("b", 1, 0, 1), Msg("b", 1, 1, 2)}

OneFilter == {[topic |-> "a", part |-> 0, from |-> 1]}
NoFilters == {}
=============================================================================
