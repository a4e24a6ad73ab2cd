------------------------------ MODULE MCNode ------------------------------
(***************************************************************************)
(* Instances of Node with 3-bit ids: a bootstrap node and two others.      *)
(***************************************************************************)
EXTENDS Node

MCNodes == {{}, {1}, {1, 2}}
MCBoot == {1, 2}
MCKey == {1}
MCHolder == {{1}}

\* Both join, in any order.
Joining == [seeker |-> {}, crashes |-> {}, cut |-> {}]

\* In the others the second node never hears the bootstrap node, so it is asked
\* but runs no lookup of its own.
Silent == {<<MCBoot, {1}>>}

\* A user looks for the value while joining.
Seeking == [seeker |-> {{}}, crashes |-> {}, cut |-> Silent]

\* A node crashes and joins again.
Rejoining == [seeker |-> {}, crashes |-> {{}}, cut |-> Silent]

\* The bootstrap node crashes and is started again.
Rebooting == [seeker |-> {}, crashes |-> {MCBoot}, cut |-> Silent]

MCScenario == {Joining, Seeking, Rejoining, Rebooting}

\* The ids are such that LookupsDiscover may be expected.
ASSUME MCRoomForAll == RoomForAll
============================================================================
