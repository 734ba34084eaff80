---------------------------- MODULE RPCChannelMC ----------------------------
(***************************************************************************)
(* Instances of RPCChannel for TLC.                                        *)
(***************************************************************************)
EXTENDS RPCChannel

\* Policies of races: that of most listeners, one for the child and one for the
\* parent, and one that depends on the type of the parent's message, which its
\* first call and its second differ in.
ChildWins == {}
ParentAlways == Int \X Int
ByType == {2} \X Int

None == [s \in Sides |-> 0]
One == [s \in Sides |-> 1]
ParentMore == [s \in Sides |-> IF s = "child" THEN 1 ELSE 2]
Two == [s \in Sides |-> 2]
ChildOne == [s \in Sides |-> IF s = "child" THEN 1 ELSE 0]
ChildTwo == [s \in Sides |-> IF s = "child" THEN 2 ELSE 0]
ParentOne == [s \in Sides |-> IF s = "parent" THEN 1 ELSE 0]
=============================================================================
