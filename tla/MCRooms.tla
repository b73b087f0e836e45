------------------------------ MODULE MCRooms ------------------------------
(* Instances of Rooms: one table to its end, a table of machines only, and *)
(* a game that accepts two or four players.                                *)
EXTENDS Rooms, TLC

CONSTANTS h1, h2, m1, m2, n1, n2

Bound == {<<h1, m1>>}
BoundBoth == {<<h1, m1>>, <<h1, m2>>}

TableRosters == {<<h1, m1, n1>>, <<h1, n1, n2>>, <<h1>>}
MachineRosters == {<<m1, m2>>, <<m1, m2, n1>>}
GapRosters == {<<h1, m1>>, <<h1, h2>>}

Solo == {{}}
WithMachine == {{}, {m1}}
NoInvites == {}
Spending == {-1}
Payment == {-2, 1}   \* a third of the table pays the others

RoomSymmetry == Permutations(RoomIds)
=============================================================================
