-------------------------------- MODULE Board --------------------------------
(***************************************************************************)
(* The triangular board of the Game of Y as gameservice's                  *)
(* OnlineSessionService sees it: a layout of "rows" whose row r has r + 1  *)
(* cells, the barycentric coordinates of a cell, and what it means for the *)
(* stones of one colour to join the three sides.                           *)
(***************************************************************************)
EXTENDS Integers, FiniteSets

\* The cells of a board of the given size, as <<row, col>> pairs.
BoardCells(size) == { rc \in (0 .. size - 1) \X (0 .. size - 1) : rc[2] <= rc[1] }

CoordsFromRowCol(rc, size) ==
    [x |-> size - 1 - rc[1], y |-> rc[2], z |-> rc[1] - rc[2]]

RowColFromCoords(coords, size) == <<size - 1 - coords.x, coords.y>>

\* The conversion answers null for coordinates that lie on no cell.
ValidCoords(coords, size) ==
    LET row == size - 1 - coords.x
    IN  /\ row \in 0 .. size - 1
        /\ coords.y \in 0 .. row
        /\ row - coords.y = coords.z

\* Defect: the two neighbours along a row are forgotten.
NeighborCoords_NoRow(c) ==
    { [x |-> c.x - 1, y |-> c.y + 1, z |-> c.z],
      [x |-> c.x - 1, y |-> c.y, z |-> c.z + 1],
      [x |-> c.x + 1, y |-> c.y - 1, z |-> c.z],
      [x |-> c.x + 1, y |-> c.y, z |-> c.z - 1] }

NeighborCoords(c) ==
    { [x |-> c.x - 1, y |-> c.y + 1, z |-> c.z],
      [x |-> c.x - 1, y |-> c.y, z |-> c.z + 1],
      [x |-> c.x + 1, y |-> c.y - 1, z |-> c.z],
      [x |-> c.x, y |-> c.y - 1, z |-> c.z + 1],
      [x |-> c.x + 1, y |-> c.y, z |-> c.z - 1],
      [x |-> c.x, y |-> c.y + 1, z |-> c.z - 1] }

\* The cells a search reaches in one step: off-board candidates are dropped.
Neighbors(rc, size) ==
    { RowColFromCoords(n, size) :
        n \in { m \in NeighborCoords(CoordsFromRowCol(rc, size)) :
                  /\ m.x >= 0 /\ m.y >= 0 /\ m.z >= 0
                  /\ m.x + m.y + m.z = size - 1
                  /\ ValidCoords(m, size) } }

SidesOf(rc, size) ==
    LET c == CoordsFromRowCol(rc, size)
    IN  { side \in {"A", "B", "C"} :
            \/ side = "A" /\ c.x = 0
            \/ side = "B" /\ c.y = 0
            \/ side = "C" /\ c.z = 0 }

(***************************************************************************)
(* The reference meaning of a win, independent of any search order: some   *)
(* of the stones form one connected group that touches all three sides.    *)
(***************************************************************************)
IsConnected(S, size) ==
    \A T \in (SUBSET S) \ {{}, S} : \E c \in T : Neighbors(c, size) \cap (S \ T) # {}

JoinsSides(S, size) ==
    \E G \in (SUBSET S) \ {{}} :
        /\ {"A", "B", "C"} = UNION { SidesOf(c, size) : c \in G }
        /\ IsConnected(G, size)

\* Every set of cells whose stones win, the form OnlineSession is given it in.
ConnectingSets(size) == { S \in SUBSET BoardCells(size) : JoinsSides(S, size) }
==============================================================================
