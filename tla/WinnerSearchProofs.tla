------------------------- MODULE WinnerSearchProofs -------------------------
(***************************************************************************)
(* resolveWinner answers what JoinsSides says, on boards of every size and *)
(* for every layout and every order in which neighbours are queued.        *)
(*                                                                         *)
(* The stones the search has visited are those of the finished groups,     *)
(* which nothing connects to other stones and none of which joins the      *)
(* sides, and those of the group it is in, which is connected.             *)
(***************************************************************************)
EXTENDS WinnerSearch, FiniteSetTheorems, TLAPS

Sides == {"A", "B", "C"}
SidesOfAll(S) == UNION { SidesOf(c, size) : c \in S }
Entries(s) == { s[i] : i \in DOMAIN s }
Waiting == Entries(queue)
Mine == Stones(symbol)

TypeOK ==
    /\ size \in Nat \ {0}
    /\ layout \in [BoardCells(size) -> {"B", "R", "."}]
    /\ symbol \in {"B", "R"}
    /\ cursor \in Nat \X Nat /\ cursor[2] <= cursor[1]
    /\ cursor[1] <= size /\ (cursor[1] = size => cursor[2] = 0)
    /\ visited \subseteq Mine
    /\ queue \in Seq(Mine)
    /\ touched \subseteq Sides
    /\ result \in {"running", "won", "none"}

\* Nothing connects the stones of D to others of the colour.
Closed(D) == \A c \in D : Neighbors(c, size) \cap Mine \subseteq D

\* D are the groups that are finished, G is the one the search is in: what has
\* left the queue has been looked at, and all its neighbours are visited.
Split(D, G) ==
    /\ visited = D \cup G /\ D \cap G = {}
    /\ Closed(D) /\ ~JoinsSides(D, size)
    /\ IsConnected(G, size) /\ Waiting \subseteq G
    /\ \A c \in G \ Waiting :
         Neighbors(c, size) \cap Mine \subseteq visited /\ SidesOf(c, size) \subseteq touched
    /\ touched \subseteq SidesOfAll(G)

Before(c, d) == c[1] < d[1] \/ (c[1] = d[1] /\ c[2] < d[2])
Scanned == \A c \in Mine : Before(c, cursor) => c \in visited

Searching == touched # Sides /\ Scanned /\ \E D \in SUBSET Mine, G \in SUBSET Mine : Split(D, G)
BlackFirst == symbol = "R" => ~JoinsSides(Stones("B"), size)

IInv == TypeOK /\ BlackFirst /\ (result = "running" => Searching) /\ AnswerIsRight

------------------------------------------------------------------------------
(* The board *)

\* Two cells next to each other, by row and column.
Adjacent(p, q) ==
    \/ p[1] = q[1] + 1 /\ p[2] \in {q[2], q[2] + 1}
    \/ p[1] = q[1] - 1 /\ p[2] \in {q[2], q[2] - 1}
    \/ p[1] = q[1] /\ p[2] \in {q[2] - 1, q[2] + 1}

LEMMA NeighborCells ==
    ASSUME NEW n \in Nat, NEW q \in BoardCells(n), NEW p \in Neighbors(q, n)
    PROVE  p \in BoardCells(n) /\ Adjacent(p, q)
<1>1. q \in (0 .. n - 1) \X (0 .. n - 1) /\ q[2] <= q[1]
  BY DEF BoardCells
<1>2. PICK m : /\ m \in NeighborCoords(CoordsFromRowCol(q, n))
               /\ m.x >= 0 /\ m.y >= 0 /\ m.z >= 0 /\ ValidCoords(m, n)
               /\ p = <<n - 1 - m.x, m.y>>
  BY DEF Neighbors, RowColFromCoords
<1>3. PICK x, y, z : x = n - 1 - q[1] /\ y = q[2] /\ z = q[1] - q[2]
                     /\ CoordsFromRowCol(q, n) = [x |-> x, y |-> y, z |-> z]
  BY DEF CoordsFromRowCol
<1>4. /\ n \in Nat /\ q[1] \in 0 .. n - 1 /\ q[2] \in 0 .. n - 1 /\ q[2] <= q[1]
      /\ x \in Int /\ y \in Int /\ z \in Int
  BY <1>1, <1>3
<1>5. /\ m.x \in Int /\ m.y \in Int
      /\ \/ m.x = x - 1 /\ m.y \in {y, y + 1}
         \/ m.x = x + 1 /\ m.y \in {y, y - 1}
         \/ m.x = x /\ m.y \in {y - 1, y + 1}
  BY <1>2, <1>3, <1>4 DEF NeighborCoords
<1>6. n - 1 - m.x \in 0 .. n - 1 /\ m.y \in 0 .. n - 1 - m.x
  BY <1>2 DEF ValidCoords
<1>7. p[1] = n - 1 - m.x /\ p[2] = m.y
  BY <1>2
<1>8. p \in BoardCells(n)
  <2>1. p[1] \in 0 .. n - 1 /\ p[2] \in 0 .. n - 1 /\ p[2] <= p[1]
    BY <1>4, <1>5, <1>6, <1>7
  <2>2. p = <<p[1], p[2]>>
    BY <1>2, <1>7
  <2>. QED
    BY <2>1, <2>2 DEF BoardCells
<1>9. Adjacent(p, q)
  BY <1>3, <1>4, <1>5, <1>7 DEF Adjacent
<1>. QED
  BY <1>8, <1>9

LEMMA AdjacentCells ==
    ASSUME NEW n \in Nat, NEW q \in BoardCells(n), NEW p \in BoardCells(n), Adjacent(p, q)
    PROVE  p \in Neighbors(q, n)
<1>1. /\ q \in (0 .. n - 1) \X (0 .. n - 1) /\ q[2] <= q[1]
      /\ p \in (0 .. n - 1) \X (0 .. n - 1) /\ p[2] <= p[1]
  BY DEF BoardCells
<1>2. PICK x, y, z, u, v, w :
        /\ x = n - 1 - q[1] /\ y = q[2] /\ z = q[1] - q[2]
        /\ u = n - 1 - p[1] /\ v = p[2] /\ w = p[1] - p[2]
  OBVIOUS
<1>3. /\ CoordsFromRowCol(q, n) = [x |-> x, y |-> y, z |-> z]
      /\ CoordsFromRowCol(p, n) = [x |-> u, y |-> v, z |-> w]
  BY <1>2 DEF CoordsFromRowCol
<1>4. /\ p[1] \in Int /\ p[2] \in Int /\ q[1] \in Int /\ q[2] \in Int
      /\ x \in Int /\ y \in Int /\ z \in Int /\ u \in Int /\ v \in Int /\ w \in Int
      /\ u >= 0 /\ v >= 0 /\ w >= 0 /\ u + v + w = n - 1
  BY <1>1, <1>2
<1>5. \/ u = x - 1 /\ v = y + 1 /\ w = z
      \/ u = x - 1 /\ v = y /\ w = z + 1
      \/ u = x + 1 /\ v = y - 1 /\ w = z
      \/ u = x /\ v = y - 1 /\ w = z + 1
      \/ u = x + 1 /\ v = y /\ w = z - 1
      \/ u = x /\ v = y + 1 /\ w = z - 1
  <2>1. CASE p[1] = q[1] + 1 /\ p[2] \in {q[2], q[2] + 1}
    BY <1>2, <1>4, <2>1
  <2>2. CASE p[1] = q[1] - 1 /\ p[2] \in {q[2], q[2] - 1}
    BY <1>2, <1>4, <2>2
  <2>3. CASE p[1] = q[1] /\ p[2] \in {q[2] - 1, q[2] + 1}
    BY <1>2, <1>4, <2>3
  <2>. QED
    BY <2>1, <2>2, <2>3 DEF Adjacent
<1>6. [x |-> u, y |-> v, z |-> w] \in NeighborCoords(CoordsFromRowCol(q, n))
  BY <1>3, <1>5 DEF NeighborCoords
<1>7. PICK m : m = [x |-> u, y |-> v, z |-> w]
  OBVIOUS
<1>8. m.x = u /\ m.y = v /\ m.z = w
  BY <1>7
<1>9. n - 1 - u = p[1] /\ p[1] \in 0 .. n - 1 /\ v \in 0 .. p[1] /\ p[1] - v = w
  BY <1>1, <1>2
<1>10. ValidCoords(m, n)
  BY <1>8, <1>9 DEF ValidCoords
<1>11. p = RowColFromCoords(m, n)
  BY <1>1, <1>2, <1>8, <1>9 DEF RowColFromCoords
<1>. QED
  BY <1>4, <1>6, <1>7, <1>8, <1>10, <1>11 DEF Neighbors

\* A neighbour's neighbours are neighbours.
LEMMA NeighborsAreMutual ==
    ASSUME NEW n \in Nat, NEW q \in BoardCells(n), NEW p \in Neighbors(q, n)
    PROVE  q \in Neighbors(p, n)
<1>1. p \in BoardCells(n) /\ Adjacent(p, q)
  BY NeighborCells
<1>2. p[1] \in Int /\ p[2] \in Int /\ q[1] \in Int /\ q[2] \in Int
  BY <1>1 DEF BoardCells
<1>3. Adjacent(q, p)
  BY <1>1, <1>2 DEF Adjacent
<1>. QED
  BY <1>1, <1>3, AdjacentCells

LEMMA BoardIsFinite == ASSUME NEW n \in Nat PROVE IsFiniteSet(BoardCells(n))
<1>1. IsFiniteSet(0 .. n - 1)
  BY FS_Interval
<1>2. IsFiniteSet((0 .. n - 1) \X (0 .. n - 1))
  BY <1>1, FS_Product
<1>. QED
  BY <1>2, FS_Subset DEF BoardCells

------------------------------------------------------------------------------
(* Groups *)

LEMMA OneCellIsConnected == ASSUME NEW c PROVE IsConnected({c}, size)
<1>1. (SUBSET {c}) \ {{}, {c}} = {}
  OBVIOUS
<1>. QED
  BY <1>1 DEF IsConnected

\* A group stays connected when neighbours of one of its cells join it.
LEMMA GroupGrows ==
    ASSUME size \in Nat, NEW G \in SUBSET BoardCells(size), IsConnected(G, size),
           NEW c \in G, NEW F, F \subseteq Neighbors(c, size)
    PROVE  IsConnected(G \cup F, size)
<1>. SUFFICES ASSUME NEW T, T \subseteq G \cup F, T # {}, T # G \cup F
              PROVE  \E d \in T : Neighbors(d, size) \cap ((G \cup F) \ T) # {}
  BY DEF IsConnected
<1>1. CASE T \cap G \notin {{}, G}
  <2>1. PICK d \in T \cap G : Neighbors(d, size) \cap (G \ (T \cap G)) # {}
    BY <1>1 DEF IsConnected
  <2>. QED
    BY <2>1
<1>2. CASE T \cap G = G
  <2>1. PICK f \in F : f \notin T
    BY <1>2
  <2>2. c \in T /\ f \in Neighbors(c, size) \cap ((G \cup F) \ T)
    BY <1>2, <2>1
  <2>. QED
    BY <2>2
<1>3. CASE T \cap G = {}
  <2>1. PICK f \in T : f \in F
    BY <1>3
  <2>2. c \in Neighbors(f, size)
    BY <2>1, NeighborsAreMutual
  <2>3. c \in (G \cup F) \ T
    BY <1>3
  <2>. QED
    BY <2>2, <2>3
<1>. QED
  BY <1>1, <1>2, <1>3

\* Groups that nothing connects and none of which joins the sides do not join
\* them together.
LEMMA ApartTheyLose ==
    ASSUME NEW D \in SUBSET Mine, NEW G \in SUBSET Mine, D \cap G = {}, Closed(D),
           ~JoinsSides(D, size), touched # Sides, touched \subseteq Sides,
           SidesOfAll(G) \subseteq touched
    PROVE  ~JoinsSides(D \cup G, size)
<1>. SUFFICES ASSUME NEW K \in (SUBSET (D \cup G)) \ {{}}, IsConnected(K, size),
                     Sides = SidesOfAll(K)
              PROVE  FALSE
  BY DEF JoinsSides, Sides, SidesOfAll
<1>1. CASE K \subseteq G
  <2>1. SidesOfAll(K) \subseteq SidesOfAll(G)
    BY <1>1 DEF SidesOfAll
  <2>. QED
    BY <2>1
<1>2. CASE K \subseteq D
  BY <1>2 DEF JoinsSides, Sides, SidesOfAll
<1>3. CASE K \cap D \notin {{}, K}
  <2>1. PICK c \in K \cap D : Neighbors(c, size) \cap (K \ (K \cap D)) # {}
    BY <1>3 DEF IsConnected
  <2>2. PICK e \in K \ D : e \in Neighbors(c, size)
    BY <2>1
  <2>3. e \in Mine
    BY <2>2
  <2>. QED
    BY <2>1, <2>2, <2>3 DEF Closed
<1>. QED
  BY <1>1, <1>2, <1>3

\* When the queue is empty what has been visited is finished.
LEMMA Finished ==
    ASSUME TypeOK, Searching, queue = <<>>
    PROVE  Closed(visited) /\ ~JoinsSides(visited, size)
<1>1. PICK D \in SUBSET Mine, G \in SUBSET Mine : Split(D, G)
  BY DEF Searching
<1>2. Waiting = {}
  BY DEF Waiting, Entries
<1>3. \A c \in G : Neighbors(c, size) \cap Mine \subseteq visited /\ SidesOf(c, size) \subseteq touched
  BY <1>1, <1>2 DEF Split
<1>4. SidesOfAll(G) \subseteq touched
  BY <1>3 DEF SidesOfAll
<1>5. touched # Sides /\ touched \subseteq Sides
  BY DEF Searching, TypeOK
<1>6. ~JoinsSides(D \cup G, size)
  BY <1>1, <1>4, <1>5, ApartTheyLose DEF Split
<1>7. Closed(visited)
  BY <1>1, <1>3 DEF Closed, Split
<1>. QED
  BY <1>1, <1>6, <1>7 DEF Split

------------------------------------------------------------------------------
(* Steps *)

\* The cells before the next one are those before this one, and this one.
LEMMA OneCellFurther ==
    ASSUME TypeOK, NEW c \in Mine, Before(c, NextCell(cursor))
    PROVE  Before(c, cursor) \/ c = cursor
<1>1. c[1] \in Nat /\ c[2] \in Nat /\ c[2] <= c[1] /\ c = <<c[1], c[2]>>
  BY DEF Mine, Stones, BoardCells
<1>2. cursor[1] \in Nat /\ cursor[2] \in Nat /\ cursor = <<cursor[1], cursor[2]>>
  BY DEF TypeOK
<1>. QED
  BY <1>1, <1>2 DEF Before, NextCell

\* What the scan passes is visited or not a stone of the colour.
LEMMA SkipCellKeeps ==
    ASSUME IInv, SkipCell PROVE IInv'
<1>1. /\ UNCHANGED <<size, layout, symbol, queue, visited, touched, result>>
      /\ result = "running" /\ cursor[1] < size
      /\ layout[cursor] # symbol \/ cursor \in visited
      /\ cursor' = NextCell(cursor)
  BY DEF SkipCell
<1>2. TypeOK'
  BY <1>1 DEF IInv, TypeOK, NextCell, Mine, Stones
<1>3. ASSUME NEW c \in Mine, Before(c, NextCell(cursor)) PROVE c \in visited
  <2>1. Before(c, cursor) \/ c = cursor
    BY <1>3, OneCellFurther DEF IInv
  <2>2. layout[c] = symbol
    BY DEF Mine, Stones
  <2>. QED
    BY <1>1, <2>1, <2>2 DEF IInv, Searching, Scanned
<1>4. Scanned'
  BY <1>1, <1>3 DEF Scanned, Mine, Stones, Before
<1>5. ASSUME NEW D, NEW G, Split(D, G) PROVE Split(D, G)'
  BY <1>1, <1>5 DEF Split, Closed, Waiting, Entries, SidesOfAll, Mine, Stones
<1>6. Mine' = Mine /\ (BlackFirst' <=> BlackFirst) /\ result' = "running"
  BY <1>1 DEF Mine, Stones, BlackFirst
<1>7. Searching'
  BY <1>1, <1>4, <1>5, <1>6 DEF IInv, Searching
<1>. QED
  BY <1>2, <1>6, <1>7 DEF IInv, AnswerIsRight

\* A new group begins: what has been visited is finished.
LEMMA StartGroupKeeps ==
    ASSUME IInv, StartGroup PROVE IInv'
<1>1. /\ UNCHANGED <<size, layout, symbol, result>> /\ cursor' = NextCell(cursor)
      /\ result = "running" /\ queue = <<>> /\ cursor[1] < size
      /\ layout[cursor] = symbol /\ cursor \notin visited
      /\ queue' = <<cursor>> /\ visited' = visited \cup {cursor} /\ touched' = {}
  BY DEF StartGroup
<1>2. cursor \in Mine
  <2>1. /\ cursor \in Nat \X Nat /\ cursor[2] <= cursor[1] /\ cursor[1] < size /\ size \in Nat
    BY <1>1 DEF IInv, TypeOK
  <2>2. cursor[1] \in 0 .. size - 1 /\ cursor[2] \in 0 .. size - 1
    BY <2>1
  <2>. QED
    BY <1>1, <2>1, <2>2 DEF Mine, Stones, BoardCells
<1>3. Mine' = Mine /\ (BlackFirst' <=> BlackFirst) /\ result' = "running"
  BY <1>1 DEF Mine, Stones, BlackFirst
<1>4. TypeOK'
  <2>1. queue' \in Seq(Mine)
    BY <1>1, <1>2
  <2>2. cursor' \in Nat \X Nat /\ cursor'[2] <= cursor'[1]
        /\ cursor'[1] <= size /\ (cursor'[1] = size => cursor'[2] = 0)
    BY <1>1 DEF IInv, TypeOK, NextCell
  <2>. QED
    BY <1>1, <1>2, <1>3, <2>1, <2>2 DEF IInv, TypeOK
<1>5. PICK D, G : D = visited /\ G = {cursor}
  OBVIOUS
<1>6. D \in SUBSET Mine /\ G \in SUBSET Mine
  BY <1>2, <1>5 DEF IInv, TypeOK
<1>7. Closed(D) /\ ~JoinsSides(D, size)
  BY <1>1, <1>5, Finished DEF IInv
<1>8. Waiting' = G
  <2>1. DOMAIN queue' = {1} /\ queue'[1] = cursor
    BY <1>1
  <2>. QED
    BY <1>5, <2>1 DEF Waiting, Entries
<1>9. IsConnected(G, size)
  BY <1>5, OneCellIsConnected
<1>10. Closed(D)' <=> Closed(D)
  BY <1>1, <1>3 DEF Closed
<1>11. Split(D, G)'
  BY <1>1, <1>3, <1>5, <1>6, <1>7, <1>8, <1>9, <1>10 DEF Split
<1>12. Scanned'
  <2>1. ASSUME NEW c \in Mine, Before(c, NextCell(cursor)) PROVE c \in visited'
    <3>1. Before(c, cursor) \/ c = cursor
      BY <2>1, OneCellFurther DEF IInv
    <3>. QED
      BY <1>1, <3>1 DEF IInv, Searching, Scanned
  <2>. QED
    BY <1>1, <1>3, <2>1 DEF Scanned, Before
<1>13. Searching'
  BY <1>1, <1>3, <1>6, <1>11, <1>12 DEF Searching, Sides
<1>. QED
  BY <1>3, <1>4, <1>13 DEF IInv, AnswerIsRight

\* Every neighbour is queued, in whatever order.
LEMMA AllAreQueued ==
    ASSUME NEW S, IsFiniteSet(S), NEW f \in Arrangements(S)
    PROVE  f \in Seq(S) /\ S = Entries(f)
<1>1. Cardinality(S) \in Nat
  BY FS_CardinalityType
<1>2. f \in [1 .. Cardinality(S) -> S] /\ \A i, j \in DOMAIN f : f[i] = f[j] => i = j
  BY DEF Arrangements
<1>3. f \in Injection(1 .. Cardinality(S), S)
  BY <1>2 DEF Injection, IsInjective
<1>4. Cardinality(1 .. Cardinality(S)) = Cardinality(S)
  BY <1>1, FS_Interval
<1>5. f \in Surjection(1 .. Cardinality(S), S)
  BY <1>3, <1>4, FS_Injection
<1>6. S \subseteq Entries(f)
  BY <1>2, <1>5 DEF Surjection, Entries
<1>. QED
  BY <1>1, <1>2, <1>6 DEF Entries

\* What the two ends of a concatenation hold.
LEMMA JoinedRange ==
    ASSUME NEW S, NEW s \in Seq(S), NEW t \in Seq(S)
    PROVE  Entries(s \o t) = Entries(s) \cup Entries(t)
<1>1. /\ Len(s) \in Nat /\ Len(t) \in Nat
      /\ DOMAIN s = 1 .. Len(s) /\ DOMAIN t = 1 .. Len(t)
      /\ DOMAIN (s \o t) = 1 .. Len(s) + Len(t)
  OBVIOUS
<1>2. \A i \in DOMAIN s : i \in DOMAIN (s \o t) /\ (s \o t)[i] = s[i]
  BY <1>1
<1>3. \A i \in DOMAIN t : Len(s) + i \in DOMAIN (s \o t) /\ (s \o t)[Len(s) + i] = t[i]
  BY <1>1
<1>4. ASSUME NEW i \in DOMAIN (s \o t), i \notin DOMAIN s
      PROVE  i - Len(s) \in DOMAIN t /\ (s \o t)[i] = t[i - Len(s)]
  BY <1>1, <1>4
<1>5. ASSUME NEW i \in DOMAIN (s \o t)
      PROVE  (s \o t)[i] \in Entries(s) \cup Entries(t)
  <2>1. CASE i \in DOMAIN s
    BY <1>2, <2>1 DEF Entries
  <2>2. CASE i \notin DOMAIN s
    BY <1>4, <2>2 DEF Entries
  <2>. QED
    BY <2>1, <2>2
<1>6. Entries(s) \subseteq Entries(s \o t)
  BY <1>2 DEF Entries
<1>7. Entries(t) \subseteq Entries(s \o t)
  <2>1. ASSUME NEW j \in DOMAIN t
        PROVE  t[j] \in Entries(s \o t)
    <3>1. Len(s) + j \in DOMAIN (s \o t) /\ t[j] = (s \o t)[Len(s) + j]
      BY <1>3
    <3>. QED
      BY <3>1 DEF Entries
  <2>. QED
    BY <2>1 DEF Entries
<1>. QED
  BY <1>5, <1>6, <1>7 DEF Entries

\* Where a colour's search begins nothing has been visited.
AtStart == queue = <<>> /\ visited = {} /\ touched = {} /\ cursor = <<0, 0>>

LEMMA StartsEmpty == AtStart => Searching
<1>. SUFFICES ASSUME AtStart PROVE Searching
  OBVIOUS
<1>1. Waiting = {}
  BY DEF Waiting, Entries, AtStart
<1>2. Split({}, {})
  BY <1>1 DEF Split, Closed, IsConnected, JoinsSides, AtStart, SidesOfAll
<1>3. Scanned
  <2>1. ASSUME NEW c \in Mine PROVE ~Before(c, cursor)
    BY DEF Mine, Stones, BoardCells, Before, AtStart
  <2>. QED
    BY <2>1 DEF Scanned
<1>. QED
  BY <1>2, <1>3 DEF Searching, Sides, AtStart

\* A cell leaves the queue: the group wins, or grows by its fresh neighbours.
LEMMA ExpandKeeps ==
    ASSUME IInv, Expand PROVE IInv'
<1>1. /\ UNCHANGED <<size, layout, symbol, cursor>>
      /\ result = "running" /\ queue # <<>>
  BY DEF Expand
<1>2. PICK rc, sides : /\ rc = Head(queue) /\ sides = touched \cup SidesOf(rc, size)
                       /\ touched' = sides
  BY DEF Expand
<1>3. Mine' = Mine /\ (BlackFirst' <=> BlackFirst)
  BY <1>1 DEF Mine, Stones, BlackFirst
<1>4. PICK D \in SUBSET Mine, G \in SUBSET Mine : Split(D, G)
  BY <1>1 DEF IInv, Searching
<1>5. TypeOK /\ Scanned /\ BlackFirst /\ touched # Sides
  BY <1>1 DEF IInv, Searching
<1>6. queue \in Seq(Mine) /\ Len(queue) \in Nat \ {0}
  BY <1>1, <1>5 DEF TypeOK
<1>7. rc \in Waiting /\ Tail(queue) \in Seq(Mine)
  BY <1>2, <1>6 DEF Waiting, Entries
<1>8. rc \in G /\ rc \in Mine
  BY <1>4, <1>7 DEF Split
<1>9. Waiting \subseteq {rc} \cup Entries(Tail(queue))
  <2>1. ASSUME NEW i \in DOMAIN queue, i # 1
        PROVE  i - 1 \in DOMAIN Tail(queue) /\ queue[i] = Tail(queue)[i - 1]
    BY <1>6, <2>1
  <2>2. queue[1] = rc
    BY <1>2, <1>6
  <2>. QED
    BY <2>1, <2>2 DEF Waiting, Entries
<1>10. Entries(Tail(queue)) \subseteq Waiting
  <2>1. ASSUME NEW i \in DOMAIN Tail(queue)
        PROVE  i + 1 \in DOMAIN queue /\ Tail(queue)[i] = queue[i + 1]
    BY <1>6, <2>1
  <2>. QED
    BY <2>1 DEF Waiting, Entries
<1>11. SidesOf(rc, size) \subseteq Sides
  BY DEF SidesOf, Sides
<1>12. sides \subseteq Sides /\ sides \subseteq SidesOfAll(G)
  BY <1>2, <1>4, <1>5, <1>8, <1>11 DEF SidesOfAll, Split, TypeOK
<1>13. CASE sides = Sides
  <2>1. result' = "won" /\ queue' = Tail(queue) /\ visited' = visited
    BY <1>2, <1>13 DEF Expand, Sides
  <2>2. TypeOK'
    BY <1>1, <1>2, <1>3, <1>5, <1>7, <1>12, <2>1 DEF TypeOK
  <2>3. IsConnected(G, size)
    BY <1>4 DEF Split
  <2>4. SidesOfAll(G) = Sides
    BY <1>12, <1>13 DEF SidesOfAll, SidesOf, Sides
  <2>5. JoinsSides(Mine, size)
    BY <1>8, <2>3, <2>4 DEF JoinsSides, SidesOfAll, Sides
  <2>6. AnswerIsRight'
    <3>1. Answer' = symbol /\ symbol \in {"B", "R"} /\ Stones(symbol)' = Mine
      BY <1>1, <1>5, <2>1 DEF Answer, TypeOK, Mine, Stones
    <3>2. Stones(Answer)' = Mine /\ Answer' # "none" /\ size' = size
      BY <1>1, <2>1, <3>1 DEF Answer, Mine, Stones
    <3>. QED
      BY <2>5, <3>2 DEF AnswerIsRight
  <2>. QED
    BY <1>3, <1>5, <2>1, <2>2, <2>6 DEF IInv
<1>14. CASE sides # Sides
  <2>1. PICK new \in Arrangements(Fresh(rc)) : queue' = Tail(queue) \o new
    BY <1>2, <1>14 DEF Expand, Sides
  <2>2. visited' = visited \cup Fresh(rc) /\ result' = "running"
    BY <1>1, <1>2, <1>14 DEF Expand, Sides
  <2>3. size \in Nat /\ rc \in BoardCells(size) /\ Mine \subseteq BoardCells(size)
    BY <1>5, <1>8 DEF TypeOK, Mine, Stones
  <2>4. Fresh(rc) \subseteq Mine /\ Fresh(rc) \cap visited = {}
    BY <2>3, NeighborCells DEF Fresh, Mine, Stones
  <2>5. IsFiniteSet(Fresh(rc))
    BY <2>3, <2>4, BoardIsFinite, FS_Subset
  <2>6. new \in Seq(Fresh(rc)) /\ Fresh(rc) = Entries(new)
    BY <2>5, AllAreQueued
  <2>7. queue' \in Seq(Mine)
    BY <1>7, <2>1, <2>4, <2>6
  <2>8. TypeOK'
    BY <1>1, <1>2, <1>3, <1>5, <1>12, <2>2, <2>4, <2>7 DEF TypeOK
  <2>9. PICK H : H = G \cup Fresh(rc)
    OBVIOUS
  <2>10. H \in SUBSET Mine
    BY <2>4, <2>9
  <2>11. IsConnected(H, size)
    <3>1. Fresh(rc) \subseteq Neighbors(rc, size) /\ IsConnected(G, size)
      BY <1>4 DEF Fresh, Split
    <3>2. G \in SUBSET BoardCells(size)
      BY <2>3
    <3>. QED
      BY <1>8, <2>3, <2>9, <3>1, <3>2, GroupGrows
  <2>12. Waiting' = Entries(Tail(queue)) \cup Fresh(rc)
    <3>1. new \in Seq(Mine)
      BY <2>4, <2>6
    <3>2. Waiting' = Entries(Tail(queue) \o new)
      BY <2>1 DEF Waiting, Entries
    <3>3. Entries(Tail(queue) \o new) = Entries(Tail(queue)) \cup Entries(new)
      <4>1. PICK t, S : t = Tail(queue) /\ S = Mine
        OBVIOUS
      <4>2. t \in Seq(S) /\ new \in Seq(S)
        BY <1>7, <3>1, <4>1
      <4>3. Entries(t \o new) = Entries(t) \cup Entries(new)
        BY ONLY <4>2, JoinedRange
      <4>. QED
        BY <4>1, <4>3
    <3>. QED
      BY <2>6, <3>2, <3>3
  <2>13. Waiting' \subseteq H
    BY <1>4, <1>10, <2>9, <2>12 DEF Split
  <2>14. ASSUME NEW c \in H \ Waiting'
         PROVE  Neighbors(c, size) \cap Mine \subseteq visited' /\ SidesOf(c, size) \subseteq touched'
    <3>1. c \in G /\ (c = rc \/ c \notin Waiting)
      BY <1>9, <2>9, <2>12
    <3>2. CASE c = rc
      BY <1>2, <2>2, <3>2 DEF Fresh, Mine, Stones
    <3>3. CASE c \notin Waiting
      BY <1>2, <1>4, <2>2, <3>1, <3>3 DEF Split
    <3>. QED
      BY <3>1, <3>2, <3>3
  <2>15. visited' = D \cup H /\ D \cap H = {}
    BY <1>4, <2>2, <2>4, <2>9 DEF Split
  <2>16. Closed(D)' /\ ~JoinsSides(D, size)
    BY <1>1, <1>3, <1>4 DEF Split, Closed
  <2>17. touched' \subseteq SidesOfAll(H)
    BY <1>2, <1>12, <2>9 DEF SidesOfAll
  <2>18. SidesOfAll(H)' = SidesOfAll(H)
    BY <1>1 DEF SidesOfAll
  <2>19. Split(D, H)'
    BY <1>1, <1>3, <2>11, <2>13, <2>14, <2>15, <2>16, <2>17, <2>18 DEF Split
  <2>20. Scanned'
    BY <1>1, <1>3, <1>5, <2>2 DEF Scanned
  <2>21. Searching'
    BY <1>2, <1>3, <1>14, <2>10, <2>19, <2>20 DEF Searching, Sides
  <2>. QED
    BY <1>3, <1>5, <2>2, <2>8, <2>21 DEF IInv, AnswerIsRight
<1>. QED
  BY <1>13, <1>14

\* The other colour is searched afresh once this one is known not to win.
LEMMA NextColourKeeps ==
    ASSUME IInv, NextColour PROVE IInv'
<1>1. /\ UNCHANGED <<size, layout, queue>>
      /\ result = "running" /\ queue = <<>> /\ cursor[1] = size
  BY DEF NextColour
<1>2. TypeOK /\ Scanned /\ Searching
  BY <1>1 DEF IInv, Searching
<1>3. visited = Mine
  <2>1. ASSUME NEW c \in Mine PROVE Before(c, cursor)
    <3>1. c[1] \in 0 .. size - 1 /\ size \in Nat
      BY <1>2 DEF Mine, Stones, BoardCells, TypeOK
    <3>. QED
      BY <1>1, <3>1 DEF Before
  <2>. QED
    BY <1>2, <2>1 DEF Scanned, TypeOK
<1>4. ~JoinsSides(Mine, size)
  BY <1>1, <1>2, <1>3, Finished
<1>5. CASE symbol = "B"
  <2>1. /\ symbol' = "R" /\ cursor' = <<0, 0>> /\ visited' = {} /\ touched' = {}
        /\ result' = "running"
    BY <1>1, <1>5 DEF NextColour
  <2>2. TypeOK'
    BY <1>1, <1>2, <2>1 DEF TypeOK
  <2>3. Stones("B")' = Mine
    BY <1>1, <1>5 DEF Mine, Stones
  <2>4. BlackFirst'
    BY <1>1, <1>4, <2>3 DEF BlackFirst
  <2>5. Searching'
    <3>1. AtStart'
      BY <1>1, <2>1 DEF AtStart
    <3>. QED
      BY <3>1, StartsEmpty, PTL
  <2>. QED
    BY <2>1, <2>2, <2>4, <2>5 DEF IInv, AnswerIsRight
<1>6. CASE symbol # "B"
  <2>1. symbol = "R" /\ UNCHANGED <<symbol, cursor, visited, touched>> /\ result' = "none"
    BY <1>2, <1>6 DEF NextColour, TypeOK
  <2>2. TypeOK' /\ Mine' = Mine
    BY <1>1, <1>2, <2>1 DEF TypeOK, Mine, Stones
  <2>3. BlackFirst' /\ BlackFirst
    BY <1>1, <2>1 DEF IInv, BlackFirst, Stones
  <2>4. ~JoinsSides(Stones("B"), size) /\ ~JoinsSides(Stones("R"), size)
    BY <1>4, <2>1, <2>3 DEF BlackFirst, Mine
  <2>5. AnswerIsRight'
    <3>1. Answer' = "none" /\ size' = size
      BY <1>1, <2>1 DEF Answer
    <3>2. Stones("B")' = Stones("B") /\ Stones("R")' = Stones("R")
      BY <1>1 DEF Stones
    <3>. QED
      BY <2>4, <3>1, <3>2 DEF AnswerIsRight
  <2>. QED
    BY <2>1, <2>2, <2>3, <2>5 DEF IInv
<1>. QED
  BY <1>5, <1>6

------------------------------------------------------------------------------
LEMMA InitIsFine == Init => IInv
<1>. SUFFICES ASSUME Init PROVE IInv
  OBVIOUS
<1>1. size \in Nat \ {0}
  BY SizesAssumption DEF Init
<1>2. TypeOK
  BY <1>1 DEF Init, TypeOK
<1>3. Searching
  BY StartsEmpty DEF Init, AtStart
<1>. QED
  BY <1>1, <1>2, <1>3 DEF Init, IInv, BlackFirst, AnswerIsRight

LEMMA StepKeeps == IInv /\ [Next]_vars => IInv'
<1>. SUFFICES ASSUME IInv, [Next]_vars PROVE IInv'
  OBVIOUS
<1>1. CASE UNCHANGED vars
  <2>1. /\ UNCHANGED <<size, layout, symbol, queue, visited, touched, result>>
        /\ cursor' = cursor
    BY <1>1 DEF vars
  <2>. QED
    BY <2>1 DEF IInv, TypeOK, BlackFirst, Searching, Scanned, Split, Closed, Waiting, Entries,
                SidesOfAll, Mine, Stones, AnswerIsRight, Answer, Before
<1>. QED
  BY <1>1, SkipCellKeeps, StartGroupKeeps, ExpandKeeps, NextColourKeeps DEF Next

(***************************************************************************)
(* The answer of resolveWinner is right on a board of any size: it names a *)
(* colour when that colour's stones join the three sides and none when no  *)
(* colour's do, in whatever order checkWinner queues the neighbours.       *)
(***************************************************************************)
THEOREM AnswersAreRight == Spec => []AnswerIsRight
<1>1. IInv => AnswerIsRight
  BY DEF IInv
<1>. QED
  BY <1>1, InitIsFine, StepKeeps, PTL DEF Spec
=============================================================================
