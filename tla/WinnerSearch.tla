----------------------------- MODULE WinnerSearch -----------------------------
(***************************************************************************)
(* checkWinner of OnlineSessionService as the loop it is: start cells are  *)
(* scanned in row order, every unvisited stone of the colour starts a      *)
(* breadth-first search with a shared visited set, and the search returns  *)
(* true as soon as the group has touched the three sides.                  *)
(***************************************************************************)
EXTENDS Board, Sequences

CONSTANT Sizes    \* board sizes to search

ASSUME SizesAssumption == Sizes \subseteq Nat \ {0}

VARIABLES size, layout,
          symbol,     \* the colour checkWinner was called for
          cursor,     \* <<row, col>> of the outer loops
          queue, visited, touched,
          result      \* "running", "won" or "none"

vars == <<size, layout, symbol, cursor, queue, visited, touched, result>>

Stones(sym) == { c \in BoardCells(size) : layout[c] = sym }

Init ==
    /\ size \in Sizes
    /\ layout \in [BoardCells(size) -> {"B", "R", "."}]
    /\ symbol = "B"
    /\ cursor = <<0, 0>>
    /\ queue = <<>> /\ visited = {} /\ touched = {}
    /\ result = "running"

NextCell(rc) == IF rc[2] < rc[1] THEN <<rc[1], rc[2] + 1>> ELSE <<rc[1] + 1, 0>>

\* The outer loops pass a cell that holds no unvisited stone of the colour.
SkipCell ==
    /\ result = "running" /\ queue = <<>> /\ cursor[1] < size
    /\ layout[cursor] # symbol \/ cursor \in visited
    /\ cursor' = NextCell(cursor)
    /\ UNCHANGED <<size, layout, symbol, queue, visited, touched, result>>

\* Defect: the flags of the previous group survive.
StartGroup_FlagsSurvive ==
    /\ result = "running" /\ queue = <<>> /\ cursor[1] < size
    /\ layout[cursor] = symbol /\ cursor \notin visited
    /\ queue' = <<cursor>>
    /\ visited' = visited \cup {cursor}
    /\ cursor' = NextCell(cursor)
    /\ UNCHANGED <<size, layout, symbol, touched, result>>

\* A new group: the three flags restart, the cell is queued and visited.  The
\* outer loops go on behind it when the queue is empty again.
StartGroup ==
    /\ result = "running" /\ queue = <<>> /\ cursor[1] < size
    /\ layout[cursor] = symbol /\ cursor \notin visited
    /\ queue' = <<cursor>>
    /\ visited' = visited \cup {cursor}
    /\ touched' = {}
    /\ cursor' = NextCell(cursor)
    /\ UNCHANGED <<size, layout, symbol, result>>

\* Defect: cells that have been visited enter the queue again.
Fresh_Revisits(rc) == { n \in Neighbors(rc, size) : layout[n] = symbol }

\* A cell leaves the queue: its sides are noted, and unless that wins, its
\* unvisited neighbours of the colour enter the queue.
Fresh(rc) == { n \in Neighbors(rc, size) : n \notin visited /\ layout[n] = symbol }

Arrangements(S) ==
    { f \in [1 .. Cardinality(S) -> S] : \A i, j \in DOMAIN f : f[i] = f[j] => i = j }

Expand ==
    /\ result = "running" /\ queue # <<>>
    /\ LET rc == Head(queue)
           sides == touched \cup SidesOf(rc, size)
       IN  /\ touched' = sides
           /\ IF sides = {"A", "B", "C"}
              THEN /\ result' = "won"
                   /\ queue' = Tail(queue)
                   /\ UNCHANGED visited
              ELSE /\ \E new \in Arrangements(Fresh(rc)) : queue' = Tail(queue) \o new
                   /\ visited' = visited \cup Fresh(rc)
                   /\ UNCHANGED result
    /\ UNCHANGED <<size, layout, symbol, cursor>>

\* resolveWinner asks for "B" first and for "R" only when "B" has not won.
NextColour ==
    /\ result = "running" /\ queue = <<>> /\ cursor[1] = size
    /\ IF symbol = "B"
       THEN /\ symbol' = "R" /\ cursor' = <<0, 0>> /\ visited' = {} /\ touched' = {}
            /\ UNCHANGED result
       ELSE /\ result' = "none"
            /\ UNCHANGED <<symbol, cursor, visited, touched>>
    /\ UNCHANGED <<size, layout, queue>>

Next == SkipCell \/ StartGroup \/ Expand \/ NextColour

Spec == Init /\ [][Next]_vars /\ WF_vars(Next)

------------------------------------------------------------------------------
\* What resolveWinner answers when the search has stopped.
Answer == IF result = "won" THEN symbol ELSE "none"

(***************************************************************************)
(* The answer of resolveWinner is right: when the search stops, it names   *)
(* a colour exactly when that colour's stones join the three sides, and    *)
(* "none" exactly when no colour's do.  A cell queued twice, a visited set *)
(* that leaks between groups or flags that survive one would break it.     *)
(***************************************************************************)
AnswerIsRight ==
    result # "running" =>
        /\ Answer # "none" => JoinsSides(Stones(Answer), size)
        /\ Answer = "none" => \A s \in {"B", "R"} : ~JoinsSides(Stones(s), size)

(***************************************************************************)
(* No draws: a filled board has a winner and only one, so asking "B" first *)
(* never hides a win of "R".  The turn timer relies on it: a session whose *)
(* board has no free cell is already terminal.                             *)
(***************************************************************************)
FilledBoardHasOneWinner ==
    (\A c \in BoardCells(size) : layout[c] # ".") =>
        /\ result # "none"
        /\ result = "won" =>
             ~JoinsSides(Stones(IF Answer = "B" THEN "R" ELSE "B"), size)

\* The search stops on every board: no cell is queued for ever.
SearchStops == <>(result # "running")
==============================================================================
