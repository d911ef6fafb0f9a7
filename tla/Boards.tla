------------------------------- MODULE Boards -------------------------------
(***************************************************************************)
(* The grid referee of GameServ (modules/gameserv/src/board.rs): tic-tac-  *)
(* toe and Connect Four, from an empty board to the end of the game.       *)
(***************************************************************************)
EXTENDS Integers, FiniteSets

CONSTANTS C4_W, C4_H   \* the code's 7 and 6

VARIABLES kind, cells, turn, result
vars == <<kind, cells, turn, result>>

Sides == {"A", "B"}
other(s) == IF s = "A" THEN "B" ELSE "A"
EMPTY == "."
Size(k) == IF k = "ttt" THEN 9 ELSE C4_W * C4_H

TTT_LINES == {{0, 1, 2}, {3, 4, 5}, {6, 7, 8}, {0, 3, 6}, {1, 4, 7}, {2, 5, 8},
              {0, 4, 8}, {2, 4, 6}}

(* The cell a piece falls to: the lowest free one of the column.           *)
Free(b, col) == {i \in {r * C4_W + col : r \in 0..(C4_H - 1)} : b[i] = EMPTY}
Highest(b, col) == {i \in Free(b, col) : \A j \in Free(b, col) : j <= i}
Lowest(b, col) == {i \in Free(b, col) : \A j \in Free(b, col) : i <= j}

(* Four cells in a row from one of them, in the directions scanned.        *)
Rising == {<<1, 0>>, <<0, 1>>, <<1, 1>>}   \* falling diagonals forgotten
Directions == {<<1, 0>>, <<0, 1>>, <<1, 1>>, <<1, -1>>}
OnGrid(x, y) == x \in 0..(C4_W - 1) /\ y \in 0..(C4_H - 1)
Connected(b, s) ==
    \E x \in 0..(C4_W - 1), y \in 0..(C4_H - 1), d \in Directions :
        /\ OnGrid(x + 3 * d[1], y + 3 * d[2])
        /\ \A n \in 0..3 : b[(y + n * d[2]) * C4_W + x + n * d[1]] = s

Complete(b, k, s) ==
    IF k = "ttt" THEN \E l \in TTT_LINES : \A i \in l : b[i] = s ELSE Connected(b, s)

terminal(b, k) ==
    LET won == {s \in Sides : Complete(b, k, s)}
    IN  CASE won # {} -> CHOOSE s \in won : TRUE
          [] won = {} /\ (\A i \in DOMAIN b : b[i] # EMPTY) -> "draw"
          [] OTHER -> "none"

Targets(mv) ==
    IF kind = "ttt" THEN {i \in {mv} : i < 9 /\ cells[i] = EMPTY}
    ELSE IF mv < C4_W THEN Lowest(cells, mv) ELSE {}

apply_move_again(side, mv) ==   \* the turn stays with the mover
    /\ turn = side
    /\ \E i \in Targets(mv) : cells' = [cells EXCEPT ![i] = side]
    /\ UNCHANGED turn
apply_move(side, mv) ==
    /\ turn = side
    /\ \E i \in Targets(mv) : cells' = [cells EXCEPT ![i] = side]
    /\ turn' = other(side)

Move ==
    /\ result = "none"
    /\ \E side \in Sides, mv \in 0..(Size(kind) - 1) : apply_move(side, mv)
    /\ result' = terminal(cells', kind)
    /\ UNCHANGED kind

Init ==
    /\ kind \in {"ttt", "c4"}
    /\ cells = [i \in 0..(Size(kind) - 1) |-> EMPTY]
    /\ turn = "A" /\ result = "none"
Next == Move
Spec == Init /\ [][Next]_vars

-----------------------------------------------------------------------------
Pieces(s) == Cardinality({i \in DOMAIN cells : cells[i] = s})

(* Types; A moved first and the sides alternate, so the pieces on the      *)
(* board tell whose turn it is.                                            *)
TypeOK ==
    /\ cells \in [0..(Size(kind) - 1) -> Sides \union {EMPTY}]
    /\ result \in Sides \union {"draw", "none"}
    /\ Pieces("A") - Pieces("B") = IF turn = "A" THEN 0 ELSE 1

(* Gravity: nothing in a Connect Four column stands on air.                *)
NothingFloats ==
    kind = "c4" => \A i \in DOMAIN cells :
        (cells[i] # EMPTY /\ i >= C4_W) => cells[i - C4_W] # EMPTY

(* Reference: n pieces of one side in a row, whichever of the eight ways   *)
(* they are read.                                                          *)
Row(s, w, h, n) ==
    \E x \in 0..(w - 1), y \in 0..(h - 1), d \in ((-1..1) \X (-1..1)) \ {<<0, 0>>} :
        /\ cells[y * w + x] = s
        /\ \A j \in 1..(n - 1) :
               /\ x + j * d[1] \in 0..(w - 1) /\ y + j * d[2] \in 0..(h - 1)
               /\ cells[(y + j * d[2]) * w + x + j * d[1]] = s
InLine(s) == IF kind = "ttt" THEN Row(s, 3, 3, 3) ELSE Row(s, C4_W, C4_H, 4)

(* A game is over exactly when the player who has just moved completed a   *)
(* line, or the board is full without one; the other side never has one.   *)
VerdictIsRight ==
    LET line == InLine(other(turn))
        full == \A i \in DOMAIN cells : cells[i] # EMPTY
    IN  /\ ~InLine(turn)
        /\ (result = other(turn)) = line
        /\ (result = "draw") = (~line /\ full)
        /\ result # turn
=============================================================================
