-------------------------------- MODULE Chess --------------------------------
(***************************************************************************)
(* The chess referee of GameServ (modules/gameserv/src/chess.rs): move     *)
(* generation, application of a move, and how a game ends.  Squares are    *)
(* numbered as in the code, rank * 8 + file from a1 = 0 to h8 = 63.        *)
(*                                                                         *)
(* A piece is <<colour, kind>>.  Rays are the squares in one direction, so *)
(* a sliding piece reaches every square with nothing in between.           *)
(***************************************************************************)
EXTENDS Integers, FiniteSets

CONSTANTS Positions,   \* the positions a game is watched from
          MaxPlies     \* bound on the half-moves played from there

VARIABLES board, turn, rights, ep, result, plies
vars == <<board, turn, rights, ep, result, plies>>

Square == 0..63
Colour == {"w", "b"}
Kind == {"P", "N", "B", "R", "Q", "K"}
Empty == <<"-", "-">>
Piece == Colour \X Kind
NoSquare == -1

cf(s) == s % 8
cr(s) == s \div 8
csq(f, r) == r * 8 + f
OnBoard(f, r) == f \in 0..7 /\ r \in 0..7
Other(c) == IF c = "w" THEN "b" ELSE "w"
dir(c) == IF c = "w" THEN 1 ELSE -1
HomeRank(c) == IF c = "w" THEN 0 ELSE 7

KN == {<<1, 2>>, <<2, 1>>, <<2, -1>>, <<1, -2>>, <<-1, -2>>, <<-2, -1>>, <<-2, 1>>, <<-1, 2>>}
BD == {<<1, 1>>, <<-1, 1>>, <<-1, -1>>, <<1, -1>>}
RD == {<<1, 0>>, <<-1, 0>>, <<0, 1>>, <<0, -1>>}
KG == BD \union RD
Slides(k) == CASE k = "B" -> BD [] k = "R" -> RD [] k = "Q" -> KG [] OTHER -> {}

Step(s, d) == {t \in {csq(cf(s) + d[1], cr(s) + d[2])} : OnBoard(cf(s) + d[1], cr(s) + d[2])}
Steps(s, ds) == UNION {Step(s, d) : d \in ds}

(* The squares a ray from s in direction d reaches on board b: up to and   *)
(* including the first piece.                                              *)
Ray(b, s, d) ==
    LET at(n) == csq(cf(s) + n * d[1], cr(s) + n * d[2])
        in(n) == OnBoard(cf(s) + n * d[1], cr(s) + n * d[2])
    IN  {at(n) : n \in {n \in 1..7 :
            in(n) /\ \A m \in 1..(n - 1) : in(m) => b[at(m)] = Empty}}
Rays(b, s, ds) == UNION {Ray(b, s, d) : d \in ds}

PawnTargets(s, c) == Steps(s, {<<-1, dir(c)>>, <<1, dir(c)>>})

(* attacked: some piece of colour c attacks square s.                      *)
attacked(b, s, c) ==
    \/ \E t \in PawnTargets(s, Other(c)) : b[t] = <<c, "P">>
    \/ \E t \in Steps(s, KN) : b[t] = <<c, "N">>
    \/ \E t \in Steps(s, KG) : b[t] = <<c, "K">>
    \/ \E t \in Rays(b, s, BD) : b[t] \in {<<c, "B">>, <<c, "Q">>}
    \/ \E t \in Rays(b, s, RD) : b[t] \in {<<c, "R">>, <<c, "Q">>}

king_sq(b, c) == CHOOSE s \in Square : b[s] = <<c, "K">>
in_check(b, c) == attacked(b, king_sq(b, c), Other(c))

(* ------------------------------------------------------ move generation  *)
Plain(s, t) == [from |-> s, to |-> t, promo |-> "", ep |-> FALSE, dbl |-> FALSE, castle |-> ""]

add_pawn_never(s, t, c) == {Plain(s, t)}   \* the last rank does not promote
add_pawn(s, t, c) ==
    IF cr(t) = HomeRank(Other(c))
    THEN {[Plain(s, t) EXCEPT !.promo = k] : k \in {"Q", "R", "B", "N"}}
    ELSE {Plain(s, t)}

PawnPushes(b, s, c) ==
    LET one == Step(s, <<0, dir(c)>>)
        free == {t \in one : b[t] = Empty}
        two == {t + 8 * dir(c) : t \in {u \in free : cr(s) = HomeRank(c) + dir(c)}}
    IN  UNION {add_pawn(s, t, c) : t \in free}
        \union {[Plain(s, t) EXCEPT !.dbl = TRUE] : t \in {u \in two : b[u] = Empty}}

PawnTakes(b, e, s, c) ==
    UNION {add_pawn(s, t, c) : t \in {u \in PawnTargets(s, c) : b[u][1] = Other(c)}}
    \union {[Plain(s, t) EXCEPT !.ep = TRUE] :
                t \in {u \in PawnTargets(s, c) : u = e /\ b[u][1] # Other(c)}}

(* Castling: the right is held, the squares between are free, the rook is  *)
(* at home, and the king neither stands on nor crosses an attacked square. *)
Castles(b, rs, s, c) ==
    LET h == csq(0, HomeRank(c))
        safe(f) == ~attacked(b, h + f, Other(c))
        side(k, corner, between, path, to) ==
            IF /\ <<c, k>> \in rs
               /\ \A f \in between : b[h + f] = Empty
               /\ b[h + corner] = <<c, "R">>
               /\ \A f \in path : safe(f)
            THEN {[Plain(s, h + to) EXCEPT !.castle = k]} ELSE {}
    IN  IF s # h + 4 \/ ~safe(4) THEN {}
        ELSE side("K", 7, {5, 6}, {5, 6}, 6) \union side("Q", 0, {1, 2, 3}, {2, 3}, 2)

pseudo(b, c, rs, e) ==
    UNION {LET k == b[s][2]
               hops(ts) == {Plain(s, t) : t \in {u \in ts : b[u][1] # c}}
           IN  CASE k = "P" -> PawnPushes(b, s, c) \union PawnTakes(b, e, s, c)
                 [] k = "N" -> hops(Steps(s, KN))
                 [] k = "K" -> hops(Steps(s, KG)) \union Castles(b, rs, s, c)
                 [] OTHER -> hops(Rays(b, s, Slides(k)))
           : s \in {u \in Square : b[u][1] = c}}

(* ------------------------------------------------------- applying a move  *)
(* The square a capture in passing empties: file of the target, rank of    *)
(* the pawn that takes.                                                    *)
Passed_behind(m) == csq(cf(m.from), cr(m.to))
Passed(m) == csq(cf(m.to), cr(m.from))

Placed(b, c, m) ==
    LET h == csq(0, HomeRank(c))
        piece == IF m.promo = "" THEN b[m.from] ELSE <<c, m.promo>>
        rookFrom == IF m.castle = "K" THEN h + 7 ELSE h
        rookTo == IF m.castle = "K" THEN h + 5 ELSE h + 3
    IN  [s \in Square |->
            CASE s = m.to -> piece
              [] s = m.from -> Empty
              [] m.ep /\ s = Passed(m) -> Empty
              [] m.castle # "" /\ s = rookTo -> <<c, "R">>
              [] m.castle # "" /\ s = rookFrom -> Empty
              [] OTHER -> b[s]]

(* The right that goes with each corner: lost when its rook leaves or is   *)
(* captured there.                                                         *)
Corner == {<<0, <<"w", "Q">> >>, <<7, <<"w", "K">> >>, <<56, <<"b", "Q">> >>, <<63, <<"b", "K">> >>}

RightsAfter_taken(b, c, rs, m) ==   \* a captured rook does not cost the right
    {r \in rs : /\ ~(b[m.from][2] = "K" /\ r[1] = c)
                /\ ~(b[m.from] = <<c, "R">> /\ <<m.from, r>> \in Corner /\ r[1] = c)}

RightsAfter(b, c, rs, m) ==
    {r \in rs : /\ ~(b[m.from][2] = "K" /\ r[1] = c)
                /\ ~(b[m.from] = <<c, "R">> /\ <<m.from, r>> \in Corner /\ r[1] = c)
                /\ <<m.to, r>> \notin Corner}

PassedOver_from(c, m) == IF m.dbl THEN m.from ELSE NoSquare
PassedOver(c, m) == IF m.dbl THEN m.from + 8 * dir(c) ELSE NoSquare

legal_pseudo(b, c, rs, e) == pseudo(b, c, rs, e)   \* a pinned piece may move
legal(b, c, rs, e) ==
    {m \in pseudo(b, c, rs, e) :
        LET n == Placed(b, c, m) IN ~attacked(n, king_sq(n, c), Other(c))}

(* How a position has ended, if it has.                                    *)
over_pseudo(b, c, rs, e) ==   \* looks for a move without asking if it is legal
    IF pseudo(b, c, rs, e) # {} THEN "none"
    ELSE IF in_check(b, c) THEN "checkmate" ELSE "draw"

over(b, c, rs, e) ==
    IF legal(b, c, rs, e) # {} THEN "none"
    ELSE IF in_check(b, c) THEN "checkmate" ELSE "draw"

(* ------------------------------------------------------------- the game  *)
(* board::apply_move and board::terminal: any move parse finds legal.      *)
Play ==
    /\ result = "none"
    /\ \E m \in legal(board, turn, rights, ep) :
        /\ board' = Placed(board, turn, m)
        /\ rights' = RightsAfter(board, turn, rights, m)
        /\ ep' = PassedOver(turn, m)
    /\ turn' = Other(turn)
    /\ result' = over(board', turn', rights', ep')
    /\ plies' = plies + 1

initial ==
    LET back == <<"R", "N", "B", "Q", "K", "B", "N", "R">>
    IN  [s \in Square |-> CASE cr(s) = 0 -> <<"w", back[cf(s) + 1]>>
                            [] cr(s) = 1 -> <<"w", "P">>
                            [] cr(s) = 6 -> <<"b", "P">>
                            [] cr(s) = 7 -> <<"b", back[cf(s) + 1]>>
                            [] OTHER -> Empty]

Init ==
    /\ \E p \in Positions : board = p.board /\ turn = p.turn /\ rights = p.rights
                         /\ plies = p.plies
    /\ ep = NoSquare /\ result = "none"
Next == plies < MaxPlies /\ Play
Spec == Init /\ [][Next]_vars

-----------------------------------------------------------------------------
PiecesOf(b, c) == {s \in Square : b[s][1] = c}

(* Types; each side has exactly one king, no pawn on a last rank.          *)
TypeOK ==
    /\ board \in [Square -> Piece \union {Empty}]
    /\ turn \in Colour /\ rights \subseteq (Colour \X {"K", "Q"})
    /\ ep \in Square \union {NoSquare} /\ plies \in 0..MaxPlies
    /\ result \in {"none", "checkmate", "draw"}
    /\ \A c \in Colour : Cardinality({s \in Square : board[s] = <<c, "K">>}) = 1
    /\ \A s \in Square : cr(s) \in {0, 7} => board[s][2] # "P"

(* legal: nobody ends a move with the own king attacked.                   *)
NotLeftInCheck == ~in_check(board, Other(turn))

(* A game ends only when the side to move cannot: its king has no square to *)
(* flee to, and is attacked exactly when the game counts as won.           *)
EndingIsReal ==
    LET k == king_sq(board, turn)
    IN  IF result = "none"
        THEN in_check(board, turn) => legal(board, turn, rights, ep) # {}
        ELSE /\ (result = "checkmate") = in_check(board, turn)
             /\ \A t \in Steps(k, KG) : board[t][1] # turn =>
                   in_check(Placed(board, turn, Plain(k, t)), turn)

(* A castling right is only held while king and rook still stand at home:  *)
(* a right that outlived its rook would castle with one that came back.    *)
RightsAreReal ==
    \A r \in rights :
        /\ board[csq(4, HomeRank(r[1]))] = <<r[1], "K">>
        /\ \E s \in Square : <<s, r>> \in Corner /\ board[s] = <<r[1], "R">>

(* The en-passant square is the one a pawn has just jumped: it and the     *)
(* pawn's origin are empty and the pawn stands beyond, ready to be taken.  *)
PassingIsReal ==
    ep # NoSquare =>
        LET c == Other(turn)
        IN  /\ board[ep] = Empty /\ board[ep - 8 * dir(c)] = Empty
            /\ board[ep + 8 * dir(c)] = <<c, "P">>
            /\ cr(ep) = HomeRank(c) + 2 * dir(c)

(* A move never costs the mover a piece, and costs the opponent at most    *)
(* one: the one that stood where it landed or was taken in passing.        *)
OneCapture ==
    /\ Cardinality(PiecesOf(board', turn)) = Cardinality(PiecesOf(board, turn))
    /\ Cardinality(PiecesOf(board, turn')) - Cardinality(PiecesOf(board', turn')) \in {0, 1}
    /\ ep \in PiecesOf(board', turn) /\ board'[ep] = <<turn, "P">> =>
          board'[ep - 8 * dir(turn)] = Empty
=============================================================================
