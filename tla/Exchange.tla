------------------------------ MODULE Exchange ------------------------------
(***************************************************************************)
(* What one all-to-all redistribution over a line communicator promises,   *)
(* whatever schedule moves the data: every piece a rank owes a peer lands  *)
(* once, in the place of that piece, and a rank returns to its caller only *)
(* when its own pieces have landed and its send memory may be reused.      *)
(***************************************************************************)
EXTENDS Naturals

CONSTANTS
    Ranks,      \* the members of the communicator
    Pieces,     \* the pieces owed: a set of <<source, destination, index>>
    Buffered    \* TRUE when the MPI library copies what is sent at the post

VARIABLES
    placed,     \* <<piece, piece>>: which piece's data is in the place of which
    returned    \* the ranks whose call has returned

vars == <<placed, returned>>

TypeOK ==
    /\ placed \subseteq (Pieces \X Pieces)
    /\ returned \subseteq Ranks

Init ==
    /\ placed = {}
    /\ returned = {}

Place(piece) ==
    /\ piece[2] \notin returned
    /\ <<piece, piece>> \notin placed
    /\ placed' = placed \cup {<<piece, piece>>}
    /\ UNCHANGED returned

Return(r) ==
    /\ r \notin returned
    /\ \A piece \in Pieces :
           piece[2] = r \/ (piece[1] = r /\ ~Buffered) => <<piece, piece>> \in placed
    /\ returned' = returned \cup {r}
    /\ UNCHANGED placed

Next ==
    \/ \E piece \in Pieces : Place(piece)
    \/ \E r \in Ranks : Return(r)

Spec == Init /\ [][Next]_vars

=============================================================================
