------------------------------ MODULE ItemLedger ------------------------------
(*****************************************************************************)
(* What the shops of this system promise about the rows of the carts: a row  *)
(* is put on a shelf once and leaves it for good, and a row that has left is *)
(* sold at most once.  Nothing is said of how a sale is carried out, nor     *)
(* which rows leave at the same time.                                        *)
(*****************************************************************************)
CONSTANTS Row,   \* what is sold
          Sale   \* checkouts

VARIABLES shelf,   \* rows that are in a cart
          gone,    \* rows that were in a cart and are not any more
          sold     \* <<sale, row>>: the sales reported to the buyers

vars == <<shelf, gone, sold>>

Init == shelf = {} /\ gone = {} /\ sold = {}

\* A new row; none comes back.
Put(i) ==
  /\ i \notin shelf \union gone
  /\ shelf' = shelf \union {i}
  /\ UNCHANGED <<gone, sold>>

\* Any rows leave, removed or checked out.
Take(S) ==
  /\ S \subseteq shelf
  /\ shelf' = shelf \ S
  /\ gone' = gone \union S
  /\ UNCHANGED sold

\* Sale c reports rows that have left the shelf and that nobody reported before.
Sell(c, S) ==
  /\ S \subseteq gone
  /\ \A x \in sold : x[2] \notin S
  /\ sold' = sold \union ({c} \X S)
  /\ UNCHANGED <<shelf, gone>>

Next ==
  \/ \E i \in Row : Put(i)
  \/ \E S \in SUBSET Row : Take(S)
  \/ \E c \in Sale, S \in SUBSET Row : Sell(c, S)

Spec == Init /\ [][Next]_vars
===============================================================================
