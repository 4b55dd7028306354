------------------------------ MODULE MCAccounts ------------------------------
(* Small instances of Accounts for TLC, and what holds while nothing goes    *)
(* wrong at a start and no requests overlap.                                 *)
EXTENDS Accounts, TLC

CONSTANTS admin, ADMIN, ana, ANA, adminMail, mail1, mail2

MCName  == {admin, ADMIN, ana, ANA}
MCEmail == {adminMail, mail1, mail2}
MCFold  == [x \in MCName \union MCEmail |->
              CASE x = ADMIN -> admin [] x = ANA -> ana [] OTHER -> x]

Symmetry == Permutations(Node) \union Permutations(Call) \union Permutations({mail1, mail2})

VARIABLES
  overlapped,  \* history: two requests have been in progress at once
  disturbed    \* history: a start did not run to its end, or without the admin

MCInit == Init /\ overlapped = FALSE /\ disturbed = FALSE
MCNext ==
  /\ Next
  /\ overlapped' = (overlapped \/ \E c, d \in Call : c # d /\ Idle \notin {call'[c], call'[d]})
  /\ disturbed' = (disturbed \/ (server = "seed" /\ AdminName \notin {account'[n].name : n \in Accounts'})
                             \/ (server \in {"seed", "constrain"} /\ server' = "down"))
MCSpec == MCInit /\ [][MCNext]_<<vars, overlapped, disturbed>>

\* While starts succeed and requests do not overlap, names differ by more than
\* case (account_repo.go:57).
CalmNamesDiffer == overlapped \/ disturbed \/ NamesDiffer

\* While starts succeed, an admin is never blocked, whatever overlaps: the name is
\* taken before the first request (account_repo.go:231).
CalmAdminNotBlocked == disturbed \/ AdminNotBlocked
===============================================================================
