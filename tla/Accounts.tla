------------------------------- MODULE Accounts -------------------------------
(*****************************************************************************)
(* Accounts in the stakeholders service: startup, registration, login and    *)
(* blocking (main.go, AuthService, AccountRepo, ProfileRepo), with requests  *)
(* that overlap and a process that stops at any point.                       *)
(*                                                                           *)
(* Every repository call is one Neo4j transaction.  The handlers compare     *)
(* names without regard to case (toLower); the constraints of the database   *)
(* compare them exactly, and exist only once a start has got that far.       *)
(* Passwords and the texts of profiles are not kept; guides and tourists are *)
(* not told apart.                                                           *)
(*****************************************************************************)
EXTENDS Naturals

CONSTANTS
  Name,       \* usernames
  Email,      \* email addresses
  Fold,       \* toLower
  AdminName,  \* "admin"
  AdminMail,  \* "admin@gmail.com"
  Node,       \* Account nodes, each created once (a bound)
  Call        \* requests in progress at once

ASSUME AdminAssumption == AdminName \in Name /\ AdminMail \in Email
ASSUME FoldAssumption == Fold \in [Name \union Email -> Name \union Email]

VARIABLES
  server,    \* what the process is doing
  unique,    \* the uniqueness constraints exist
  account,   \* the Account nodes: a function from their ids to their properties
  profiles,  \* Node -> how many Profile nodes it has
  tokens,    \* access tokens that have not expired
  call       \* Call -> the next transaction of the handler and what it is for

dbVars == <<unique, account, profiles>>
vars == <<server, dbVars, tokens, call>>

Role    == {"admin", "user"}
Account == [name : Name, email : Email, role : Role, blocked : BOOLEAN]
Token   == [name : Name, role : Role]
Form    == [name : Name, email : Email]

Idle == [at |-> "idle", of |-> "none"]
CallState ==
  {Idle} \union [at : {"create", "profile"}, of : Form]   \* Register
         \union [at : {"token"}, of : Node]               \* Login
         \union [at : {"block"}, of : Name]               \* BlockAccount

Accounts == DOMAIN account

TypeOK ==
  /\ server \in {"down", "seed", "constrain", "up"}
  /\ unique \in BOOLEAN
  /\ Accounts \subseteq Node /\ account \in [Accounts -> Account]
  /\ profiles \in [Node -> Nat]
  /\ tokens \subseteq Token
  /\ call \in [Call -> CallState]

Init ==
  /\ server = "down"
  /\ unique = FALSE
  /\ account = <<>>
  /\ profiles = [n \in Node |-> 0]
  /\ tokens = {}
  /\ call = [c \in Call |-> Idle]

At(c, step)      == call[c].at = step
Subject(c)       == call[c].of
Goto(c, step, x) == call' = [call EXCEPT ![c] = [at |-> step, of |-> x]]
End(c)           == call' = [call EXCEPT ![c] = Idle]

\* No two accounts have the same name, or the same email, to the letter.
Unique ==
  \A m, n \in Accounts :
    m # n => account[m].name # account[n].name /\ account[m].email # account[n].email

\* Accounts that toLower does not tell from a username.
SameName(name) == {n \in Accounts : Fold[account[n].name] = Fold[name]}

\* What the constraints, once they exist, require of a new account.
Allowed(f) ==
  unique => \A n \in Accounts : account[n].name # f.name /\ account[n].email # f.email

\* CreateAccount: one CREATE of an account that is not blocked.
CreateAccount(f, role) ==
  \E n \in Node \ Accounts :
    account' = [x \in Accounts \union {n} |->
                  IF x = n THEN [name |-> f.name, email |-> f.email,
                                 role |-> role, blocked |-> FALSE]
                  ELSE account[x]]

-------------------------------------------------------------------------------
(* Startup.                                                                  *)

\* The database is reachable.
Start ==
  /\ server = "down"
  /\ server' = "seed"
  /\ UNCHANGED <<dbVars, tokens, call>>

Admin == [name |-> AdminName, email |-> AdminMail]

\* seedAdmin, on every start: CREATE without a look for an older one; that the
\* constraints refuse it is ignored.
Seed ==
  /\ server = "seed"
  /\ server' = "constrain"
  /\ IF Allowed(Admin) THEN CreateAccount(Admin, "admin") ELSE UNCHANGED account
  /\ UNCHANGED <<unique, profiles, tokens, call>>

\* seedAdmin fails for any other reason, which is ignored as well.
SeedFails ==
  /\ server = "seed"
  /\ server' = "constrain"
  /\ UNCHANGED <<dbVars, tokens, call>>

\* Mutant of Constrain: its error is logged and the process goes on.
ConstrainAnyway ==
  /\ server = "constrain"
  /\ unique' = Unique
  /\ server' = "up"
  /\ UNCHANGED <<account, profiles, tokens, call>>

\* EnsureUniqueConstraints: the database refuses constraints that the accounts
\* break already, and the process ends (log.Fatalf).
Constrain ==
  /\ server = "constrain"
  /\ unique' = Unique
  /\ server' = IF Unique THEN "up" ELSE "down"
  /\ UNCHANGED <<account, profiles, tokens, call>>

\* The process stops.  Tokens are signed with a configured secret and outlive it.
Crash ==
  /\ server # "down"
  /\ server' = "down"
  /\ call' = [c \in Call |-> Idle]
  /\ UNCHANGED <<dbVars, tokens>>

-------------------------------------------------------------------------------
(* Register.                                                                 *)

\* Mutant of RegisterCheck: names are compared to the letter.
RegisterCheckExact(c) ==
  /\ server = "up" /\ At(c, "idle")
  /\ \E f \in Form :
       /\ \A n \in Accounts : account[n].name # f.name /\ account[n].email # f.email
       /\ Goto(c, "create", f)
  /\ UNCHANGED <<server, dbVars, tokens>>

\* ExistsByUsernameOrEmail finds nothing; otherwise the call is refused.
RegisterCheck(c) ==
  /\ server = "up" /\ At(c, "idle")
  /\ \E f \in Form :
       /\ SameName(f.name) = {}
       /\ \A n \in Accounts : Fold[account[n].email] # Fold[f.email]
       /\ Goto(c, "create", f)
  /\ UNCHANGED <<server, dbVars, tokens>>

\* CreateAccount, which the constraints may refuse.
RegisterCreate(c) ==
  /\ At(c, "create")
  /\ IF Allowed(Subject(c))
       THEN CreateAccount(Subject(c), "user") /\ Goto(c, "profile", Subject(c))
       ELSE UNCHANGED account /\ End(c)
  /\ UNCHANGED <<server, unique, profiles, tokens>>

\* Mutant of RegisterProfile: MATCH without regard to case.
RegisterProfileFolded(c) ==
  /\ At(c, "profile")
  /\ profiles' = [n \in Node |->
       IF n \in SameName(Subject(c).name) THEN profiles[n] + 1 ELSE profiles[n]]
  /\ End(c)
  /\ UNCHANGED <<server, unique, account, tokens>>

\* CreateProfile: MATCH by the exact username, and a profile for every match.
RegisterProfile(c) ==
  /\ At(c, "profile")
  /\ profiles' = [n \in Node |->
       IF n \in Accounts /\ account[n].name = Subject(c).name
         THEN profiles[n] + 1 ELSE profiles[n]]
  /\ End(c)
  /\ UNCHANGED <<server, unique, account, tokens>>

-------------------------------------------------------------------------------
(* Login.                                                                    *)

\* Mutant of LoginRead: isBlocked is not looked at.
LoginReadAny(c) ==
  /\ server = "up" /\ At(c, "idle")
  /\ \E n \in Accounts : Goto(c, "token", n)
  /\ UNCHANGED <<server, dbVars, tokens>>

\* FindByIdentity: LIMIT 1, any account whose name or email matches.  It is not
\* blocked and the password is right; otherwise the call is refused.
LoginRead(c) ==
  /\ server = "up" /\ At(c, "idle")
  /\ \E n \in Accounts :
       /\ ~account[n].blocked
       /\ Goto(c, "token", n)
  /\ UNCHANGED <<server, dbVars, tokens>>

TokenOf(n) == [name |-> account[n].name, role |-> account[n].role]

\* generateAccessToken, after the password was hashed.
LoginIssue(c) ==
  /\ At(c, "token")
  /\ tokens' = tokens \union {TokenOf(Subject(c))}
  /\ End(c)
  /\ UNCHANGED <<server, dbVars>>

\* accessTokenTTL has passed.
Expire ==
  /\ \E t \in tokens : tokens' = tokens \ {t}
  /\ UNCHANGED <<server, dbVars, call>>

-------------------------------------------------------------------------------
(* BlockAccount.                                                             *)

\* Mutant of BlockRead: the role is not looked at.
BlockReadAny(c) ==
  /\ server = "up" /\ At(c, "idle")
  /\ \E t \in tokens : t.role = "admin"
  /\ \E x \in Name : SameName(x) # {} /\ Goto(c, "block", x)
  /\ UNCHANGED <<server, dbVars, tokens>>

\* Somebody with an admin's token asks; the first account that matches
\* (LIMIT 1) must not be an admin.
BlockRead(c) ==
  /\ server = "up" /\ At(c, "idle")
  /\ \E t \in tokens : t.role = "admin"
  /\ \E x \in Name :
       /\ \E n \in SameName(x) : account[n].role # "admin"
       /\ Goto(c, "block", x)
  /\ UNCHANGED <<server, dbVars, tokens>>

\* The second statement sets every account that matches by then.
BlockWrite(c) ==
  /\ At(c, "block")
  /\ account' = [n \in Accounts |->
       IF n \in SameName(Subject(c)) THEN [account[n] EXCEPT !.blocked = TRUE]
       ELSE account[n]]
  /\ End(c)
  /\ UNCHANGED <<server, unique, profiles, tokens>>

\* A transaction fails or the client goes away: the call does nothing more.
Fail(c) ==
  /\ ~At(c, "idle")
  /\ End(c)
  /\ UNCHANGED <<server, dbVars, tokens>>

-------------------------------------------------------------------------------

Startup == Start \/ Seed \/ SeedFails \/ Constrain

Handle(c) ==
  \/ RegisterCheck(c) \/ RegisterCreate(c) \/ RegisterProfile(c)
  \/ LoginRead(c) \/ LoginIssue(c)
  \/ BlockRead(c) \/ BlockWrite(c)
  \/ Fail(c)

Next == Startup \/ Crash \/ Expire \/ \E c \in Call : Handle(c)

Spec == Init /\ [][Next]_vars

-------------------------------------------------------------------------------
(* Properties that hold through overlaps, failures and restarts.             *)

\* While requests are served, no two accounts share a name or an email to the
\* letter, whatever starts went wrong before (main.go:86-95).
ServedUnique == server = "up" => Unique

\* No account has two profiles, although a profile is created for every account
\* that matches by name (profile_repo.go:25).
OneProfile == \A n \in Node : profiles[n] <= 1

\* A blocked account without a token and without a login on its way never gets
\* in again: what was read before the block is all that can pass it
\* (auth_service.go:87).
LockedOut(n) ==
  /\ n \in Accounts
  /\ account[n].blocked
  /\ TokenOf(n) \notin tokens
  /\ \A c \in Call : At(c, "token") => Subject(c) # n
StaysLockedOut == [][\A n \in Node : LockedOut(n) => LockedOut(n)']_vars

-------------------------------------------------------------------------------
(* Properties that hold while starts succeed and requests do not overlap     *)
(* (see MCAccounts).                                                         *)

\* "REQUIRE u.username IS UNIQUE" (account_repo.go:33): at no time do two accounts
\* share a name; the service could not start any more.  TLC refutes it: a start that
\* stops between Seed and Constrain leaves the next one to create a second admin.
UsernameUnique ==
  \A m, n \in Accounts : account[m].name = account[n].name => m = n

\* "Korisnicko ime ili email vec postoje" (the username or email exists already,
\* auth_handler.go:45): no two accounts share a name but for case.
NamesDiffer == \A n \in Accounts : SameName(account[n].name) = {n}

\* "Admin nalog ne moze biti blokiran" (an admin account cannot be blocked,
\* auth_handler.go:111).
AdminNotBlocked == \A n \in Accounts : ~(account[n].role = "admin" /\ account[n].blocked)
===============================================================================
