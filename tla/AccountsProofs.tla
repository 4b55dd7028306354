---------------------------- MODULE AccountsProofs ----------------------------
(*****************************************************************************)
(* Accounts for any number of accounts, names and overlapping requests, with *)
(* any foldings of names and any failures of starts and requests.            *)
(*                                                                           *)
(* Requests are served only once the constraints exist, and these keep names *)
(* apart (Served).  So a registration that is about to create its profile is *)
(* the only one of its name, and its account has none yet (Profiled).        *)
(*****************************************************************************)
EXTENDS MCAccounts, TLAPS

Served ==
  /\ server = "up" => unique
  /\ unique => Unique
  /\ \A c \in Call : call[c] # Idle => server = "up"

\* A login that is about to issue a token has found an account.
Found == \A c \in Call : At(c, "token") => Subject(c) \in Accounts

\* A registration that is about to create a profile.
Fresh(c) ==
  /\ \E n \in Accounts : account[n].name = Subject(c).name
  /\ \A n \in Accounts : account[n].name = Subject(c).name => profiles[n] = 0
  /\ \A d \in Call \ {c} : At(d, "profile") => Subject(d).name # Subject(c).name

Profiled ==
  /\ OneProfile
  /\ \A n \in Node \ Accounts : profiles[n] = 0
  /\ \A c \in Call : At(c, "profile") => Fresh(c)

AccInv == TypeOK /\ Served /\ Found /\ Profiled

-------------------------------------------------------------------------------
(* What the operators on calls and accounts do.                              *)

LEMMA CallForms ==
  ASSUME TypeOK, NEW c \in Call
  PROVE  /\ At(c, "idle") <=> call[c] = Idle
         /\ At(c, "create") \/ At(c, "profile") => Subject(c) \in Form
         /\ At(c, "token") => Subject(c) \in Node
         /\ At(c, "block") => Subject(c) \in Name
<1>1. call[c] \in CallState
  BY DEF TypeOK
<1>2. call[c] = Idle => call[c].at = "idle"
  BY DEF Idle
<1>3. call[c] \in [at : {"create", "profile"}, of : Form]
        => call[c].at \in {"create", "profile"} /\ call[c].of \in Form
  OBVIOUS
<1>4. call[c] \in [at : {"token"}, of : Node] => call[c].at = "token" /\ call[c].of \in Node
  OBVIOUS
<1>5. call[c] \in [at : {"block"}, of : Name] => call[c].at = "block" /\ call[c].of \in Name
  OBVIOUS
<1>6. \/ call[c] = Idle
      \/ call[c] \in [at : {"create", "profile"}, of : Form]
      \/ call[c] \in [at : {"token"}, of : Node]
      \/ call[c] \in [at : {"block"}, of : Name]
  BY <1>1 DEF CallState
<1>7. QED
  BY <1>2, <1>3, <1>4, <1>5, <1>6 DEF At, Subject

LEMMA Going ==
  ASSUME TypeOK, NEW c \in Call, NEW step, NEW x,
         Goto(c, step, x), [at |-> step, of |-> x] \in CallState
  PROVE  /\ call' \in [Call -> CallState]
         /\ call'[c] = [at |-> step, of |-> x]
         /\ \A d \in Call \ {c} : call'[d] = call[d]
  BY DEF TypeOK, Goto

LEMMA Ending ==
  ASSUME TypeOK, NEW c \in Call, End(c)
  PROVE  /\ call' \in [Call -> CallState]
         /\ call'[c] = Idle
         /\ \A d \in Call \ {c} : call'[d] = call[d]
  BY DEF TypeOK, End, CallState

LEMMA Creating ==
  ASSUME TypeOK, NEW f \in Form, NEW role \in Role, CreateAccount(f, role)
  PROVE  \E n \in Node \ Accounts :
           /\ Accounts' = Accounts \union {n}
           /\ account' \in [Accounts' -> Account]
           /\ account'[n] = [name |-> f.name, email |-> f.email,
                             role |-> role, blocked |-> FALSE]
           /\ \A m \in Accounts : account'[m] = account[m]
<1>1. PICK n \in Node \ Accounts :
        account' = [x \in Accounts \union {n} |->
                      IF x = n THEN [name |-> f.name, email |-> f.email,
                                     role |-> role, blocked |-> FALSE]
                      ELSE account[x]]
  BY DEF CreateAccount
<1>2. Accounts' = Accounts \union {n}
  BY <1>1 DEF Accounts
<1>3. [name |-> f.name, email |-> f.email, role |-> role, blocked |-> FALSE] \in Account
  BY DEF Form, Account
<1>4. account' \in [Accounts' -> Account]
  BY <1>1, <1>2, <1>3 DEF TypeOK
<1>5. QED
  BY <1>1, <1>2, <1>4

\* The constraints carry over to an account that they allow.
LEMMA AllowedUnique ==
  ASSUME TypeOK, NEW f \in Form, NEW role \in Role,
         CreateAccount(f, role), Allowed(f), unique, Unique
  PROVE  Unique'
<1>1. PICK n \in Node \ Accounts :
        /\ Accounts' = Accounts \union {n}
        /\ account'[n] = [name |-> f.name, email |-> f.email,
                          role |-> role, blocked |-> FALSE]
        /\ \A m \in Accounts : account'[m] = account[m]
  BY Creating
<1>2. account'[n].name = f.name /\ account'[n].email = f.email
  BY <1>1
<1>3. QED
  BY <1>1, <1>2 DEF Unique, Allowed

-------------------------------------------------------------------------------
(* The invariant, step by step.                                              *)

LEMMA StartupInv ==
  ASSUME AccInv, Startup \/ Crash
  PROVE  AccInv'
<1> USE DEF AccInv
<1>1. CASE Start \/ SeedFails
  BY <1>1 DEF Start, SeedFails, dbVars, TypeOK, Served, Unique, Found, Profiled,
              OneProfile, Fresh, Accounts, At, Subject
<1>2. CASE Seed
  <2>1. /\ server = "seed" /\ server' = "constrain"
        /\ UNCHANGED <<unique, profiles, tokens, call>>
    BY <1>2 DEF Seed
  <2>2. \A c \in Call : call[c] = Idle
    BY <2>1 DEF Served
  <2>3. \A c \in Call : ~At(c, "token") /\ ~At(c, "profile")
    BY <2>2 DEF At, Idle
  <2>4. CASE Allowed(Admin) /\ CreateAccount(Admin, "admin")
    <3>1. Admin \in Form /\ "admin" \in Role
      BY AdminAssumption DEF Admin, Form, Role
    <3>2. PICK n \in Node \ Accounts :
            /\ Accounts' = Accounts \union {n}
            /\ account' \in [Accounts' -> Account]
      BY <2>4, <3>1, Creating
    <3>3. unique => Unique'
      BY <2>4, <3>1, AllowedUnique DEF Served
    <3>4. TypeOK'
      BY <2>1, <3>2 DEF TypeOK
    <3>5. Served'
      BY <2>1, <2>2, <3>3 DEF Served
    <3>6. Found' /\ Profiled'
      BY <2>1, <2>3, <3>2 DEF Found, Profiled, OneProfile, At
    <3>7. QED
      BY <3>4, <3>5, <3>6
  <2>5. CASE UNCHANGED account
    BY <2>1, <2>3, <2>5 DEF TypeOK, Served, Unique, Found, Profiled, OneProfile, Accounts, At
  <2>6. QED
    BY <1>2, <2>4, <2>5 DEF Seed
<1>3. CASE Constrain
  <2>1. /\ unique' = Unique /\ unique' \in BOOLEAN
        /\ server' = IF Unique THEN "up" ELSE "down"
        /\ server = "constrain"
        /\ UNCHANGED <<account, profiles, tokens, call>>
    BY <1>3 DEF Constrain, Unique
  <2>2. Unique' <=> Unique
    BY <2>1 DEF Unique, Accounts
  <2>3. TypeOK'
    BY <2>1 DEF TypeOK, Accounts
  <2>4. Served'
    BY <2>1, <2>2 DEF Served
  <2>5. Found' /\ Profiled'
    BY <2>1 DEF Found, Profiled, OneProfile, Fresh, Accounts, At, Subject
  <2>6. QED
    BY <2>3, <2>4, <2>5
<1>4. CASE Crash
  <2>1. /\ server' = "down"
        /\ call' = [c \in Call |-> Idle]
        /\ UNCHANGED <<unique, account, profiles, tokens>>
    BY <1>4 DEF Crash, dbVars
  <2>2. \A c \in Call : ~At(c, "token")' /\ ~At(c, "profile")'
    BY <2>1 DEF At, Idle
  <2>3. call' \in [Call -> CallState]
    BY <2>1 DEF CallState
  <2>4. QED
    BY <2>1, <2>2, <2>3 DEF TypeOK, Served, Unique, Found, Profiled, OneProfile, Accounts
<1>5. QED
  BY <1>1, <1>2, <1>3, <1>4 DEF Startup

\* A step of a request that leaves accounts and profiles alone and does not come
\* to creating a profile.
LEMMA QuietInv ==
  ASSUME AccInv, NEW c \in Call,
         UNCHANGED <<server, unique, account, profiles>>,
         tokens' \subseteq Token,
         server = "up",
         call' \in [Call -> CallState],
         \A d \in Call \ {c} : call'[d] = call[d],
         call'[c].at # "profile",
         call'[c].at = "token" => call'[c].of \in Accounts
  PROVE  AccInv'
<1> USE DEF AccInv
<1>1. TypeOK'
  BY DEF TypeOK, Accounts
<1>2. Served'
  BY DEF Served, Unique, Accounts
<1>3. Found'
  BY DEF Found, At, Subject, Accounts
<1>4. Profiled'
  BY DEF Profiled, OneProfile, Fresh, At, Subject, Accounts
<1>5. QED
  BY <1>1, <1>2, <1>3, <1>4

\* A request in progress means that the server is up and the constraints hold.
LEMMA Busy ==
  ASSUME AccInv, NEW c \in Call, ~At(c, "idle")
  PROVE  server = "up" /\ unique /\ Unique
BY CallForms DEF AccInv, Served

LEMMA RegisterCreateInv ==
  ASSUME AccInv, NEW c \in Call, RegisterCreate(c)
  PROVE  AccInv'
<1> USE DEF AccInv
<1>1. /\ At(c, "create") /\ ~At(c, "idle")
      /\ UNCHANGED <<server, unique, profiles, tokens>>
  BY DEF RegisterCreate, At
<1>2. server = "up" /\ unique /\ Unique
  BY <1>1, Busy
<1>3. Subject(c) \in Form
  BY <1>1, CallForms
<1>4. CASE /\ Allowed(Subject(c)) /\ CreateAccount(Subject(c), "user")
           /\ Goto(c, "profile", Subject(c))
  <2> DEFINE f == Subject(c)
  <2>1. "user" \in Role
    BY DEF Role
  <2>2. PICK n \in Node \ Accounts :
          /\ Accounts' = Accounts \union {n}
          /\ account' \in [Accounts' -> Account]
          /\ account'[n] = [name |-> f.name, email |-> f.email,
                            role |-> "user", blocked |-> FALSE]
          /\ \A m \in Accounts : account'[m] = account[m]
    BY <1>3, <1>4, <2>1, Creating
  <2>3. account'[n].name = f.name
    BY <2>2
  <2>4. Unique'
    BY <1>2, <1>3, <1>4, <2>1, AllowedUnique
  <2>5. [at |-> "profile", of |-> f] \in CallState
    BY <1>3 DEF CallState
  <2>6. /\ call' \in [Call -> CallState]
        /\ call'[c] = [at |-> "profile", of |-> f]
        /\ \A d \in Call \ {c} : call'[d] = call[d]
    BY <1>4, <2>5, Going
  <2>7. TypeOK'
    BY <1>1, <2>2, <2>6 DEF TypeOK
  <2>8. Served'
    BY <1>1, <1>2, <2>4, <2>6 DEF Served
  <2>9. call'[c].at = "profile" /\ call'[c].of = f
    BY <2>6
  <2>10. Found'
    BY <2>2, <2>6, <2>9 DEF Found, At, Subject
  <2>11. \A m \in Accounts : account[m].name # f.name
    BY <1>2, <1>4 DEF Allowed
  <2>12. profiles[n] = 0
    BY <2>2 DEF Profiled
  <2>13. ASSUME NEW d \in Call \ {c}, At(d, "profile")
         PROVE  Subject(d).name # f.name
    BY <2>11, <2>13 DEF Profiled, Fresh
  <2>14. Fresh(c)'
    BY <1>1, <2>2, <2>3, <2>6, <2>9, <2>11, <2>12, <2>13 DEF Fresh, At, Subject
  <2>15. ASSUME NEW d \in Call \ {c}, At(d, "profile")'
         PROVE  Fresh(d)'
    <3>1. At(d, "profile") /\ Subject(d)' = Subject(d)
      BY <2>6, <2>15 DEF At, Subject
    <3>2. Fresh(d)
      BY <3>1 DEF Profiled
    <3>3. Subject(d).name # f.name
      BY <3>1, <2>13
    <3>4. \E m \in Accounts' : account'[m].name = Subject(d).name
      BY <3>2, <2>2 DEF Fresh
    <3>5. \A m \in Accounts' : account'[m].name = Subject(d).name => profiles[m] = 0
      BY <3>2, <3>3, <2>2, <2>3 DEF Fresh
    <3>6. \A x \in Call \ {d} : At(x, "profile")' => Subject(x)'.name # Subject(d).name
      BY <3>2, <3>3, <2>6, <2>9 DEF Fresh, At, Subject
    <3>7. QED
      BY <1>1, <3>1, <3>4, <3>5, <3>6 DEF Fresh
  <2>16. Profiled'
    BY <1>1, <2>2, <2>14, <2>15 DEF Profiled, OneProfile
  <2>17. QED
    BY <2>7, <2>8, <2>10, <2>16
<1>5. CASE UNCHANGED account /\ End(c)
  <2>1. /\ call' \in [Call -> CallState] /\ call'[c] = Idle
        /\ \A d \in Call \ {c} : call'[d] = call[d]
    BY <1>5, Ending
  <2>2. QED
    BY <1>1, <1>2, <1>5, <2>1, QuietInv DEF Idle, TypeOK
<1>6. QED
  BY <1>4, <1>5 DEF RegisterCreate

LEMMA RegisterProfileInv ==
  ASSUME AccInv, NEW c \in Call, RegisterProfile(c)
  PROVE  AccInv'
<1> USE DEF AccInv
<1> DEFINE f == Subject(c)
<1>1. /\ At(c, "profile") /\ ~At(c, "idle")
      /\ profiles' = [n \in Node |->
           IF n \in Accounts /\ account[n].name = f.name THEN profiles[n] + 1 ELSE profiles[n]]
      /\ UNCHANGED <<server, unique, account, tokens>>
      /\ End(c)
  BY DEF RegisterProfile, At
<1>2. server = "up"
  BY <1>1, Busy
<1>3. /\ call' \in [Call -> CallState] /\ call'[c] = Idle
      /\ \A d \in Call \ {c} : call'[d] = call[d]
  BY <1>1, Ending
<1>4. Fresh(c)
  BY <1>1 DEF Profiled
<1>5. Accounts' = Accounts
  BY <1>1 DEF Accounts
<1>6. \A n \in Node : /\ profiles[n] \in Nat /\ profiles[n] <= 1
                      /\ n \notin Accounts => profiles[n] = 0
  BY DEF TypeOK, Profiled, OneProfile
<1>7. \A n \in Accounts : account[n].name = f.name => profiles[n] = 0
  BY <1>4 DEF Fresh
<1>8. profiles' \in [Node -> Nat] /\ \A n \in Node : profiles'[n] <= 1
  <2> DEFINE new(n) == IF n \in Accounts /\ account[n].name = f.name
                       THEN profiles[n] + 1 ELSE profiles[n]
  <2>1. profiles' = [n \in Node |-> new(n)]
    BY <1>1
  <2>2. \A n \in Node : new(n) \in Nat /\ new(n) <= 1
    BY <1>6, <1>7
  <2> HIDE DEF new
  <2>3. QED
    BY <2>1, <2>2
<1>9. TypeOK'
  BY <1>1, <1>3, <1>5, <1>8 DEF TypeOK
<1>10. Served'
  BY <1>1, <1>2, <1>3, <1>5 DEF Served, Unique
<1>11. Found'
  BY <1>1, <1>3, <1>5 DEF Found, At, Subject, Idle
<1>12. ASSUME NEW d \in Call, At(d, "profile")'
       PROVE  Fresh(d)'
  <2>1. d # c /\ At(d, "profile") /\ Subject(d)' = Subject(d)
    BY <1>3, <1>12 DEF At, Subject, Idle
  <2>2. Fresh(d) /\ Subject(d).name # f.name
    BY <1>4, <2>1 DEF Profiled, Fresh
  <2>3. \A n \in Accounts : account[n].name = Subject(d).name => profiles'[n] = 0
    <3>1. Accounts \subseteq Node
      BY DEF TypeOK
    <3>2. QED
      BY <1>1, <2>2, <3>1 DEF Fresh
  <2>4. \A x \in Call \ {d} : At(x, "profile")' => Subject(x)'.name # Subject(d).name
    BY <1>3, <2>2 DEF Fresh, At, Subject, Idle
  <2>5. QED
    BY <1>1, <1>5, <2>1, <2>2, <2>3, <2>4 DEF Fresh
<1>13. ASSUME NEW n \in Node \ Accounts
       PROVE  profiles'[n] = 0
  <2>1. profiles'[n] = profiles[n]
    BY <1>1
  <2>2. QED
    BY <1>6, <2>1
<1>14. Profiled'
  BY <1>5, <1>8, <1>12, <1>13 DEF Profiled, OneProfile
<1>15. QED
  BY <1>9, <1>10, <1>11, <1>14

\* The steps that only read, issue a token or end the request.
LEMMA QuietSteps ==
  ASSUME AccInv, NEW c \in Call,
         \/ RegisterCheck(c) \/ LoginRead(c) \/ LoginIssue(c)
         \/ BlockRead(c) \/ Fail(c)
  PROVE  AccInv'
<1> USE DEF AccInv
<1>1. Accounts \subseteq Node /\ tokens \subseteq Token
  BY DEF TypeOK
<1>2. CASE RegisterCheck(c)
  <2>1. PICK f \in Form : Goto(c, "create", f)
    BY <1>2 DEF RegisterCheck
  <2>2. [at |-> "create", of |-> f] \in CallState
    BY DEF CallState
  <2>3. QED
    BY <1>1, <1>2, <2>1, <2>2, Going, QuietInv DEF RegisterCheck, dbVars
<1>3. CASE LoginRead(c)
  <2>1. PICK n \in Accounts : Goto(c, "token", n)
    BY <1>3 DEF LoginRead
  <2>2. [at |-> "token", of |-> n] \in CallState
    BY <1>1 DEF CallState
  <2>3. QED
    BY <1>1, <1>3, <2>1, <2>2, Going, QuietInv DEF LoginRead, dbVars
<1>4. CASE BlockRead(c)
  <2>1. PICK x \in Name : Goto(c, "block", x)
    BY <1>4 DEF BlockRead
  <2>2. [at |-> "block", of |-> x] \in CallState
    BY DEF CallState
  <2>3. QED
    BY <1>1, <1>4, <2>1, <2>2, Going, QuietInv DEF BlockRead, dbVars
<1>5. ASSUME ~At(c, "idle"), End(c), UNCHANGED <<server, unique, account, profiles>>,
             tokens' \subseteq Token
      PROVE  AccInv'
  <2>1. server = "up"
    BY <1>5, Busy
  <2>2. /\ call' \in [Call -> CallState] /\ call'[c] = Idle
        /\ \A d \in Call \ {c} : call'[d] = call[d]
    BY <1>5, Ending
  <2>3. QED
    BY <1>5, <2>1, <2>2, QuietInv DEF Idle
<1>6. CASE Fail(c)
  BY <1>1, <1>5, <1>6 DEF Fail, dbVars
<1>7. CASE LoginIssue(c)
  <2>1. ~At(c, "idle") /\ Subject(c) \in Accounts
    BY <1>7 DEF LoginIssue, At, Found
  <2>2. TokenOf(Subject(c)) \in Token
    BY <2>1 DEF TypeOK, TokenOf, Token, Account
  <2>3. QED
    BY <1>1, <1>5, <1>7, <2>1, <2>2 DEF LoginIssue, dbVars
<1>8. QED
  BY <1>2, <1>3, <1>4, <1>6, <1>7

\* BlockAccount changes no name and no email.
LEMMA BlockWriteKeeps ==
  ASSUME TypeOK, NEW c \in Call, BlockWrite(c)
  PROVE  /\ Accounts' = Accounts /\ account' \in [Accounts -> Account]
         /\ \A n \in Accounts : /\ account'[n].name = account[n].name
                                /\ account'[n].email = account[n].email
                                /\ account'[n].role = account[n].role
                                /\ account[n].blocked => account'[n].blocked
<1>1. account' = [n \in Accounts |->
        IF n \in SameName(Subject(c)) THEN [account[n] EXCEPT !.blocked = TRUE]
        ELSE account[n]]
  BY DEF BlockWrite
<1>2. Accounts' = Accounts
  BY <1>1 DEF Accounts
<1>3. \A n \in Accounts : account[n] \in Account
  BY DEF TypeOK
<1>4. \A n \in Accounts : account'[n] \in Account
  BY <1>1, <1>3 DEF Account
<1>5. QED
  BY <1>1, <1>2, <1>3, <1>4 DEF Account

LEMMA BlockWriteInv ==
  ASSUME AccInv, NEW c \in Call, BlockWrite(c)
  PROVE  AccInv'
<1> USE DEF AccInv
<1>1. /\ ~At(c, "idle") /\ End(c)
      /\ UNCHANGED <<server, unique, profiles, tokens>>
  BY DEF BlockWrite, At
<1>2. server = "up" /\ unique /\ Unique
  BY <1>1, Busy
<1>3. /\ call' \in [Call -> CallState] /\ call'[c] = Idle
      /\ \A d \in Call \ {c} : call'[d] = call[d]
  BY <1>1, Ending
<1>4. /\ Accounts' = Accounts /\ account' \in [Accounts -> Account]
      /\ \A n \in Accounts : /\ account'[n].name = account[n].name
                             /\ account'[n].email = account[n].email
  BY BlockWriteKeeps
<1>5. TypeOK'
  BY <1>1, <1>3, <1>4 DEF TypeOK
<1>6. Served'
  BY <1>1, <1>2, <1>3, <1>4 DEF Served, Unique
<1>7. Found'
  BY <1>3, <1>4 DEF Found, At, Subject, Idle
<1>8. Profiled'
  BY <1>1, <1>3, <1>4 DEF Profiled, OneProfile, Fresh, At, Subject, Idle
<1>9. QED
  BY <1>5, <1>6, <1>7, <1>8

LEMMA NextInv ==
  ASSUME AccInv, [Next]_vars
  PROVE  AccInv'
<1>1. CASE UNCHANGED vars
  BY <1>1 DEF AccInv, vars, dbVars, TypeOK, Served, Unique, Found, Profiled,
              OneProfile, Fresh, Accounts, At, Subject
<1>2. CASE Startup \/ Crash
  BY <1>2, StartupInv
<1>3. CASE Expire
  BY <1>3 DEF Expire, AccInv, dbVars, TypeOK, Served, Unique, Found, Profiled,
              OneProfile, Fresh, Accounts, At, Subject
<1>4. ASSUME NEW c \in Call, Handle(c)
      PROVE  AccInv'
  BY <1>4, RegisterCreateInv, RegisterProfileInv, QuietSteps, BlockWriteInv DEF Handle
<1>5. QED
  BY <1>1, <1>2, <1>3, <1>4 DEF Next

\* What a registration in progress knows, and that serving means unique names.
THEOREM AccountsKept == Spec => []AccInv
<1>1. Init => AccInv
  <2> SUFFICES ASSUME Init PROVE AccInv
    OBVIOUS
  <2>1. Accounts = {} /\ account \in [Accounts -> Account]
    BY DEF Init, Accounts
  <2>2. call \in [Call -> CallState]
    BY DEF Init, CallState
  <2>3. \A c \in Call : call[c] = Idle /\ ~At(c, "token") /\ ~At(c, "profile")
    BY DEF Init, Idle, At
  <2>4. TypeOK
    BY <2>1, <2>2 DEF Init, TypeOK
  <2>5. Served /\ Found /\ Profiled
    BY <2>1, <2>3 DEF Init, Served, Found, Profiled, OneProfile
  <2>6. QED
    BY <2>4, <2>5 DEF AccInv
<1>2. AccInv /\ [Next]_vars => AccInv'
  BY NextInv
<1>3. QED
  BY <1>1, <1>2, PTL DEF Spec

\* Accounts, tokens and requests keep their types.
THEOREM AccountTyping == Spec => []TypeOK
<1>1. AccInv => TypeOK
  BY DEF AccInv
<1>2. QED
  BY <1>1, AccountsKept, PTL

\* Names and emails are unique whenever requests are served.
THEOREM UniqueWhenServed == Spec => []ServedUnique
<1>1. AccInv => ServedUnique
  BY DEF AccInv, Served, ServedUnique
<1>2. QED
  BY <1>1, AccountsKept, PTL

\* However registrations overlap and fail, no account has two profiles.
THEOREM ProfileOnce == Spec => []OneProfile
<1>1. AccInv => OneProfile
  BY DEF AccInv, Profiled
<1>2. QED
  BY <1>1, AccountsKept, PTL

-------------------------------------------------------------------------------
(* Blocked accounts.                                                         *)

\* A step keeps a locked out account locked out.
LEMMA OutStep ==
  ASSUME AccInv, Next, NEW n \in Node, LockedOut(n)
  PROVE  LockedOut(n)'
<1> USE DEF AccInv
<1>1. /\ n \in Accounts /\ account[n].blocked
      /\ TokenOf(n) \notin tokens
      /\ \A c \in Call : At(c, "token") => Subject(c) # n
  BY DEF LockedOut
\* It suffices that the account keeps its properties and that nothing comes its way.
<1>2. ASSUME n \in Accounts', account'[n].blocked, TokenOf(n)' = TokenOf(n),
             TokenOf(n) \notin tokens',
             \A c \in Call : At(c, "token")' => Subject(c)' # n
      PROVE  LockedOut(n)'
  BY <1>2 DEF LockedOut
<1>3. ASSUME NEW f \in Form, NEW role \in Role, CreateAccount(f, role)
      PROVE  n \in Accounts' /\ account'[n] = account[n]
  BY <1>1, <1>3, Creating
<1>4. CASE Startup
  <2>1. UNCHANGED <<tokens, call>>
    BY <1>4 DEF Startup, Start, Seed, SeedFails, Constrain
  <2>2. Admin \in Form /\ "admin" \in Role
    BY AdminAssumption DEF Admin, Form, Role
  <2>3. n \in Accounts' /\ account'[n] = account[n]
    BY <1>1, <1>3, <1>4, <2>2
       DEF Startup, Start, Seed, SeedFails, Constrain, dbVars, Accounts
  <2>4. QED
    BY <1>1, <1>2, <2>1, <2>3 DEF TokenOf, At, Subject
<1>5. CASE Crash
  BY <1>1, <1>2, <1>5 DEF Crash, dbVars, TokenOf, Accounts, At, Subject, Idle
<1>6. CASE Expire
  BY <1>1, <1>2, <1>6 DEF Expire, dbVars, TokenOf, Accounts, At, Subject
<1>7. ASSUME NEW c \in Call, Handle(c)
      PROVE  LockedOut(n)'
  \* What holds of the steps that end or go on to anything but a token.
  <2>1. ASSUME n \in Accounts', account'[n].blocked, TokenOf(n)' = TokenOf(n),
               TokenOf(n) \notin tokens',
               \A d \in Call \ {c} : call'[d] = call[d],
               call'[c].at # "token" \/ call'[c].of # n
        PROVE  LockedOut(n)'
    <3>1. \A d \in Call : At(d, "token")' => Subject(d)' # n
      BY <1>1, <2>1 DEF At, Subject
    <3>2. QED
      BY <1>2, <2>1, <3>1
  <2>2. CASE RegisterCheck(c)
    <3>1. PICK f \in Form : Goto(c, "create", f)
      BY <2>2 DEF RegisterCheck
    <3>2. [at |-> "create", of |-> f] \in CallState
      BY DEF CallState
    <3>3. QED
      BY <1>1, <2>1, <2>2, <3>1, <3>2, Going DEF RegisterCheck, dbVars, TokenOf, Accounts
  <2>3. CASE RegisterCreate(c)
    <3>1. Subject(c) \in Form /\ "user" \in Role
      BY <2>3, CallForms DEF RegisterCreate, Role
    <3>2. n \in Accounts' /\ account'[n] = account[n]
      BY <1>1, <1>3, <2>3, <3>1 DEF RegisterCreate, Accounts
    <3>3. \/ Goto(c, "profile", Subject(c)) \/ End(c)
      BY <2>3 DEF RegisterCreate
    <3>4. [at |-> "profile", of |-> Subject(c)] \in CallState
      BY <3>1 DEF CallState
    <3>5. /\ \A d \in Call \ {c} : call'[d] = call[d]
          /\ call'[c].at # "token"
      BY <3>3, <3>4, Going, Ending DEF Idle
    <3>6. tokens' = tokens
      BY <2>3 DEF RegisterCreate
    <3>7. QED
      BY <1>1, <2>1, <3>2, <3>5, <3>6 DEF TokenOf
  <2>4. CASE RegisterProfile(c) \/ Fail(c)
    <3>1. End(c) /\ UNCHANGED <<account, tokens>>
      BY <2>4 DEF RegisterProfile, Fail, dbVars
    <3>2. QED
      BY <1>1, <2>1, <3>1, Ending DEF Idle, TokenOf, Accounts
  <2>5. CASE LoginRead(c)
    <3>1. PICK m \in Accounts : ~account[m].blocked /\ Goto(c, "token", m)
      BY <2>5 DEF LoginRead
    <3>2. [at |-> "token", of |-> m] \in CallState /\ m # n
      BY <1>1, <3>1 DEF CallState, TypeOK
    <3>3. QED
      BY <1>1, <2>1, <2>5, <3>1, <3>2, Going DEF LoginRead, dbVars, TokenOf, Accounts
  <2>6. CASE LoginIssue(c)
    <3>1. At(c, "token") /\ Subject(c) \in Accounts /\ Subject(c) # n
      BY <1>1, <2>6 DEF LoginIssue, Found
    <3>2. Unique
      BY <3>1, Busy DEF At
    <3>3. TokenOf(Subject(c)) # TokenOf(n)
      BY <1>1, <3>1, <3>2 DEF Unique, TokenOf
    <3>4. End(c) /\ UNCHANGED account /\ tokens' = tokens \union {TokenOf(Subject(c))}
      BY <2>6 DEF LoginIssue, dbVars
    <3>5. QED
      BY <1>1, <2>1, <3>3, <3>4, Ending DEF Idle, TokenOf, Accounts
  <2>7. CASE BlockRead(c)
    <3>1. PICK x \in Name : Goto(c, "block", x)
      BY <2>7 DEF BlockRead
    <3>2. [at |-> "block", of |-> x] \in CallState
      BY DEF CallState
    <3>3. QED
      BY <1>1, <2>1, <2>7, <3>1, <3>2, Going DEF BlockRead, dbVars, TokenOf, Accounts
  <2>8. CASE BlockWrite(c)
    <3>1. End(c) /\ UNCHANGED tokens
      BY <2>8 DEF BlockWrite
    <3>2. /\ n \in Accounts' /\ account'[n].blocked
          /\ account'[n].name = account[n].name /\ account'[n].role = account[n].role
      BY <1>1, <2>8, BlockWriteKeeps
    <3>3. QED
      BY <1>1, <2>1, <3>1, <3>2, Ending DEF Idle, TokenOf
  <2>9. QED
    BY <1>7, <2>2, <2>3, <2>4, <2>5, <2>6, <2>7, <2>8 DEF Handle
<1>8. QED
  BY <1>4, <1>5, <1>6, <1>7 DEF Next

\* A blocked account without a token and a login on its way stays out for good.
THEOREM OutForGood == Spec => StaysLockedOut
<1>1. AccInv /\ [Next]_vars => [\A n \in Node : LockedOut(n) => LockedOut(n)']_vars
  BY OutStep
<1>2. QED
  BY <1>1, AccountsKept, PTL DEF Spec, StaysLockedOut

-------------------------------------------------------------------------------
(* While starts run to their end, with the history of MCAccounts: the admin  *)
(* has the name before the first request is served.                          *)

mcVars == <<vars, overlapped, disturbed>>

\* Behaviours with the history are behaviours of the service.
LEMMA HistoryOnly == MCSpec => Spec
<1>1. MCInit => Init
  BY DEF MCInit
<1>2. [MCNext]_mcVars => [Next]_vars
  BY DEF MCNext, mcVars
<1>3. QED
  BY <1>1, <1>2, PTL DEF MCSpec, Spec, mcVars

HasAdminName(x) == Fold[x] = Fold[AdminName]

\* Accounts come and change in three ways only.
LEMMA AccountChanges ==
  ASSUME AccInv, Next
  PROVE  \/ UNCHANGED account
         \/ server = "seed" /\ server' = "constrain" /\ Allowed(Admin) /\ CreateAccount(Admin, "admin")
         \/ \E c \in Call : RegisterCreate(c) /\ CreateAccount(Subject(c), "user")
         \/ \E c \in Call : BlockWrite(c)
<1>1. Startup => \/ UNCHANGED account
                 \/ server = "seed" /\ server' = "constrain" /\ Allowed(Admin) /\ CreateAccount(Admin, "admin")
  BY DEF Startup, Start, Seed, SeedFails, Constrain, dbVars
<1>2. Crash \/ Expire => UNCHANGED account
  BY DEF Crash, Expire, dbVars
<1>3. ASSUME NEW c \in Call, Handle(c)
      PROVE  \/ UNCHANGED account
             \/ RegisterCreate(c) /\ CreateAccount(Subject(c), "user")
             \/ BlockWrite(c)
  <2>1. RegisterCreate(c) => UNCHANGED account \/ CreateAccount(Subject(c), "user")
    BY DEF RegisterCreate
  <2>2. QED
    BY <1>3, <2>1 DEF Handle, RegisterCheck, RegisterProfile, LoginRead, LoginIssue, BlockRead, Fail, dbVars
<1>4. QED
  BY <1>1, <1>2, <1>3 DEF Next

\* A request goes on by a step of its own, or ends.
LEMMA CallChanges ==
  ASSUME AccInv, Next, NEW c \in Call
  PROVE  \/ call'[c] = call[c]
         \/ call'[c] = Idle
         \/ RegisterCheck(c) \/ LoginRead(c) \/ BlockRead(c)
         \/ call'[c].at = "profile" /\ call[c] # Idle
<1> USE DEF AccInv
<1>1. Startup \/ Expire => call'[c] = call[c]
  BY DEF Startup, Start, Seed, SeedFails, Constrain, Expire
<1>2. Crash => call'[c] = Idle
  BY DEF Crash
<1>3. ASSUME NEW d \in Call, Handle(d)
      PROVE  \/ call'[c] = call[c]
             \/ call'[c] = Idle
             \/ RegisterCheck(c) \/ LoginRead(c) \/ BlockRead(c)
             \/ call'[c].at = "profile" /\ call[c] # Idle
  <2>1. ASSUME End(d)  PROVE call'[c] = call[c] \/ call'[c] = Idle
    BY <2>1, Ending
  <2>2. ASSUME NEW step, NEW x, Goto(d, step, x), d # c  PROVE call'[c] = call[c]
    BY <2>2 DEF Goto, TypeOK
  <2>3. CASE RegisterCheck(d) \/ LoginRead(d) \/ BlockRead(d)
    BY <2>2, <2>3 DEF RegisterCheck, LoginRead, BlockRead
  <2>4. CASE RegisterCreate(d) /\ Goto(d, "profile", Subject(d))
    <3>1. call[d] # Idle
      BY <2>4 DEF RegisterCreate, At, Idle
    <3>2. d = c => call'[c].at = "profile"
      BY <2>4 DEF Goto, TypeOK
    <3>3. QED
      BY <2>2, <2>4, <3>1, <3>2
  <2>5. QED
    BY <1>3, <2>1, <2>3, <2>4
    DEF Handle, RegisterCreate, RegisterProfile, LoginIssue, BlockWrite, Fail
<1>4. QED
  BY <1>1, <1>2, <1>3 DEF Next

Named == {account[n].name : n \in Accounts}

\* The admin has the name, and nobody who registers or is blocked shares it.
AdminFirst ==
  /\ unique \/ server = "constrain" \/ (server \in {"down", "seed"} /\ Accounts = {})
  /\ unique \/ server = "constrain" => AdminName \in Named
  /\ \A n \in Accounts : account[n].role = "admin" <=> HasAdminName(account[n].name)
  /\ \A c \in Call : At(c, "create") => ~HasAdminName(Subject(c).name)
  /\ \A c \in Call : At(c, "block") => ~HasAdminName(Subject(c))
  /\ AdminNotBlocked

\* No account is ever removed or renamed.
LEMMA AccountsStay ==
  ASSUME AccInv, Next, NEW n \in Accounts
  PROVE  n \in Accounts' /\ account'[n].name = account[n].name /\ account'[n].role = account[n].role
<1> USE DEF AccInv
<1>1. CASE UNCHANGED account
  BY <1>1 DEF Accounts
<1>2. ASSUME NEW f \in Form, NEW role \in Role, CreateAccount(f, role)
      PROVE  n \in Accounts' /\ account'[n] = account[n]
  BY <1>2, Creating
<1>3. Admin \in Form /\ {"admin", "user"} \subseteq Role
  BY AdminAssumption DEF Admin, Form, Role
<1>4. \A c \in Call : RegisterCreate(c) => Subject(c) \in Form
  BY CallForms DEF RegisterCreate
<1>5. QED
  BY <1>1, <1>2, <1>3, <1>4, AccountChanges, BlockWriteKeeps

LEMMA StepOfStart ==
  ASSUME AccInv, AdminFirst, MCNext, ~disturbed'
  PROVE  /\ unique' \/ server' = "constrain" \/ (server' \in {"down", "seed"} /\ Accounts' = {})
         /\ unique' \/ server' = "constrain" => AdminName \in Named'
<1>1. Next
  BY DEF MCNext
<1>2. /\ server = "seed" => AdminName \in Named'
      /\ ~(server \in {"seed", "constrain"} /\ server' = "down")
  BY DEF MCNext, Named
<1>3. AdminName \in Named => AdminName \in Named'
  BY <1>1, AccountsStay DEF Named
<1>4. CASE Start
  BY <1>3, <1>4 DEF Start, dbVars, AdminFirst, Accounts
<1>5. CASE Seed \/ SeedFails
  BY <1>2, <1>5 DEF Seed, SeedFails
<1>6. CASE Constrain
  BY <1>2, <1>3, <1>6 DEF Constrain, AdminFirst
<1>7. CASE Crash
  <2>1. server = "up" /\ UNCHANGED dbVars
    BY <1>2, <1>7 DEF Crash, AccInv, TypeOK
  <2>2. QED
    BY <1>3, <2>1 DEF dbVars, AccInv, Served, AdminFirst
<1>8. CASE Expire
  BY <1>3, <1>8 DEF Expire, dbVars, AdminFirst, Accounts
<1>9. ASSUME NEW c \in Call, Handle(c)
      PROVE  unique /\ unique'
  <2>1. server = "up" /\ UNCHANGED unique
    BY <1>9, Busy DEF Handle, RegisterCheck, RegisterCreate, RegisterProfile, LoginRead, LoginIssue,
                      BlockRead, BlockWrite, Fail, dbVars, At
  <2>2. QED
    BY <2>1 DEF AccInv, Served
<1>10. QED
  BY <1>1, <1>3, <1>4, <1>5, <1>6, <1>7, <1>8, <1>9 DEF Next, Startup, AdminFirst

\* A new account is the admin's or has another name.
LEMMA RolesStep ==
  ASSUME AccInv, AdminFirst, Next
  PROVE  /\ \A n \in Accounts' : account'[n].role = "admin" <=> HasAdminName(account'[n].name)
         /\ AdminNotBlocked'
<1> USE DEF AccInv
<1>1. CASE UNCHANGED account
  BY <1>1 DEF AdminFirst, AdminNotBlocked, Accounts
<1>2. ASSUME NEW f \in Form, NEW role \in Role, CreateAccount(f, role),
             role = "admin" <=> HasAdminName(f.name)
      PROVE  /\ \A n \in Accounts' : account'[n].role = "admin" <=> HasAdminName(account'[n].name)
             /\ AdminNotBlocked'
  <2>1. PICK n \in Node \ Accounts :
           /\ Accounts' = Accounts \union {n}
           /\ account'[n] = [name |-> f.name, email |-> f.email, role |-> role, blocked |-> FALSE]
           /\ \A m \in Accounts : account'[m] = account[m]
    BY <1>2, Creating
  <2>2. account'[n].name = f.name /\ account'[n].role = role /\ account'[n].blocked = FALSE
    BY <2>1
  <2>3. QED
    BY <1>2, <2>1, <2>2 DEF AdminFirst, AdminNotBlocked
<1>3. Admin \in Form /\ {"admin", "user"} \subseteq Role /\ HasAdminName(Admin.name)
  BY AdminAssumption DEF Admin, Form, Role, HasAdminName
<1>4. \A c \in Call : RegisterCreate(c) => Subject(c) \in Form /\ ~HasAdminName(Subject(c).name)
  BY CallForms DEF RegisterCreate, AdminFirst
<1>5. ASSUME NEW c \in Call, BlockWrite(c)
      PROVE  /\ \A n \in Accounts' : account'[n].role = "admin" <=> HasAdminName(account'[n].name)
             /\ AdminNotBlocked'
  <2>1. /\ Accounts' = Accounts
        /\ \A n \in Accounts : account'[n].name = account[n].name /\ account'[n].role = account[n].role
    BY <1>5, BlockWriteKeeps
  <2>2. ASSUME NEW n \in Accounts, HasAdminName(account[n].name)
        PROVE  account'[n] = account[n]
    BY <1>5, <2>2 DEF BlockWrite, SameName, HasAdminName, AdminFirst
  <2>3. QED
    BY <2>1, <2>2 DEF AdminFirst, AdminNotBlocked
<1>6. QED
  BY <1>1, <1>2, <1>3, <1>4, <1>5, AccountChanges

\* Who registers or is blocked was compared with the admin's account.
LEMMA NamesStep ==
  ASSUME AccInv, AdminFirst, Next, NEW c \in Call
  PROVE  /\ At(c, "create")' => ~HasAdminName(Subject(c)'.name)
         /\ At(c, "block")' => ~HasAdminName(Subject(c)')
<1> USE DEF AccInv
<1>1. CASE call'[c] = call[c]
  BY <1>1 DEF At, Subject, AdminFirst
<1>2. CASE call'[c] = Idle \/ call'[c].at = "profile"
  BY <1>2 DEF At, Idle
<1>3. CASE RegisterCheck(c)
  <2>1. PICK f \in Form : SameName(f.name) = {} /\ Goto(c, "create", f) /\ server = "up"
    BY <1>3 DEF RegisterCheck
  <2>2. PICK n \in Accounts : account[n].name = AdminName
    BY <2>1 DEF Served, AdminFirst, Named
  <2>3. ~HasAdminName(f.name)
    BY <2>1, <2>2 DEF SameName, HasAdminName
  <2>4. call'[c] = [at |-> "create", of |-> f]
    BY <2>1 DEF Goto, TypeOK
  <2>5. QED
    BY <2>3, <2>4 DEF At, Subject
<1>4. CASE BlockRead(c)
  <2>1. PICK x \in Name : (\E n \in SameName(x) : account[n].role # "admin") /\ Goto(c, "block", x)
    BY <1>4 DEF BlockRead
  <2>2. ~HasAdminName(x)
    BY <2>1 DEF SameName, HasAdminName, AdminFirst
  <2>3. call'[c] = [at |-> "block", of |-> x]
    BY <2>1 DEF Goto, TypeOK
  <2>4. QED
    BY <2>2, <2>3 DEF At, Subject
<1>5. CASE LoginRead(c)
  <2>1. call'[c].at = "token"
    BY <1>5 DEF LoginRead, Goto, TypeOK
  <2>2. QED
    BY <2>1 DEF At
<1>6. QED
  BY <1>1, <1>2, <1>3, <1>4, <1>5, CallChanges

AdminInv ==
  /\ disturbed \in BOOLEAN
  /\ ~disturbed => AdminFirst

LEMMA AdminKept == MCSpec => []AdminInv
<1>1. MCInit => AdminInv
  <2> SUFFICES ASSUME MCInit PROVE AdminInv
    OBVIOUS
  <2>1. server = "down" /\ unique = FALSE /\ Accounts = {} /\ disturbed = FALSE
    BY DEF MCInit, Init, Accounts
  <2>2. \A c \in Call : ~At(c, "create") /\ ~At(c, "block")
    BY DEF MCInit, Init, At, Idle
  <2>3. QED
    BY <2>1, <2>2 DEF AdminInv, AdminFirst, AdminNotBlocked
<1>2. AdminInv /\ UNCHANGED mcVars => AdminInv'
  BY DEF AdminInv, AdminFirst, AdminNotBlocked, Named, At, Subject, Accounts, mcVars, vars, dbVars
<1>3. AccInv /\ AdminInv /\ MCNext => AdminInv'
  <2> SUFFICES ASSUME AccInv, AdminInv, MCNext  PROVE AdminInv'
    OBVIOUS
  <2>1. disturbed' \in BOOLEAN /\ (disturbed => disturbed') /\ Next
    BY DEF MCNext, AdminInv
  <2>2. QED
    BY <2>1, StepOfStart, RolesStep, NamesStep DEF AdminInv, AdminFirst
<1>4. QED
  BY <1>1, <1>2, <1>3, HistoryOnly, AccountsKept, PTL DEF MCSpec, mcVars

\* While starts succeed an admin is never blocked, whatever overlaps
\* (account_repo.go:231).
THEOREM AdminNeverBlocked == MCSpec => []CalmAdminNotBlocked
<1>1. AdminInv => CalmAdminNotBlocked
  BY DEF AdminInv, AdminFirst, CalmAdminNotBlocked
<1>2. QED
  BY <1>1, AdminKept, PTL

-------------------------------------------------------------------------------
(* One request at a time, and starts that run to their end.                  *)

\* A request in progress is alone, and the name it registers is still free.
AloneFree ==
  /\ \A c, d \in Call : call[c] # Idle /\ call[d] # Idle => c = d
  /\ \A c \in Call : At(c, "create") => SameName(Subject(c).name) = {}

CalmInv ==
  /\ overlapped \in BOOLEAN
  /\ ~overlapped => AloneFree
  /\ ~overlapped /\ ~disturbed => NamesDiffer

\* Names that are told apart stay so when a free one is taken.
LEMMA FreeName ==
  ASSUME AccInv, NamesDiffer, NEW f \in Form, NEW role \in Role, CreateAccount(f, role),
         SameName(f.name) = {}
  PROVE  NamesDiffer'
<1>1. PICK n \in Node \ Accounts :
         /\ Accounts' = Accounts \union {n}
         /\ account'[n] = [name |-> f.name, email |-> f.email, role |-> role, blocked |-> FALSE]
         /\ \A m \in Accounts : account'[m] = account[m]
  BY Creating DEF AccInv
<1>2. account'[n].name = f.name
  BY <1>1
<1>3. \A m \in Accounts : Fold[account[m].name] # Fold[f.name]
  BY DEF SameName
<1>4. \A m, k \in Accounts : Fold[account[m].name] = Fold[account[k].name] => m = k
  BY DEF NamesDiffer, SameName
<1>5. \A m, k \in Accounts' : Fold[account'[m].name] = Fold[account'[k].name] => m = k
  BY <1>1, <1>2, <1>3, <1>4
<1>6. QED
  BY <1>5 DEF NamesDiffer, SameName

LEMMA NamesKept ==
  ASSUME AccInv, AdminFirst, AloneFree, NamesDiffer, Next
  PROVE  NamesDiffer'
<1>1. CASE UNCHANGED account
  BY <1>1 DEF NamesDiffer, SameName, Accounts
<1>2. CASE server = "seed" /\ Allowed(Admin) /\ CreateAccount(Admin, "admin")
  <2>1. Admin \in Form /\ "admin" \in Role /\ Admin.name = AdminName
    BY AdminAssumption DEF Admin, Form, Role
  <2>2. ~unique
    BY <1>2, <2>1 DEF Allowed, AdminFirst, Named
  <2>3. SameName(Admin.name) = {}
    BY <1>2, <2>2 DEF AdminFirst, SameName
  <2>4. QED
    BY <1>2, <2>1, <2>3, FreeName
<1>3. ASSUME NEW c \in Call, RegisterCreate(c), CreateAccount(Subject(c), "user")
      PROVE  NamesDiffer'
  <2>1. Subject(c) \in Form /\ "user" \in Role /\ At(c, "create")
    BY <1>3, CallForms DEF RegisterCreate, Role, AccInv
  <2>2. QED
    BY <1>3, <2>1, FreeName DEF AloneFree
<1>4. ASSUME NEW c \in Call, BlockWrite(c)  PROVE NamesDiffer'
  <2>1. /\ Accounts' = Accounts
        /\ \A n \in Accounts : account'[n].name = account[n].name
    BY <1>4, BlockWriteKeeps DEF AccInv
  <2>2. QED
    BY <2>1 DEF NamesDiffer, SameName
<1>5. QED
  BY <1>1, <1>2, <1>3, <1>4, AccountChanges

LEMMA FreeStays ==
  ASSUME AccInv, AloneFree, MCNext, ~overlapped'
  PROVE  AloneFree'
<1> USE DEF AccInv
<1>1. Next
  BY DEF MCNext
<1>2. \A c, d \in Call : call'[c] # Idle /\ call'[d] # Idle => c = d
  BY DEF MCNext
<1>3. ASSUME NEW c \in Call, At(c, "create")'  PROVE SameName(Subject(c).name)' = {}
  <2>1. CASE call'[c] = call[c]
    <3>1. call[c] # Idle /\ At(c, "create") /\ Subject(c)' = Subject(c) /\ call'[c] # Idle
      BY <1>3, <2>1 DEF At, Subject, Idle
    <3>2. server # "seed"
      BY <3>1 DEF Served
    <3>3. ASSUME NEW d \in Call, RegisterCreate(d) \/ BlockWrite(d)  PROVE FALSE
      <4>1. call[d] # Idle
        BY <3>3 DEF RegisterCreate, BlockWrite, At, Idle
      <4>2. d = c
        BY <3>1, <4>1 DEF AloneFree
      <4>3. RegisterCreate(c)
        BY <3>1, <3>3, <4>2 DEF BlockWrite, At
      <4>4. End(c) \/ Goto(c, "profile", Subject(c))
        BY <4>3 DEF RegisterCreate
      <4>5. call'[c] = Idle \/ call'[c] = [at |-> "profile", of |-> Subject(c)]
        BY <4>4 DEF End, Goto, TypeOK
      <4>6. QED
        BY <1>3, <4>5 DEF At, Idle
    <3>4. UNCHANGED account
      BY <1>1, <3>2, <3>3, AccountChanges
    <3>5. QED
      BY <3>1, <3>4 DEF AloneFree, SameName, Accounts
  <2>2. CASE RegisterCheck(c)
    <3>1. PICK f \in Form : SameName(f.name) = {} /\ Goto(c, "create", f)
      BY <2>2 DEF RegisterCheck
    <3>2. call'[c] = [at |-> "create", of |-> f] /\ UNCHANGED account
      BY <2>2, <3>1 DEF Goto, TypeOK, RegisterCheck, dbVars
    <3>3. Subject(c)' = f
      BY <3>2 DEF Subject
    <3>4. QED
      BY <3>1, <3>2, <3>3 DEF SameName, Accounts
  <2>3. CASE LoginRead(c) \/ BlockRead(c)
    <3>1. call'[c].at \in {"token", "block"}
      BY <2>3 DEF LoginRead, BlockRead, Goto, TypeOK
    <3>2. QED
      BY <1>3, <3>1 DEF At
  <2>4. QED
    BY <1>1, <1>3, <2>1, <2>2, <2>3, CallChanges DEF At, Idle
<1>4. QED
  BY <1>2, <1>3 DEF AloneFree

LEMMA CalmKept == MCSpec => []CalmInv
<1>1. MCInit => CalmInv
  <2> SUFFICES ASSUME MCInit PROVE CalmInv
    OBVIOUS
  <2>1. Accounts = {} /\ overlapped = FALSE /\ \A c \in Call : call[c] = Idle
    BY DEF MCInit, Init, Accounts
  <2>2. AloneFree /\ NamesDiffer
    BY <2>1 DEF AloneFree, NamesDiffer, At, Idle
  <2>3. QED
    BY <2>1, <2>2 DEF CalmInv
<1>2. CalmInv /\ UNCHANGED mcVars => CalmInv'
  BY DEF CalmInv, AloneFree, NamesDiffer, SameName, At, Subject, Accounts, mcVars, vars, dbVars
<1>3. AccInv /\ AdminInv /\ CalmInv /\ MCNext => CalmInv'
  <2> SUFFICES ASSUME AccInv, AdminInv, CalmInv, MCNext  PROVE CalmInv'
    OBVIOUS
  <2>1. /\ Next /\ overlapped' \in BOOLEAN
        /\ (overlapped => overlapped') /\ (disturbed => disturbed')
    BY DEF MCNext, CalmInv
  <2>2. QED
    BY <2>1, FreeStays, NamesKept DEF CalmInv, AdminInv
<1>4. QED
  BY <1>1, <1>2, <1>3, AdminKept, HistoryOnly, AccountsKept, PTL DEF MCSpec, mcVars

\* While starts succeed and requests do not overlap, names differ by more than case
\* (account_repo.go:57).
THEOREM NamesToldApart == MCSpec => []CalmNamesDiffer
<1>1. CalmInv => CalmNamesDiffer
  BY DEF CalmInv, CalmNamesDiffer
<1>2. QED
  BY <1>1, CalmKept, PTL
===============================================================================
