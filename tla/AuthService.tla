----------------------------- MODULE AuthService -----------------------------
(***************************************************************************)
(* Registration, login and the current user: requests that read a replica  *)
(* of the table users and write its primary, where the unique indexes      *)
(* uk_username and uk_email decide the races.                              *)
(*                                                                         *)
(* Sources: internal/service/auth_service.go,                              *)
(* internal/database/user_auth_repo.go, internal/database/rwdb.go,         *)
(* internal/handler/auth_handler.go, internal/middleware/auth.go,          *)
(* sql/mysql_init.sql.                                                     *)
(*                                                                         *)
(* A row is named after the client whose registration inserted it, which   *)
(* stands for its id.  A token is the user in its claims, until it         *)
(* expires.  Hashes, signatures and the validation of a request's fields   *)
(* are library calls: bcrypt refuses a password of more than 72 bytes,     *)
(* which the validation allows, and signing with a shared key cannot fail. *)
(* The column last_login_at, which a goroutine of Login sets, is read by   *)
(* no decision and left out.                                               *)
(***************************************************************************)
EXTENDS Integers, Sequences

CONSTANTS
    Clients,     \* each sends its own registration and logs in with its name
    NameOf,      \* the user name a client registers and logs in with
    EmailOf,     \* the e-mail it registers with, or
    NoEmail,     \* the empty string
    Replicas,    \* read replicas; without any the primary is read
    NoUser,
    MaxFaults    \* bound: failing statements

ASSUME AuthAssumption ==
    /\ NoUser \notin Clients
    /\ MaxFaults \in Nat

VARIABLES
    pc,          \* clients: the statement their request is at, "idle" if none
    answer,      \* the last answer that was sent: to whom, and what
    token,       \* clients: the user of their unexpired token
    found,       \* clients: the row Login has read
    long,        \* clients that are registering with too long a password
    log,         \* the committed changes of the table, in order
    pos,         \* replicas: how many of them they have applied
    faults

vars == <<pc, answer, token, found, long, log, pos, faults>>

-----------------------------------------------------------------------------
(* The table, after the first k changes.                                   *)

Inserted(u) == [change |-> "insert", user |-> u]
Disabled(u) == [change |-> "disable", user |-> u]
Changes == [change : {"insert", "disable"}, user : Clients]

Rows(k) == {u \in Clients : \E i \in 1..k : log[i] = Inserted(u)}
Inactive(k, u) == \E i \in 1..k : log[i] = Disabled(u)
Users == Rows(Len(log))

\* replica, QueryRowContext: where a SELECT may be answered.
Read == IF Replicas = {} THEN {Len(log)} ELSE {pos[r] : r \in Replicas}

GetByUsername(k, c) == {u \in Rows(k) : NameOf[u] = NameOf[c]}
GetByEmail(k, c) == {u \in Rows(k) : EmailOf[u] = EmailOf[c]}

GetByID(k, id) == {u \in Rows(k) : u = id}

\* Mutant of Clash: the table has no uk_username.
ClashEmailOnly(c) == GetByEmail(Len(log), c) # {}

\* The unique indexes; an e-mail that is not given is stored as ''.
Clash(c) == GetByUsername(Len(log), c) \cup GetByEmail(Len(log), c) # {}

Init ==
    /\ pc = [c \in Clients |-> "idle"]
    /\ answer = [to |-> NoUser, what |-> "none"]
    /\ token = [c \in Clients |-> NoUser]
    /\ found = [c \in Clients |-> NoUser]
    /\ long = {}
    /\ log = <<>>
    /\ pos = [r \in Replicas |-> 0]
    /\ faults = 0

Goto(c, from, to) == pc[c] = from /\ pc' = [pc EXCEPT ![c] = to]

\* The request ends with an answer of its handler.
Answer(c, from, what) ==
    /\ Goto(c, from, "idle")
    /\ answer' = [to |-> c, what |-> what]
    /\ long' = long \ {c}

Continue(c, from, to) == Goto(c, from, to) /\ UNCHANGED <<answer, long>>

generateToken(c, u) == token' = [token EXCEPT ![c] = u]

-----------------------------------------------------------------------------
(* Register.                                                               *)

\* The password of the request is an input like its name.
CheckUsername(c) ==
    /\ \E k \in Read :
          \/ GetByUsername(k, c) # {} /\ Answer(c, "idle", "username exists")
          \/ /\ GetByUsername(k, c) = {}
             /\ Goto(c, "idle", IF EmailOf[c] = NoEmail THEN "insert" ELSE "email")
             /\ long' \in {long, long \cup {c}}
             /\ UNCHANGED answer
    /\ UNCHANGED <<token, found, log, pos, faults>>

CheckEmail(c) ==
    /\ \E k \in Read :
          \/ GetByEmail(k, c) # {} /\ Answer(c, "email", "email exists")
          \/ GetByEmail(k, c) = {} /\ Continue(c, "email", "insert")
    /\ UNCHANGED <<token, found, log, pos, faults>>

\* GenerateFromPassword returns ErrPasswordTooLong.
HashFailed(c) ==
    /\ c \in long
    /\ Answer(c, "insert", "error")
    /\ UNCHANGED <<token, found, log, pos, faults>>

\* The row is there and its id is in the token.
InsertUser(c) ==
    /\ c \notin long /\ ~Clash(c)
    /\ Answer(c, "insert", "registered")
    /\ log' = Append(log, Inserted(c))
    /\ generateToken(c, c)
    /\ UNCHANGED <<found, pos, faults>>

\* Mutant of Duplicate: the text of the error is not recognised.
DuplicateUnknown(c) ==
    /\ c \notin long /\ Clash(c)
    /\ Answer(c, "insert", "error")
    /\ UNCHANGED <<token, found, log, pos, faults>>

\* Mutant of Duplicate: the error is not looked at.
DuplicateIgnored(c) ==
    /\ c \notin long /\ Clash(c)
    /\ Answer(c, "insert", "registered")
    /\ generateToken(c, c)
    /\ UNCHANGED <<found, log, pos, faults>>

\* A unique index refuses the row: whichever it was, the name is blamed.
Duplicate(c) ==
    /\ c \notin long /\ Clash(c)
    /\ Answer(c, "insert", "username exists")
    /\ UNCHANGED <<token, found, log, pos, faults>>

-----------------------------------------------------------------------------
(* Login and the current user.                                             *)

\* Mutant of Login: a user that is not found is used all the same.
LoginUnchecked(c) ==
    /\ \E k \in Read :
        LET us == GetByUsername(k, c) IN
        \/ us = {} /\ Continue(c, "idle", "verify") /\ UNCHANGED found
        \/ \E u \in us : /\ Continue(c, "idle", "verify")
                         /\ found' = [found EXCEPT ![c] = u]
    /\ UNCHANGED <<token, log, pos, faults>>

\* Mutant of Login: the status is not looked at.
LoginAnyStatus(c) ==
    /\ \E k \in Read :
        LET us == GetByUsername(k, c) IN
        \/ us = {} /\ Answer(c, "idle", "invalid login") /\ UNCHANGED found
        \/ \E u \in us : /\ Continue(c, "idle", "verify")
                         /\ found' = [found EXCEPT ![c] = u]
    /\ UNCHANGED <<token, log, pos, faults>>

\* The row as a replica has it.
Login(c) ==
    /\ \E k \in Read :
        LET us == GetByUsername(k, c) IN
        \/ us = {} /\ Answer(c, "idle", "invalid login") /\ UNCHANGED found
        \/ \E u \in us :
              \/ Inactive(k, u) /\ Answer(c, "idle", "disabled") /\ UNCHANGED found
              \/ /\ ~Inactive(k, u)
                 /\ Continue(c, "idle", "verify")
                 /\ found' = [found EXCEPT ![c] = u]
    /\ UNCHANGED <<token, log, pos, faults>>

\* The password is compared; a token is issued for the row that was read.
Verify(c) ==
    /\ \/ Answer(c, "verify", "invalid login") /\ UNCHANGED token
       \/ /\ Answer(c, "verify", "logged in")
          /\ generateToken(c, found[c])
    /\ found' = [found EXCEPT ![c] = NoUser]
    /\ UNCHANGED <<log, pos, faults>>

\* JWTAuth lets a request with an unexpired token through.
Authorized(c) == token[c] # NoUser

GetUserInfo(k, u) == IF GetByID(k, u) # {} THEN "me" ELSE "not found"

GetMe(c) ==
    /\ \/ ~Authorized(c) /\ Answer(c, "idle", "unauthorized")
       \/ /\ Authorized(c)
          /\ \E k \in Read : Answer(c, "idle", GetUserInfo(k, token[c]))
    /\ UNCHANGED <<token, found, log, pos, faults>>

\* A statement of a request fails; an INSERT may be executed all the same.
Failed(c) ==
    /\ faults < MaxFaults /\ faults' = faults + 1
    /\ pc[c] = "insert" => c \notin long
    /\ \E at \in {"idle", "email", "insert"} : Answer(c, at, "error")
    /\ \/ UNCHANGED log
       \/ pc[c] = "insert" /\ ~Clash(c) /\ log' = Append(log, Inserted(c))
    /\ UNCHANGED <<token, found, pos>>

-----------------------------------------------------------------------------
(* The environment.                                                        *)

\* An operator sets status to 0.
Disable(u) ==
    /\ u \in Users /\ ~Inactive(Len(log), u)
    /\ log' = Append(log, Disabled(u))
    /\ UNCHANGED <<pc, answer, token, found, long, pos, faults>>

Replicate(r) ==
    /\ pos[r] < Len(log)
    /\ pos' = [pos EXCEPT ![r] = @ + 1]
    /\ UNCHANGED <<pc, answer, token, found, long, log, faults>>

\* ParseToken: the time in the claim exp has passed.
Expire(c) ==
    /\ token[c] # NoUser
    /\ token' = [token EXCEPT ![c] = NoUser]
    /\ UNCHANGED <<pc, answer, found, long, log, pos, faults>>

Next ==
    \/ \E c \in Clients : \/ CheckUsername(c) \/ CheckEmail(c)
                          \/ HashFailed(c) \/ InsertUser(c) \/ Duplicate(c)
                          \/ Login(c) \/ Verify(c) \/ GetMe(c)
                          \/ Failed(c) \/ Expire(c) \/ Disable(c)
    \/ \E r \in Replicas : Replicate(r)

Spec == Init /\ [][Next]_vars

-----------------------------------------------------------------------------
(* Properties.                                                             *)

Answers ==
    [to : Clients \cup {NoUser},
     what : {"none", "registered", "username exists", "email exists", "logged in",
             "invalid login", "disabled", "me", "unauthorized", "not found", "error"}]

\* The state is well-formed; in particular no request goes on with a user it has
\* not found, and replicas are behind the primary.
TypeOK ==
    /\ pc \in [Clients -> {"idle", "email", "insert", "verify"}]
    /\ answer \in Answers
    /\ token \in [Clients -> Clients \cup {NoUser}]
    /\ found \in [Clients -> Clients \cup {NoUser}]
    /\ \A c \in Clients : pc[c] = "verify" <=> found[c] # NoUser
    /\ long \subseteq Clients
    /\ \A c \in long : pc[c] \in {"email", "insert"}
    /\ log \in Seq(Changes)
    /\ pos \in [Replicas -> Nat]
    /\ \A r \in Replicas : pos[r] <= Len(log)
    /\ faults \in 0..MaxFaults

\* A name is one identity: whoever registers or logs in with it, on whatever
\* replica and however many register it at once, gets a token of the same
\* user, and tokens of different names are of different users.
OneIdentityPerName ==
    \A a, b \in Clients : token[a] # NoUser /\ token[b] # NoUser =>
        (token[a] = token[b] <=> NameOf[a] = NameOf[b])

\* What the repository says of a refusal: a user name is unique, and so is an
\* e-mail, if one is given (Register).  Nobody whose name is free and who gives no
\* e-mail, or a free one, is refused.
RefusedOnlyDuplicates ==
    LET c == answer.to IN
    answer.what \in {"username exists", "email exists"} =>
        \E u \in Users : \/ NameOf[u] = NameOf[c]
                         \/ EmailOf[c] # NoEmail /\ EmailOf[u] = EmailOf[c]

\* Registrations that race are told so (Register): an internal error is answered
\* only by the step in which a statement fails, or to a password that bcrypt
\* does not hash.
RacesAnswered ==
    [][answer' # answer /\ answer'.what = "error" =>
          faults' > faults \/ answer'.to \in long]_vars

\* A client with a token is "not found" only while a replica lags, because no
\* token is issued for a row that is not committed.
NotFoundMeansLag ==
    [][answer' # answer /\ answer'.what = "not found" =>
          \E r \in Replicas : pos[r] < Len(log)]_vars

\* A disabled user stays out: once every database that may be read knows, and no
\* login that read the row before is under way, no token of the user is issued
\* any more.  (Tokens that exist work until they expire: GetMe does not look at
\* the status.)
OutOfReach(u) ==
    /\ \A k \in Read : Inactive(k, u)
    /\ \A c \in Clients : found[c] # u

DisabledStaysOut ==
    [][\A u \in Clients : OutOfReach(u) =>
          OutOfReach(u)' /\ \A c \in Clients : token'[c] = u => token[c] = u]_vars

-----------------------------------------------------------------------------
(* The inductive invariant of the proofs.                                  *)

\* The unique indexes hold, and only rows are disabled.
Indexed ==
    /\ \A a, b \in Users : a # b => NameOf[a] # NameOf[b] /\ EmailOf[a] # EmailOf[b]
    /\ \A i \in 1..Len(log) : log[i].user \in Users

\* Tokens, and the rows logins go on with, are committed rows of the client's name.
Committed(c, u) == u # NoUser => u \in Users /\ NameOf[u] = NameOf[c]
Own == \A c \in Clients : Committed(c, token[c]) /\ Committed(c, found[c])

\* Only an e-mail that was given is looked up.
Given == \A c \in Clients : pc[c] = "email" => EmailOf[c] # NoEmail

\* What Register really refuses for: a committed row with the name or with the
\* e-mail of the request, where not to give one counts as an e-mail too.
RefusalsExplained ==
    LET c == answer.to IN
    /\ answer.what = "email exists" =>
          EmailOf[c] # NoEmail /\ \E u \in Users : EmailOf[u] = EmailOf[c]
    /\ answer.what = "username exists" =>
          \E u \in Users : NameOf[u] = NameOf[c] \/ EmailOf[u] = EmailOf[c]

Inv == TypeOK /\ Indexed /\ Own /\ Given /\ RefusalsExplained
=============================================================================
