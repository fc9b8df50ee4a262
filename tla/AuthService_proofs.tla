------------------------- MODULE AuthService_proofs -------------------------
(***************************************************************************)
(* Identities, refusals, races and disabled users, for any number of       *)
(* clients, names, e-mails and replicas.                                   *)
(***************************************************************************)
EXTENDS AuthService, SequenceTheorems, TLAPS

-----------------------------------------------------------------------------
(* The table and its log.                                                  *)

LEMMA LogIsSeq ==
    ASSUME TypeOK
    PROVE  log \in Seq(Changes) /\ Len(log) \in Nat
<1>1. log \in Seq(Changes)  BY DEF TypeOK
<1> QED  BY <1>1, LenProperties

\* What a SELECT may read is a prefix of the log, and its rows are committed.
LEMMA ReadPrefix ==
    ASSUME TypeOK, NEW k \in Read
    PROVE  k \in 0..Len(log) /\ Rows(k) \subseteq Users
<1>1. Len(log) \in Nat  BY LogIsSeq
<1>2. k \in 0..Len(log)
  <2>1. \A r \in Replicas : pos[r] \in Nat /\ pos[r] <= Len(log)  BY DEF TypeOK
  <2> QED  BY <1>1, <2>1 DEF Read
<1>3. 1..k \subseteq 1..Len(log)  BY <1>1, <1>2
<1> QED  BY <1>2, <1>3 DEF Rows, Users

\* The log is only appended to: rows the indexes accept, and rows that are disabled.
LEMMA LogChange ==
    ASSUME TypeOK, [Next]_vars
    PROVE  \/ log' = log
           \/ \E u \in Clients : ~Clash(u) /\ log' = Append(log, Inserted(u))
           \/ \E u \in Users : log' = Append(log, Disabled(u))
<1> USE DEF vars
<1>1. CASE \E c \in Clients : CheckUsername(c) \/ CheckEmail(c) \/ HashFailed(c) \/ Duplicate(c) \/ Login(c)
                              \/ Verify(c) \/ GetMe(c) \/ Expire(c)
  BY <1>1 DEF CheckUsername, CheckEmail, HashFailed, Duplicate, Login, Verify, GetMe, Expire
<1>2. CASE \E c \in Clients : InsertUser(c) \/ Failed(c) \/ Disable(c)
  BY <1>2 DEF InsertUser, Failed, Disable
<1>3. CASE \/ \E r \in Replicas : Replicate(r)
           \/ UNCHANGED vars
  BY <1>3 DEF Replicate
<1> QED  BY <1>1, <1>2, <1>3 DEF Next

LEMMA FaultsChange ==
    ASSUME [Next]_vars
    PROVE  faults' = faults \/ (faults < MaxFaults /\ faults' = faults + 1)
BY DEF Next, vars, CheckUsername, CheckEmail, HashFailed, InsertUser, Duplicate, Login, Verify, GetMe,
       Failed, Expire, Disable, Replicate

\* One more change: what was there stays, and an insertion adds its row.
LEMMA Appended ==
    ASSUME TypeOK, NEW e \in Changes, log' = Append(log, e)
    PROVE  /\ log' \in Seq(Changes) /\ Len(log') = Len(log) + 1 /\ Len(log) \in Nat
           /\ \A i \in 1..Len(log) : log'[i] = log[i]
           /\ log'[Len(log) + 1] = e
           /\ Users' = IF e.change = "insert" THEN Users \cup {e.user} ELSE Users
<1>1. /\ log' \in Seq(Changes) /\ Len(log') = Len(log) + 1 /\ Len(log) \in Nat
      /\ \A i \in 1..Len(log) : log'[i] = log[i]
      /\ log'[Len(log) + 1] = e
  BY LogIsSeq, AppendProperties
<1>2. 1..Len(log') = (1..Len(log)) \cup {Len(log) + 1}  BY <1>1
<1>3. \A u \in Clients : u \in Users' <=> u \in Users \/ e = Inserted(u)
  BY <1>1, <1>2 DEF Users, Rows, Inserted
<1>4. Users \subseteq Clients /\ Users' \subseteq Clients /\ e.user \in Clients
  BY DEF Users, Rows, Changes
<1>5. \A u \in Clients : e = Inserted(u) <=> e.change = "insert" /\ e.user = u
  BY DEF Inserted, Changes
<1>6. CASE e.change = "insert"
  <2>1. Users' = Users \cup {e.user}  BY <1>3, <1>4, <1>5, <1>6
  <2> QED  BY <1>1, <1>6, <2>1
<1>7. CASE e.change # "insert"
  <2>1. Users' = Users  BY <1>3, <1>4, <1>5, <1>7
  <2> QED  BY <1>1, <1>7, <2>1
<1> QED  BY <1>6, <1>7

\* What a step does to the table.
LEMMA TableChange ==
    ASSUME TypeOK, [Next]_vars
    PROVE  /\ log' \in Seq(Changes) /\ Len(log) \in Nat /\ Len(log') \in Nat
           /\ Len(log) <= Len(log')
           /\ \A i \in 1..Len(log) : log'[i] = log[i]
           /\ Users \subseteq Users'
<1>1. CASE log' = log  BY <1>1, LogIsSeq DEF Users, Rows
<1>2. ASSUME NEW e \in Changes, log' = Append(log, e)
      PROVE  /\ log' \in Seq(Changes) /\ Len(log) \in Nat /\ Len(log') \in Nat
             /\ Len(log) <= Len(log')
             /\ \A i \in 1..Len(log) : log'[i] = log[i]
             /\ Users \subseteq Users'
  BY <1>2, Appended
<1>3. \A u \in Clients : Inserted(u) \in Changes /\ Disabled(u) \in Changes
  BY DEF Inserted, Disabled, Changes
<1>4. Users \subseteq Clients  BY DEF Users, Rows
<1> QED  BY <1>1, <1>2, <1>3, <1>4, LogChange

-----------------------------------------------------------------------------
(* The invariant.                                                          *)

LEMMA InvInit == Init => Inv
<1> SUFFICES ASSUME Init PROVE Inv  OBVIOUS
<1>1. log = <<>> /\ log \in Seq(Changes) /\ Len(log) = 0  BY DEF Init
<1>a. answer \in Answers  BY DEF Init, Answers
<1>2. TypeOK  BY <1>1, <1>a, AuthAssumption DEF Init, TypeOK
<1>3. Users = {}  BY <1>1 DEF Users, Rows
<1>4. Indexed /\ Own /\ Given /\ RefusalsExplained
  BY <1>1, <1>3 DEF Init, Indexed, Own, Committed, Given, RefusalsExplained
<1> QED  BY <1>2, <1>4 DEF Inv

\* Only a request that is registering has a password to be hashed.
LEMMA LongStep ==
    ASSUME Inv, [Next]_vars
    PROVE  long' \subseteq Clients /\ \A c \in long' : pc'[c] \in {"email", "insert"}
<1> DEFINE Moves(c) ==
      \/ \E to : pc' = [pc EXCEPT ![c] = to] /\ long' = long \ {c}
      \/ \E to \in {"email", "insert"} :
            pc' = [pc EXCEPT ![c] = to] /\ long' \in {long, long \cup {c}}
      \/ \E to : pc[c] = "idle" /\ pc' = [pc EXCEPT ![c] = to] /\ long' = long
<1>0. /\ long \subseteq Clients /\ \A c \in long : pc[c] \in {"email", "insert"}
      /\ DOMAIN pc = Clients /\ pc = [c \in Clients |-> pc[c]]
  BY DEF Inv, TypeOK
<1>1. ASSUME NEW c \in Clients, CheckUsername(c) PROVE Moves(c)
  BY <1>1 DEF CheckUsername, Answer, Goto
<1>2. ASSUME NEW c \in Clients, CheckEmail(c) PROVE Moves(c)
  BY <1>2 DEF CheckEmail, Answer, Continue, Goto
<1>3. ASSUME NEW c \in Clients,
             HashFailed(c) \/ InsertUser(c) \/ Duplicate(c) \/ Verify(c) \/ GetMe(c) \/ Failed(c)
      PROVE  Moves(c)
  BY <1>3 DEF HashFailed, InsertUser, Duplicate, Verify, GetMe, Failed, Answer, Goto
<1>4. ASSUME NEW c \in Clients, Login(c) PROVE Moves(c)
  BY <1>4 DEF Login, Answer, Continue, Goto
<1>5. CASE UNCHANGED <<pc, long>>  BY <1>0, <1>5
<1>6. ASSUME NEW c \in Clients, Moves(c)
      PROVE  long' \subseteq Clients /\ \A d \in long' : pc'[d] \in {"email", "insert"}
  BY <1>0, <1>6
<1> HIDE DEF Moves
<1> QED  BY <1>1, <1>2, <1>3, <1>4, <1>5, <1>6 DEF Next, vars, Expire, Disable, Replicate

\* One step keeps the types.
LEMMA TypeStep ==
    ASSUME Inv, [Next]_vars
    PROVE  TypeOK'
<1> USE DEF Inv
<1>0. /\ log' \in Seq(Changes) /\ Len(log) \in Nat /\ Len(log') \in Nat
      /\ Len(log) <= Len(log')
  BY TableChange
<1>a. /\ \A r \in Replicas : pos'[r] <= Len(log')
      /\ pos' \in [Replicas -> Nat]
  <2>1. CASE \E r \in Replicas : Replicate(r)
    BY <1>0, <2>1 DEF TypeOK, Replicate
  <2>2. CASE pos' = pos  BY <1>0, <2>2 DEF TypeOK
  <2>3. (\E r \in Replicas : Replicate(r)) \/ pos' = pos
    BY DEF Next, vars, CheckUsername, CheckEmail, HashFailed, InsertUser, Duplicate, Login, Verify, GetMe,
           Failed, Expire, Disable
  <2> QED  BY <2>1, <2>2, <2>3
<1>b. faults' \in 0..MaxFaults
  <2>1. faults \in 0..MaxFaults /\ MaxFaults \in Nat  BY AuthAssumption DEF TypeOK
  <2>2. faults' = faults \/ (faults < MaxFaults /\ faults' = faults + 1)  BY FaultsChange
  <2> QED  BY <2>1, <2>2
<1> DEFINE PCs == {"idle", "email", "insert", "verify"}
<1> DEFINE Local == /\ pc' \in [Clients -> PCs]
                    /\ answer' \in Answers
                    /\ token' \in [Clients -> Clients \cup {NoUser}]
                    /\ found' \in [Clients -> Clients \cup {NoUser}]
                    /\ \A c \in Clients : pc'[c] = "verify" <=> found'[c] # NoUser
<1>c. \A c \in Clients : /\ [to |-> c, what |-> "registered"] \in Answers
                         /\ [to |-> c, what |-> "username exists"] \in Answers
                         /\ [to |-> c, what |-> "email exists"] \in Answers
                         /\ [to |-> c, what |-> "logged in"] \in Answers
                         /\ [to |-> c, what |-> "invalid login"] \in Answers
                         /\ [to |-> c, what |-> "disabled"] \in Answers
                         /\ [to |-> c, what |-> "me"] \in Answers
                         /\ [to |-> c, what |-> "unauthorized"] \in Answers
                         /\ [to |-> c, what |-> "not found"] \in Answers
                         /\ [to |-> c, what |-> "error"] \in Answers
  BY DEF Answers
<1>d. NoUser \notin Clients  BY AuthAssumption
<1>1. ASSUME NEW c \in Clients,
             CheckUsername(c) \/ CheckEmail(c) \/ HashFailed(c) \/ Duplicate(c) \/ Failed(c)
      PROVE  Local
  BY <1>1, <1>c DEF TypeOK, CheckUsername, CheckEmail, HashFailed, Duplicate, Failed,
                    Answer, Continue, Goto
<1>2. ASSUME NEW c \in Clients, InsertUser(c) PROVE Local
  BY <1>2, <1>c DEF TypeOK, InsertUser, Answer, Goto, generateToken
<1>3. ASSUME NEW c \in Clients, Login(c) PROVE Local
  <2>1. \A k \in Read : GetByUsername(k, c) \subseteq Clients  BY DEF GetByUsername, Rows
  <2>2. pc[c] = "idle" /\ token' = token  BY <1>3 DEF Login, Answer, Continue, Goto
  <2>3. CASE /\ pc' = [pc EXCEPT ![c] = "idle"] /\ found' = found
             /\ answer' \in Answers
    BY <2>2, <2>3 DEF TypeOK
  <2>4. ASSUME NEW u \in Clients,
               pc' = [pc EXCEPT ![c] = "verify"], found' = [found EXCEPT ![c] = u], answer' = answer
        PROVE  Local
    BY <1>d, <2>2, <2>4 DEF TypeOK
  <2>5. \/ /\ pc' = [pc EXCEPT ![c] = "idle"] /\ found' = found
           /\ answer' \in Answers
        \/ \E u \in Clients : /\ pc' = [pc EXCEPT ![c] = "verify"]
                              /\ found' = [found EXCEPT ![c] = u] /\ answer' = answer
    BY <1>3, <1>c, <2>1 DEF Login, Answer, Continue, Goto
  <2> QED  BY <2>3, <2>4, <2>5
<1>4. ASSUME NEW c \in Clients, Verify(c) PROVE Local
  <2>1. /\ pc[c] = "verify" /\ pc' = [pc EXCEPT ![c] = "idle"]
        /\ found' = [found EXCEPT ![c] = NoUser]
        /\ token' = token \/ token' = [token EXCEPT ![c] = found[c]]
        /\ answer' \in Answers
    BY <1>4, <1>c DEF Verify, Answer, Goto, generateToken
  <2>2. found[c] \in Clients \cup {NoUser}  BY DEF TypeOK
  <2>3. token' \in [Clients -> Clients \cup {NoUser}]  BY <2>1, <2>2 DEF TypeOK
  <2>4. /\ pc' \in [Clients -> PCs]
        /\ found' \in [Clients -> Clients \cup {NoUser}]
        /\ \A d \in Clients : pc'[d] = "verify" <=> found'[d] # NoUser
    BY <2>1 DEF TypeOK
  <2> QED  BY <2>1, <2>3, <2>4
<1>5. ASSUME NEW c \in Clients, GetMe(c) PROVE Local
  BY <1>5, <1>c DEF TypeOK, GetMe, GetUserInfo, Answer, Goto
<1>6. ASSUME NEW c \in Clients, Expire(c) PROVE Local
  BY <1>6 DEF TypeOK, Expire
<1>8. ASSUME \/ \E c \in Clients : Disable(c)
             \/ \E r \in Replicas : Replicate(r)
             \/ UNCHANGED vars
      PROVE  Local
  <2>1. UNCHANGED <<pc, answer, token, found, long>>  BY <1>8 DEF Disable, Replicate, vars
  <2> QED  BY <2>1 DEF TypeOK
<1> HIDE DEF Local
<1>7. Local  BY <1>1, <1>2, <1>3, <1>4, <1>5, <1>6, <1>8 DEF Next
<1> QED  BY <1>0, <1>a, <1>b, <1>7, LongStep DEF TypeOK, Local

\* One step keeps the unique indexes.
LEMMA IndexedStep ==
    ASSUME Inv, [Next]_vars
    PROVE  Indexed'
<1> USE DEF Inv
<1>0. \A u \in Clients : /\ Inserted(u) \in Changes /\ Disabled(u) \in Changes
                         /\ Inserted(u).change = "insert" /\ Inserted(u).user = u
                         /\ Disabled(u).change # "insert" /\ Disabled(u).user = u
  BY DEF Inserted, Disabled, Changes
<1>a. Users \subseteq Clients  BY DEF Users, Rows
<1>1. CASE log' = log  BY <1>1 DEF Indexed, Users, Rows
<1>2. ASSUME NEW u \in Clients, ~Clash(u), log' = Append(log, Inserted(u)) PROVE Indexed'
  <2>1. /\ Len(log') = Len(log) + 1 /\ Len(log) \in Nat
        /\ \A i \in 1..Len(log) : log'[i] = log[i]
        /\ log'[Len(log) + 1] = Inserted(u)
        /\ Users' = Users \cup {u}
    BY <1>0, <1>2, Appended
  <2>2. \A a \in Users : NameOf[a] # NameOf[u] /\ EmailOf[a] # EmailOf[u]
    BY <1>2 DEF Clash, GetByUsername, GetByEmail, Users
  <2>3. \A i \in 1..Len(log') : log'[i].user \in Users'  BY <1>0, <2>1 DEF Indexed
  <2>4. \A a, b \in Users' : a # b => NameOf[a] # NameOf[b] /\ EmailOf[a] # EmailOf[b]
    BY <2>1, <2>2 DEF Indexed
  <2> QED  BY <2>3, <2>4 DEF Indexed
<1>3. ASSUME NEW u \in Users, log' = Append(log, Disabled(u)) PROVE Indexed'
  <2>1. /\ Len(log') = Len(log) + 1 /\ Len(log) \in Nat
        /\ \A i \in 1..Len(log) : log'[i] = log[i]
        /\ log'[Len(log) + 1] = Disabled(u)
        /\ Users' = Users
    BY <1>0, <1>a, <1>3, Appended
  <2>2. \A i \in 1..Len(log') : log'[i].user \in Users'  BY <1>0, <1>a, <2>1 DEF Indexed
  <2> QED  BY <2>1, <2>2 DEF Indexed
<1> QED  BY <1>1, <1>2, <1>3, LogChange

\* One step leaves tokens and logins with committed rows.
LEMMA OwnStep ==
    ASSUME Inv, [Next]_vars
    PROVE  Own'
<1> USE DEF Inv
<1>0. Users \subseteq Users'  BY TableChange
<1>1. ASSUME NEW c \in Clients, Login(c) PROVE Own'
  <2>1. \A k \in Read : \A u \in GetByUsername(k, c) : u \in Users /\ NameOf[u] = NameOf[c]
    BY ReadPrefix DEF GetByUsername
  <2>2. CASE token' = token /\ found' = found  BY <1>0, <2>2 DEF Own, Committed
  <2>3. ASSUME NEW u \in Users, NameOf[u] = NameOf[c],
               token' = token, found' = [found EXCEPT ![c] = u]
        PROVE  Own'
    BY <1>0, <2>3 DEF TypeOK, Own, Committed
  <2>4. \/ token' = token /\ found' = found
        \/ \E u \in Users : /\ NameOf[u] = NameOf[c] /\ token' = token
                            /\ found' = [found EXCEPT ![c] = u]
    BY <1>1, <2>1 DEF Login
  <2> QED  BY <2>2, <2>3, <2>4
<1>2. ASSUME NEW c \in Clients, Verify(c) PROVE Own'
  <2>1. /\ token' = token \/ token' = [token EXCEPT ![c] = found[c]]
        /\ found' = [found EXCEPT ![c] = NoUser]
    BY <1>2 DEF Verify, generateToken
  <2>2. token \in [Clients -> Clients \cup {NoUser}] /\ found \in [Clients -> Clients \cup {NoUser}]
    BY DEF TypeOK
  <2>3. \A a \in Clients : token'[a] \in {token[a], found[a]} /\ found'[a] \in {found[a], NoUser}
    BY <2>1, <2>2
  <2> QED  BY <1>0, <2>3 DEF Own, Committed
<1>3. ASSUME NEW c \in Clients, InsertUser(c) PROVE Own'
  <2>1. Inserted(c) \in Changes /\ Inserted(c).change = "insert" /\ Inserted(c).user = c
    BY DEF Inserted, Changes
  <2>2. c \in Users'  BY <1>3, <2>1, Appended DEF InsertUser
  <2> QED  BY <1>0, <1>3, <2>2 DEF TypeOK, InsertUser, generateToken, Own, Committed
<1>4. ASSUME NEW c \in Clients, Expire(c) PROVE Own'
  BY <1>0, <1>4 DEF TypeOK, Expire, Own, Committed
<1>5. ASSUME UNCHANGED <<token, found>> PROVE Own'
  BY <1>0, <1>5 DEF Own, Committed
<1> QED  BY <1>1, <1>2, <1>3, <1>4, <1>5 DEF Next, vars, CheckUsername, CheckEmail, HashFailed, Duplicate,
            GetMe, Failed, Disable, Replicate

\* One step looks up no e-mail that was not given.
LEMMA GivenStep ==
    ASSUME Inv, [Next]_vars
    PROVE  Given'
BY DEF Inv, TypeOK, Given, Next, vars, Goto, Answer, Continue, CheckUsername, CheckEmail,
       HashFailed, InsertUser, Duplicate, Login, Verify, GetMe, Failed, Expire, Disable, Replicate

\* What a step may answer.
LEMMA AnswerChange ==
    ASSUME [Next]_vars, answer' # answer
    PROVE  \E c \in Clients :
              \/ CheckUsername(c) /\ answer' = [to |-> c, what |-> "username exists"]
              \/ CheckEmail(c) /\ answer' = [to |-> c, what |-> "email exists"]
              \/ Duplicate(c) /\ answer' = [to |-> c, what |-> "username exists"]
              \/ HashFailed(c) /\ answer' = [to |-> c, what |-> "error"]
              \/ Failed(c) /\ answer' = [to |-> c, what |-> "error"]
              \/ \E w \in {"registered", "invalid login", "disabled", "logged in",
                           "unauthorized", "me", "not found"} :
                    answer' = [to |-> c, what |-> w]
<1>1. ASSUME NEW c \in Clients, InsertUser(c) \/ Login(c) \/ Verify(c) \/ GetMe(c)
      PROVE  \E w \in {"registered", "invalid login", "disabled", "logged in",
                       "unauthorized", "me", "not found"} : answer' = [to |-> c, what |-> w]
  <2>1. CASE InsertUser(c)  BY <2>1 DEF InsertUser, Answer
  <2>2. CASE Login(c)  BY <2>2 DEF Login, Answer, Continue
  <2>3. CASE Verify(c)  BY <2>3 DEF Verify, Answer
  <2>4. CASE GetMe(c)  BY <2>4 DEF GetMe, GetUserInfo, Answer
  <2> QED  BY <1>1, <2>1, <2>2, <2>3, <2>4
<1>2. ASSUME NEW c \in Clients, CheckUsername(c) \/ CheckEmail(c) \/ Duplicate(c)
      PROVE  \/ CheckUsername(c) /\ answer' = [to |-> c, what |-> "username exists"]
             \/ CheckEmail(c) /\ answer' = [to |-> c, what |-> "email exists"]
             \/ Duplicate(c) /\ answer' = [to |-> c, what |-> "username exists"]
  BY <1>2 DEF CheckUsername, CheckEmail, Duplicate, Answer, Continue
<1>3. ASSUME NEW c \in Clients, HashFailed(c) \/ Failed(c)
      PROVE  answer' = [to |-> c, what |-> "error"]
  BY <1>3 DEF HashFailed, Failed, Answer
<1>4. CASE \/ \E c \in Clients : Expire(c) \/ Disable(c)
           \/ \E r \in Replicas : Replicate(r)
           \/ UNCHANGED vars
  BY <1>4 DEF Expire, Disable, Replicate, vars
<1> QED  BY <1>1, <1>2, <1>3, <1>4 DEF Next

\* One step leaves the last answer explained.
LEMMA AnswerStep ==
    ASSUME Inv, [Next]_vars
    PROVE  RefusalsExplained'
<1> USE DEF Inv
<1>0. Users \subseteq Users'  BY TableChange
<1>1. CASE answer' = answer  BY <1>0, <1>1 DEF RefusalsExplained
<1>2. ASSUME NEW c \in Clients, CheckUsername(c),
             answer' = [to |-> c, what |-> "username exists"], answer' # answer
      PROVE  RefusalsExplained'
  <2>1. \A k \in Read : \A u \in GetByUsername(k, c) : u \in Users /\ NameOf[u] = NameOf[c]
    BY ReadPrefix DEF GetByUsername
  <2>2. \E k \in Read : GetByUsername(k, c) # {}
    BY <1>2 DEF CheckUsername
  <2> QED  BY <1>0, <1>2, <2>1, <2>2 DEF RefusalsExplained
<1>3. ASSUME NEW c \in Clients, CheckEmail(c),
             answer' = [to |-> c, what |-> "email exists"], answer' # answer
      PROVE  RefusalsExplained'
  <2>1. \A k \in Read : \A u \in GetByEmail(k, c) : u \in Users /\ EmailOf[u] = EmailOf[c]
    BY ReadPrefix DEF GetByEmail
  <2>2. \E k \in Read : GetByEmail(k, c) # {}
    BY <1>3 DEF CheckEmail, Continue
  <2>3. EmailOf[c] # NoEmail  BY <1>3 DEF CheckEmail, Answer, Continue, Goto, Given
  <2> QED  BY <1>0, <1>3, <2>1, <2>2, <2>3 DEF RefusalsExplained
<1>4. ASSUME NEW c \in Clients, Duplicate(c),
             answer' = [to |-> c, what |-> "username exists"]
      PROVE  RefusalsExplained'
  <2>1. \E u \in Users : NameOf[u] = NameOf[c] \/ EmailOf[u] = EmailOf[c]
    BY <1>4 DEF Duplicate, Clash, GetByUsername, GetByEmail, Users
  <2> QED  BY <1>0, <1>4, <2>1 DEF RefusalsExplained
<1>5. ASSUME NEW c \in Clients, NEW w \in {"registered", "invalid login", "disabled",
                "logged in", "unauthorized", "me", "not found", "error"},
             answer' = [to |-> c, what |-> w]
      PROVE  RefusalsExplained'
  <2>1. answer'.what = w  BY <1>5
  <2> QED  BY <1>5, <2>1 DEF RefusalsExplained
<1> QED  BY <1>1, <1>2, <1>3, <1>4, <1>5, AnswerChange

LEMMA InvStep == Inv /\ [Next]_vars => Inv'
BY TypeStep, IndexedStep, OwnStep, GivenStep, AnswerStep DEF Inv

\* The invariant holds in every reachable state.
THEOREM Invariant == Spec => []Inv
BY InvInit, InvStep, PTL DEF Spec

-----------------------------------------------------------------------------
(* What it means.                                                          *)

\* The state of requests, tokens, the table and its replicas is well-formed.
THEOREM TypeCorrect == Spec => []TypeOK
BY Invariant, PTL DEF Inv

\* Tokens of one name are of one user: both are rows of that name in a table
\* with unique names.
THEOREM IdentitiesUnique == Spec => []OneIdentityPerName
<1>1. Inv => OneIdentityPerName
  <2> SUFFICES ASSUME Inv, NEW a \in Clients, NEW b \in Clients,
                      token[a] # NoUser, token[b] # NoUser
               PROVE  token[a] = token[b] <=> NameOf[a] = NameOf[b]
    BY DEF OneIdentityPerName
  <2>1. /\ token[a] \in Users /\ NameOf[token[a]] = NameOf[a]
        /\ token[b] \in Users /\ NameOf[token[b]] = NameOf[b]
    BY DEF Inv, Own, Committed
  <2> QED  BY <2>1 DEF Inv, Indexed
<1> QED  BY <1>1, Invariant, PTL

\* Register refuses a name or an e-mail only because of a committed row with the
\* name, with the e-mail, or without one like the request: the only way in which
\* RefusedOnlyDuplicates is violated.
THEOREM RefusalCauses == Spec => []RefusalsExplained
BY Invariant, PTL DEF Inv

\* An internal error is answered only in the step in which a statement fails, or
\* because of a password that is too long: never to the loser of a race.
THEOREM RacesTold == Spec => RacesAnswered
<1>1. Inv /\ [Next]_vars => [answer' # answer /\ answer'.what = "error" =>
                                 faults' > faults \/ answer'.to \in long]_vars
  <2> SUFFICES ASSUME Inv, [Next]_vars, answer' # answer, answer'.what = "error"
               PROVE  faults' > faults \/ answer'.to \in long
    OBVIOUS
  <2>1. ASSUME NEW c, NEW w, answer' = [to |-> c, what |-> w]
        PROVE  w = "error" /\ answer'.to = c
    BY <2>1
  <2>2. PICK c \in Clients :
              \/ HashFailed(c) /\ answer' = [to |-> c, what |-> "error"]
              \/ Failed(c)
              \/ \E w \in {"username exists", "email exists", "registered", "invalid login",
                           "disabled", "logged in", "unauthorized", "me", "not found"} :
                    answer' = [to |-> c, what |-> w]
    BY AnswerChange
  <2>3. CASE HashFailed(c) /\ answer' = [to |-> c, what |-> "error"]
    BY <2>1, <2>3 DEF HashFailed
  <2>4. CASE Failed(c)
    <3>1. faults \in Nat  BY AuthAssumption DEF Inv, TypeOK
    <3> QED  BY <2>4, <3>1 DEF Failed
  <2> QED  BY <2>1, <2>2, <2>3, <2>4
<1>2. Spec => [][Next]_vars  BY PTL DEF Spec
<1> QED  BY <1>1, <1>2, Invariant, PTL DEF RacesAnswered

\* GetMe answers "not found" only while a replica is behind.
THEOREM NotFoundIsLag == Spec => NotFoundMeansLag
<1>1. Inv /\ [Next]_vars => [answer' # answer /\ answer'.what = "not found" =>
                                \E r \in Replicas : pos[r] < Len(log)]_vars
  <2>a. SUFFICES ASSUME Inv, Next, answer' # answer, answer'.what = "not found",
                         \A r \in Replicas : ~(pos[r] < Len(log))
                  PROVE  FALSE
    BY DEF Next
  <2>1. PICK c \in Clients : GetMe(c)
    <3>1. ASSUME NEW d \in Clients, NEW w, answer' = [to |-> d, what |-> w], w # "not found"
          PROVE  FALSE
      <4>1. answer'.what = w  BY <3>1
      <4> QED  BY <2>a, <3>1, <4>1
    <3> QED  BY <2>a, <3>1 DEF Next, Answer, Continue, CheckUsername, CheckEmail, HashFailed, InsertUser, Duplicate,
                Login, Verify, Failed, Expire, Disable, Replicate
  <2>2. \A k \in Read : k = Len(log)
    <3>1. \A r \in Replicas : pos[r] \in Nat /\ pos[r] <= Len(log)  BY <2>a DEF Inv, TypeOK
    <3>2. Len(log) \in Nat  BY <2>a, LogIsSeq DEF Inv
    <3>3. ASSUME NEW r \in Replicas PROVE pos[r] = Len(log)
      <4>1. ~(pos[r] < Len(log))  BY <2>a
      <4> QED  BY <3>1, <3>2, <4>1
    <3>4. CASE Replicas = {}  BY <3>4 DEF Read
    <3>5. CASE Replicas # {}
      <4>1. Read = {pos[r] : r \in Replicas}  BY <3>5 DEF Read
      <4> QED  BY <3>3, <4>1
    <3> QED  BY <3>4, <3>5
  <2>3. Authorized(c) => token[c] \in Users  BY <2>a DEF Inv, Own, Committed, Authorized
  <2>4. \A k \in Read : Authorized(c) => GetUserInfo(k, token[c]) = "me"
    BY <2>2, <2>3 DEF GetUserInfo, GetByID, Users
  <2>5. answer' = [to |-> c, what |-> "unauthorized"] \/ answer' = [to |-> c, what |-> "me"]
    BY <2>1, <2>4 DEF GetMe, Answer
  <2>6. ASSUME NEW w, answer' = [to |-> c, what |-> w] PROVE answer'.what = w  BY <2>6
  <2> QED  BY <2>a, <2>5, <2>6
<1>2. Spec => [][Next]_vars  BY PTL DEF Spec
<1> QED  BY <1>1, <1>2, Invariant, PTL DEF NotFoundMeansLag

\* Once no database that may be read has the user as active, and no login that
\* read it so is under way, no step issues a token of the user.
THEOREM DisabledOut == Spec => DisabledStaysOut
<1> DEFINE Kept == \A u \in Clients : OutOfReach(u) =>
                      OutOfReach(u)' /\ \A c \in Clients : token'[c] = u => token[c] = u
<1>1. Inv /\ [Next]_vars => [Kept]_vars
  <2> SUFFICES ASSUME Inv, Next, NEW u \in Clients, OutOfReach(u)
               PROVE  OutOfReach(u)' /\ \A c \in Clients : token'[c] = u => token[c] = u
    BY DEF Next
  <2>0. TypeOK /\ u # NoUser  BY AuthAssumption DEF Inv
  <2>1. /\ Len(log) \in Nat /\ Len(log') \in Nat /\ Len(log) <= Len(log')
        /\ \A i \in 1..Len(log) : log'[i] = log[i]
    BY <2>0, TableChange
  <2> DEFINE Off(k) == \E i \in 1..k : log'[i] = Disabled(u)
  <2>2. \A j \in 0..Len(log), k \in 0..Len(log') : Inactive(j, u) /\ j <= k => Off(k)
    BY <2>1 DEF Inactive
  <2> HIDE DEF Off
  <2>3. \A k \in Read' : Off(k)
    <3>1. CASE Replicas = {}
      <4>1. Inactive(Len(log), u)  BY <3>1 DEF OutOfReach, Read
      <4>2. Off(Len(log'))  BY <2>1, <2>2, <4>1
      <4>3. Read' = {Len(log')}  BY <3>1 DEF Read
      <4> QED  BY <4>2, <4>3
    <3>2. ASSUME NEW r \in Replicas PROVE Off(pos'[r])
      <4>1. Inactive(pos[r], u)  BY <3>2 DEF OutOfReach, Read
      <4>2. pos[r] \in 0..Len(log)  BY <2>0, <2>1 DEF TypeOK
      <4>3. pos'[r] \in 0..Len(log')  BY <2>1, TypeStep DEF TypeOK
      <4>4. pos[r] <= pos'[r]
        <5>1. pos' = pos \/ \E s \in Replicas : Replicate(s)
          BY DEF Next, CheckUsername, CheckEmail, HashFailed, InsertUser, Duplicate, Login, Verify, GetMe,
                 Failed, Expire, Disable
        <5> QED  BY <2>0, <4>2, <5>1 DEF TypeOK, Replicate
      <4> QED  BY <2>2, <4>1, <4>2, <4>3, <4>4
    <3>3. CASE Replicas # {}
      <4>1. Read' = {pos'[r] : r \in Replicas}  BY <3>3 DEF Read
      <4> QED  BY <3>2, <4>1
    <3> QED  BY <3>1, <3>3
  <2>4. u \in Users
    <3>1. PICK k \in Read : Inactive(k, u)  BY DEF OutOfReach, Read
    <3>2. k \in 0..Len(log)  BY <2>0, ReadPrefix
    <3>3. PICK i \in 1..k : log[i] = Disabled(u)  BY <3>1 DEF Inactive
    <3>4. i \in 1..Len(log) /\ Disabled(u).user = u  BY <2>1, <3>2 DEF Disabled
    <3> QED  BY <3>3, <3>4 DEF Inv, Indexed
  <2>5. ~InsertUser(u)
    <3>1. Clash(u)  BY <2>4 DEF Clash, GetByUsername, Users
    <3> QED  BY <3>1 DEF InsertUser
  <2>6. ASSUME NEW c \in Clients PROVE found'[c] # u /\ (token'[c] = u => token[c] = u)
    <3> USE DEF TypeOK
    <3>0. found[c] # u /\ \A d \in Clients : found[d] # u  BY DEF OutOfReach
    <3>1. ASSUME NEW d \in Clients, Login(d)
          PROVE  found'[c] # u /\ token' = token
      <4>1. \/ found' = found
            \/ \E k \in Read : \E v : ~Inactive(k, v) /\ found' = [found EXCEPT ![d] = v]
        BY <3>1 DEF Login
      <4>2. \A k \in Read : \A v : ~Inactive(k, v) => v # u  BY DEF OutOfReach
      <4>3. token' = token /\ found \in [Clients -> Clients \cup {NoUser}]
        BY <2>0, <3>1 DEF Login
      <4> QED  BY <3>0, <4>1, <4>2, <4>3
    <3>2. ASSUME NEW d \in Clients, Verify(d)
          PROVE  found'[c] # u /\ (token'[c] = u => token[c] = u)
      BY <2>0, <3>0, <3>2 DEF Verify, generateToken
    <3>3. ASSUME NEW d \in Clients, InsertUser(d)
          PROVE  found' = found /\ (token'[c] = u => token[c] = u)
      BY <2>0, <2>5, <3>3 DEF InsertUser, generateToken
    <3>4. ASSUME NEW d \in Clients, Expire(d)
          PROVE  found' = found /\ (token'[c] = u => token[c] = u)
      BY <2>0, <3>4 DEF Expire
    <3>5. CASE UNCHANGED <<token, found>>  BY <3>0, <3>5
    <3> QED  BY <3>0, <3>1, <3>2, <3>3, <3>4, <3>5 DEF Next, CheckUsername, CheckEmail, HashFailed, Duplicate,
                GetMe, Failed, Disable, Replicate
  <2>7. (\A k \in Read : Inactive(k, u))'  BY <2>3 DEF Inactive, Off
  <2> QED  BY <2>6, <2>7 DEF OutOfReach
<1>2. Spec => [][Next]_vars  BY PTL DEF Spec
<1> QED  BY <1>1, <1>2, Invariant, PTL DEF DisabledStaysOut
=============================================================================
