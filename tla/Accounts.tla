------------------------------ MODULE Accounts ------------------------------
(***************************************************************************)
(* Accounts, chat sessions and delegated calls over one SQLite file.       *)
(*                                                                         *)
(* The main process serves /user, /auth and /chat; the A2A process serves  *)
(* the agents other than the base agent.  Each has one connection to the   *)
(* file (StaticPool), which every Session of the process shares.  What an  *)
(* endpoint does between two awaits is alone on the event loop; but the    *)
(* lookups of the dependencies, and the closing of a Session, which sends  *)
(* ROLLBACK when the Session has a transaction, run in worker threads, and *)
(* so between any two statements of an endpoint.                           *)
(*                                                                         *)
(* How a turn goes is the matter of AgentSession.                          *)
(***************************************************************************)
EXTENDS Integers, FiniteSets

CONSTANTS
  Names,       \* usernames
  EmailOf,     \* the e-mail address each of them signs up with
  Registered,  \* the ones that have an account at the start
  UserOf,      \* their user_id
  Requests,    \* requests to the main process
  Calls,       \* calls of the delegated agent
  MaxSession,  \* bound: session ids a client may name
  Starts       \* bound: starts of the A2A process

Ids == Nat \ {0}

ASSUME RegisteredAssumption == Registered \subseteq Names
ASSUME BoundsAssumption     == MaxSession \in Nat /\ Starts \in Nat

(* user_id is a primary key, and of finitely many rows one has the largest *)
(* id.                                                                     *)
ASSUME UserOfAssumption ==
  /\ UserOf \in [Registered -> Ids]
  /\ \A m, n \in Registered : UserOf[m] = UserOf[n] => m = n
  /\ Registered = {} \/ \E m \in Registered : \A n \in Registered : UserOf[n] <= UserOf[m]

VARIABLES
  db,      \* the committed tables
  work,    \* the tables as the main process's connection sees them
  open,    \* that connection is in a transaction that has written
  loop,    \* the request whose endpoint is between two awaits; {}: none
  pc,      \* pc[r]: where request r is
  ask,     \* ask[r]: what it asks: kind, name and, for a run, session
  user,    \* user[r]: the user_id its token stands for; 0: none
  row,     \* row[r]: the id of the row it has inserted
  used,    \* used[r]: its Session has a transaction
  status,  \* status[r]: the answer; 0: none
  hit,     \* history: a ROLLBACK of another request fell on r's rows
  tokens,  \* the names whose tokens clients have
  server,  \* the A2A process: "off", "up", or "dead": it raised while starting
  starts,  \* how often it was started
  call,    \* call[c]: where delegated call c is
  made     \* made[c]: the chat session made for it

tables == <<db, work, open>>
asked == <<ask, user, row, used, hit>>
delegated == <<call, made>>
vars == <<tables, loop, pc, asked, status, tokens, server, starts, delegated>>

Kinds == {"none", "signup", "login", "chat", "run"}

TablesOK(t) ==
  /\ t = [users |-> t.users, humans |-> t.humans, agents |-> t.agents,
          sessions |-> t.sessions, prompts |-> t.prompts]
  /\ t.users \subseteq Ids
  /\ DOMAIN t.humans \subseteq Names /\ \A n \in DOMAIN t.humans : t.humans[n] \in Ids
  /\ DOMAIN t.agents \subseteq Ids
  /\ DOMAIN t.sessions \subseteq Ids
  /\ t.prompts \subseteq Requests

TypeOK ==
  /\ TablesOK(db) /\ TablesOK(work) /\ open \in BOOLEAN
  /\ loop \subseteq Requests /\ Cardinality(loop) <= 1
  /\ pc \in [Requests -> {"new", "ready", "inserting", "committing",
                          "refreshing", "serving", "answered", "closed"}]
  /\ ask \in [Requests -> [kind : Kinds, name : Names \cup {"none"}, session : Nat]]
  /\ user \in [Requests -> Nat] /\ row \in [Requests -> Nat]
  /\ used \in [Requests -> BOOLEAN] /\ hit \in [Requests -> BOOLEAN]
  /\ status \in [Requests -> {0, 200, 201, 401, 409, 500}]
  /\ tokens \subseteq Names
  /\ server \in {"off", "up", "dead"} /\ starts \in 0 .. Starts
  /\ call \in [Calls -> {"new", "serving", "answered", "refused", "failed"}]
  /\ made \in [Calls -> Nat]

(* A rowid is the largest one plus one.                                    *)
NextId(ids) == IF ids = {} THEN 1 ELSE 1 + CHOOSE i \in ids : \A j \in ids : j <= i

Empty == [i \in {} |-> 0]

(* Table f with one row more, the row of key k.                            *)
Insert(f, k, v) == [x \in DOMAIN f \cup {k} |-> IF x = k THEN v ELSE f[x]]
NoAsk == [kind |-> "none", name |-> "none", session |-> 0]

(* The tables that create_all makes, with accounts made before.            *)
Init ==
  /\ db = [users |-> {UserOf[n] : n \in Registered},
           humans |-> [n \in Registered |-> UserOf[n]],
           agents |-> Empty, sessions |-> Empty, prompts |-> {}]
  /\ work = db /\ open = FALSE
  /\ loop = {}
  /\ pc = [r \in Requests |-> "new"]
  /\ ask = [r \in Requests |-> NoAsk]
  /\ user = [r \in Requests |-> 0] /\ row = [r \in Requests |-> 0]
  /\ used = [r \in Requests |-> FALSE] /\ hit = [r \in Requests |-> FALSE]
  /\ status = [r \in Requests |-> 0]
  /\ tokens = Registered
  /\ server = "off" /\ starts = 0
  /\ call = [c \in Calls |-> "new"]
  /\ made = [c \in Calls |-> 0]

-----------------------------------------------------------------------------
(* Statements on the main process's connection.  The first one that writes *)
(* waits until the A2A process does not, whose transactions are one step.  *)
(* (Faulty variant: rows are flushed and never committed.)                 *)
Write(t) == work' = t /\ open' = TRUE /\ UNCHANGED db
Rollback == work' = db /\ open' = FALSE /\ UNCHANGED db
FlushRows == work' = work /\ open' = FALSE /\ UNCHANGED db
CommitRows == db' = work /\ open' = FALSE /\ UNCHANGED work

Answer(r, code) ==
  /\ status' = [status EXCEPT ![r] = code]
  /\ pc' = [pc EXCEPT ![r] = "answered"]

Goto(r, where) == pc' = [pc EXCEPT ![r] = where] /\ UNCHANGED status

Inserted(r, id) == row' = [row EXCEPT ![r] = id]
Uses(r) == used' = [used EXCEPT ![r] = TRUE]

-----------------------------------------------------------------------------
(* get_current_user: the user of a token that has not expired, if there is *)
(* a row for both.                                                         *)
UserFound(n) ==
  IF n \in DOMAIN work.humans /\ work.humans[n] \in work.users
    THEN work.humans[n] ELSE 0

(* The dependencies of login, chat and run, in a worker thread.  A login   *)
(* names who it is for and may have a wrong password; a token that has     *)
(* expired is not looked up.                                               *)
Authenticate(r, a) ==
  /\ pc[r] = "new"
  /\ a.kind = "login" \/ a.name \in tokens
  /\ ask' = [ask EXCEPT ![r] = a]
  /\ \/ /\ user' = [user EXCEPT ![r] =
                      IF a.kind # "login" THEN UserFound(a.name)
                      ELSE IF a.name \in DOMAIN work.humans THEN work.humans[a.name]
                      ELSE 0]
        /\ Uses(r)
     \/ /\ a.kind = "login"
        /\ Uses(r) /\ UNCHANGED user
     \/ a.kind # "login" /\ UNCHANGED <<used, user>>
  /\ Goto(r, "ready")
  /\ UNCHANGED <<tables, loop, row, hit, tokens, server, starts, delegated>>

(* login_for_access_token                                                  *)
Login(r) ==
  /\ pc[r] = "ready" /\ ask[r].kind = "login" /\ loop = {}
  /\ IF user[r] # 0
       THEN Answer(r, 200) /\ tokens' = tokens \cup {ask[r].name}
       ELSE Answer(r, 401) /\ UNCHANGED tokens
  /\ UNCHANGED <<tables, loop, asked, server, starts, delegated>>

-----------------------------------------------------------------------------
(* create_user looks for the username only, then commits: the users row is *)
(* inserted first, and its id goes into the human_users row.               *)
(* (Faulty variant: it looks for nothing.)                                 *)
NeverTaken(n) == n \notin Names
Taken(n) == n \in DOMAIN work.humans

SignupTaken(r, n) ==
  /\ pc[r] = "new" /\ loop = {}
  /\ Taken(n)
  /\ ask' = [ask EXCEPT ![r] = [kind |-> "signup", name |-> n, session |-> 0]]
  /\ Answer(r, 409)
  /\ Uses(r)
  /\ UNCHANGED <<tables, loop, user, row, hit, tokens, server, starts, delegated>>

InsertUser(r, n) ==
  /\ pc[r] = "new" /\ loop = {}
  /\ ~Taken(n)
  /\ ask' = [ask EXCEPT ![r] = [kind |-> "signup", name |-> n, session |-> 0]]
  /\ LET id == NextId(work.users)
     IN  Inserted(r, id) /\ Write([work EXCEPT !.users = @ \cup {id}])
  /\ loop' = {r}
  /\ Uses(r)
  /\ Goto(r, "inserting")
  /\ UNCHANGED <<user, hit, tokens, server, starts, delegated>>

(* The UNIQUE constraints of human_users; SQLite does not look at foreign  *)
(* keys.                                                                   *)
Unique(n, id) ==
  \A m \in DOMAIN work.humans :
    m # n /\ EmailOf[m] # EmailOf[n] /\ work.humans[m] # id

InsertHuman(r) ==
  /\ pc[r] = "inserting"
  /\ Unique(ask[r].name, row[r])
  /\ Write([work EXCEPT !.humans = Insert(@, ask[r].name, row[r])])
  /\ Goto(r, "committing")
  /\ UNCHANGED <<loop, asked, tokens, server, starts, delegated>>

(* IntegrityError: the flush rolls back and the Session is without a       *)
(* transaction when it is closed.                                          *)
InsertHumanFails(r) ==
  /\ pc[r] = "inserting"
  /\ ~Unique(ask[r].name, row[r])
  /\ Rollback
  /\ used' = [used EXCEPT ![r] = FALSE]
  /\ loop' = {}
  /\ Answer(r, 500)
  /\ UNCHANGED <<ask, user, row, hit, tokens, server, starts, delegated>>

-----------------------------------------------------------------------------
(* make_chat_session                                                       *)
InsertSession(r) ==
  /\ pc[r] = "ready" /\ ask[r].kind = "chat" /\ loop = {}
  /\ user[r] # 0
  /\ LET id == NextId(DOMAIN work.sessions)
     IN  Inserted(r, id) /\ Write([work EXCEPT !.sessions = Insert(@, id, user[r])])
  /\ loop' = {r}
  /\ Uses(r)
  /\ Goto(r, "committing")
  /\ UNCHANGED <<ask, user, hit, tokens, server, starts, delegated>>

NoUser(r) ==
  /\ pc[r] = "ready" /\ loop = {}
  /\ user[r] = 0
  /\ \/ ask[r].kind = "chat" /\ Answer(r, 401)
     \/ ask[r].kind = "run" /\ Answer(r, 500)
  /\ UNCHANGED <<tables, loop, asked, tokens, server, starts, delegated>>

(* validate_user_session.  (Faulty variant: the session exists.)           *)
SessionExists(u, s) == s \in DOMAIN work.sessions /\ u # 0
ValidateUserSession(u, s) == s \in DOMAIN work.sessions /\ work.sessions[s] = u

(* AgentService finds its session's user, and the agent that is this user  *)
(* or the base agent.                                                      *)
AgentFound(u) == u \in work.users /\ 1 \in DOMAIN work.agents

MayRun(r) ==
  ValidateUserSession(user[r], ask[r].session) /\ AgentFound(work.sessions[ask[r].session])

(* run_model: the prompt of a valid session is added and committed.        *)
InsertPrompt(r) ==
  /\ pc[r] = "ready" /\ ask[r].kind = "run" /\ loop = {}
  /\ user[r] # 0
  /\ MayRun(r)
  /\ Write([work EXCEPT !.prompts = @ \cup {r}])
  /\ loop' = {r}
  /\ Uses(r)
  /\ Goto(r, "committing")
  /\ UNCHANGED <<ask, user, row, hit, tokens, server, starts, delegated>>

RefuseRun(r) ==
  /\ pc[r] = "ready" /\ ask[r].kind = "run" /\ loop = {}
  /\ user[r] # 0
  /\ ~MayRun(r)
  /\ Uses(r)
  /\ Answer(r, 500)
  /\ UNCHANGED <<tables, loop, ask, user, row, hit, tokens, server, starts, delegated>>

-----------------------------------------------------------------------------
(* COMMIT of whatever the transaction still holds.  What was committed has *)
(* expired, and is read again; a turn goes on to the model.                *)
Commit(r) ==
  /\ pc[r] = "committing"
  /\ CommitRows
  /\ used' = [used EXCEPT ![r] = FALSE]
  /\ IF ask[r].kind = "run"
       THEN Goto(r, "serving") /\ loop' = {}
       ELSE Goto(r, "refreshing") /\ UNCHANGED loop
  /\ UNCHANGED <<ask, user, row, hit, tokens, server, starts, delegated>>

(* The row that the answer is made from is read by its primary key, and    *)
(* ObjectDeletedError raised when it is not there.                         *)
Present(r) ==
  IF ask[r].kind = "signup" THEN ask[r].name \in DOMAIN work.humans
  ELSE row[r] \in DOMAIN work.sessions

Refresh(r) ==
  /\ pc[r] = "refreshing"
  /\ IF ~Present(r) THEN Answer(r, 500) /\ UNCHANGED tokens
     ELSE IF ask[r].kind = "signup"
       THEN Answer(r, 201) /\ tokens' = tokens \cup {ask[r].name}
     ELSE Answer(r, 200) /\ UNCHANGED tokens
  /\ Uses(r)
  /\ loop' = {}
  /\ UNCHANGED <<tables, ask, user, row, hit, server, starts, delegated>>

(* The turn ends, well or not.  What it has delegated may go on when its   *)
(* client has left or something raised.                                    *)
EndTurn(r) ==
  /\ pc[r] = "serving" /\ loop = {}
  /\ Answer(r, 200)
  /\ UNCHANGED <<tables, loop, asked, tokens, server, starts, delegated>>

(* get_db_session closes the Session in a worker thread.                   *)
Close(r) ==
  /\ pc[r] = "answered"
  /\ IF used[r]
       THEN /\ Rollback
            /\ hit' = [q \in Requests |-> hit[q] \/ (open /\ q \in loop)]
       ELSE UNCHANGED <<tables, hit>>
  /\ Goto(r, "closed")
  /\ UNCHANGED <<loop, ask, user, row, used, tokens, server, starts, delegated>>

-----------------------------------------------------------------------------
(* make_agents, at every start of the A2A process.  The base agent has the *)
(* fixed id 1: on a file that has it the process ends with an error.       *)
Start ==
  /\ server = "off" /\ starts < Starts
  /\ starts' = starts + 1
  /\ ~open
  /\ LET u == NextId(db.users)
         prime == NextId(DOMAIN db.agents \cup {1})
     IN  IF 1 \in DOMAIN db.agents
           THEN server' = "dead" /\ UNCHANGED <<db, work>>
           ELSE /\ server' = "up"
                /\ db' = [db EXCEPT !.users = @ \cup {u, u + 1},
                            !.agents = Insert(Insert(@, 1, u), prime, u + 1)]
                /\ work' = db'
  /\ UNCHANGED <<open, loop, pc, asked, status, tokens, delegated>>

(* The process ends, and with it what it was doing.                        *)
Stop ==
  /\ server = "up"
  /\ server' = "off"
  /\ call' = [c \in Calls |-> IF call[c] = "serving" THEN "failed" ELSE call[c]]
  /\ UNCHANGED <<tables, loop, pc, asked, status, tokens, starts, made>>

(* A task of a turn of the base agent calls the delegated one              *)
(* (run_a2a_base), maybe after its turn has ended.  The middleware lets it *)
(* pass with the key; execute makes a chat session of the agent's own for  *)
(* each call.                                                              *)
Begun(r) == ask[r].kind = "run" /\ (pc[r] = "serving" \/ status[r] = 200)

Delegate(r, c) ==
  /\ Begun(r) /\ call[c] = "new"
  /\ server = "up" /\ ~open
  /\ LET id == NextId(DOMAIN db.sessions)
         agent == CHOOSE a \in DOMAIN db.agents : a # 1
     IN  /\ db' = [db EXCEPT !.sessions = Insert(@, id, db.agents[agent])]
         /\ made' = [made EXCEPT ![c] = id]
  /\ work' = db'
  /\ call' = [call EXCEPT ![c] = "serving"]
  /\ UNCHANGED <<open, loop, pc, asked, status, tokens, server, starts>>

(* Wrong key, or no server: the tool of the calling turn raises.           *)
DelegateFails(r, c) ==
  /\ Begun(r) /\ call[c] = "new"
  /\ call' = [call EXCEPT ![c] = "refused"]
  /\ UNCHANGED <<tables, loop, pc, asked, status, tokens, server, starts, made>>

(* The turn of the delegated agent, which has no tools, ends: its last     *)
(* text, or none, is the answer; or the model fails.                       *)
EndDelegated(c) ==
  /\ call[c] = "serving"
  /\ \E how \in {"answered", "failed"} : call' = [call EXCEPT ![c] = how]
  /\ UNCHANGED <<tables, loop, pc, asked, status, tokens, server, starts, made>>

-----------------------------------------------------------------------------
Asks ==
  [kind : {"login", "chat"}, name : Names, session : {0}]
  \cup [kind : {"run"}, name : Names, session : 1 .. MaxSession]

AccountStep(r) ==
  \/ \E a \in Asks : Authenticate(r, a)
  \/ \E n \in Names : SignupTaken(r, n) \/ InsertUser(r, n)
  \/ Login(r) \/ InsertHuman(r) \/ InsertHumanFails(r)

ChatStep(r) ==
  InsertSession(r) \/ NoUser(r) \/ InsertPrompt(r) \/ RefuseRun(r)
  \/ Commit(r) \/ Refresh(r) \/ EndTurn(r) \/ Close(r)

AgentStep(c) ==
  EndDelegated(c) \/ \E r \in Requests : Delegate(r, c) \/ DelegateFails(r, c)

Next ==
  \/ \E r \in Requests : AccountStep(r) \/ ChatStep(r)
  \/ \E c \in Calls : AgentStep(c)
  \/ Start \/ Stop

Spec == Init /\ [][Next]_vars

-----------------------------------------------------------------------------
(* A row is lost only when another Session was closed while it was not     *)
(* committed: a request that nobody has hit finds all its rows stored.     *)
Stored(r) ==
  CASE ask[r].kind = "signup" ->
         /\ ask[r].name \in DOMAIN db.humans
         /\ row[r] \in db.users
    [] ask[r].kind = "chat" ->
         row[r] \in DOMAIN db.sessions /\ db.sessions[row[r]] = user[r]
    [] OTHER -> r \in db.prompts

LostOnlyByClose ==
  \A r \in Requests :
    pc[r] \in {"refreshing", "serving"} \/ status[r] \in {200, 201} =>
      ask[r].kind = "login" \/ hit[r] \/ Stored(r)

(* A signup fails with 500 only if it was hit, if somebody has its e-mail  *)
(* address, or if it gets the users id of an earlier account whose own     *)
(* users row was lost when it was hit, as every later signup then does.    *)
SignupFailsOnly ==
  \A r \in Requests : ask[r].kind = "signup" /\ status[r] = 500 =>
    \/ hit[r]
    \/ \E q \in Requests : hit[q] /\ ask[q].kind = "signup" /\ row[q] = row[r]
    \/ \E m \in DOMAIN db.humans : m # ask[r].name /\ EmailOf[m] = EmailOf[ask[r].name]

(* A chat session is only ever used by the one it was made for, although   *)
(* ids of lost rows are given again: no two accounts run turns in it       *)
(* (unless a signup of one of them was hit: who logged in meanwhile holds  *)
(* a token, and the id of a row that is gone), nobody runs one in the      *)
(* session of a delegated call, and no two calls share one.                *)
HitSignup(n) == \E p \in Requests : hit[p] /\ ask[p].kind = "signup" /\ ask[p].name = n

SessionsPrivate ==
  /\ \A q, r \in db.prompts :
       ask[q].session = ask[r].session =>
         ask[q].name = ask[r].name \/ HitSignup(ask[q].name) \/ HitSignup(ask[r].name)
  /\ \A c \in Calls : \A r \in db.prompts : made[c] # ask[r].session
  /\ \A c, d \in Calls : made[c] = made[d] /\ made[c] # 0 => c = d
=============================================================================
