--------------------------- MODULE AccountsProofs ---------------------------
(***************************************************************************)
(* Theorems about Accounts, for any set of names, requests and calls, any  *)
(* accounts at the start, and any number of session ids and of starts of   *)
(* the A2A process.                                                        *)
(***************************************************************************)
EXTENDS Accounts, FiniteSetTheorems, TLAPS

-----------------------------------------------------------------------------
(***************************************************************************)
(* The inductive invariant.                                                *)
(***************************************************************************)

(* A table's ids have a largest one, so that the next one is new.          *)
Bounded(ids) == ids = {} \/ \E i \in ids : \A j \in ids : j <= i

(* t has every row of s, unchanged.                                        *)
Extends(t, s) ==
  /\ s.users \subseteq t.users
  /\ \A n \in DOMAIN s.humans : n \in DOMAIN t.humans /\ t.humans[n] = s.humans[n]
  /\ \A a \in DOMAIN s.agents : a \in DOMAIN t.agents /\ t.agents[a] = s.agents[a]
  /\ \A i \in DOMAIN s.sessions : i \in DOMAIN t.sessions /\ t.sessions[i] = s.sessions[i]
  /\ s.prompts \subseteq t.prompts

(* The connection sees the committed tables and what its transaction adds. *)
WorkExtends ==
  /\ Extends(work, db)
  /\ work.agents = db.agents
  /\ ~open => work = db

TablesBounded ==
  /\ Bounded(db.users) /\ Bounded(work.users)
  /\ Bounded(DOMAIN db.sessions) /\ Bounded(DOMAIN work.sessions)

Holding == {"inserting", "committing", "refreshing"}

(* One endpoint at a time is between two awaits, and only one that writes  *)
(* has the transaction open.                                               *)
LoopHeld ==
  /\ \A q, r \in loop : q = r
  /\ \A r \in Requests : r \in loop <=> pc[r] \in Holding
  /\ open => \E r \in loop : pc[r] \in {"inserting", "committing"}

(* What a request asks for, and how it was answered, at each point.        *)
Phases ==
  \A r \in Requests :
    /\ pc[r] = "new" => ask[r].kind = "none"
    /\ pc[r] = "ready" => ask[r].kind \in {"login", "chat", "run"}
    /\ pc[r] = "inserting" => ask[r].kind = "signup"
    /\ pc[r] = "committing" => ask[r].kind \in {"signup", "chat", "run"}
    /\ pc[r] = "refreshing" => ask[r].kind \in {"signup", "chat"}
    /\ pc[r] = "serving" => ask[r].kind = "run"
    /\ hit[r] => pc[r] \notin {"new", "ready"}
    /\ status[r] # 0 => pc[r] \in {"answered", "closed"}
    /\ status[r] = 201 => ask[r].kind = "signup"
    /\ status[r] = 200 => ask[r].kind \in {"login", "chat", "run"}
    /\ ask[r].kind = "run" => ask[r].session # 0
    /\ pc[r] \in {"ready", "inserting", "committing"} => ask[r].name \in Names
    /\ pc[r] = "inserting" => row[r] # 0

(* The rows of an account that another request's ROLLBACK took.            *)
LostId(id) == \E q \in Requests : hit[q] /\ ask[q].kind = "signup" /\ row[q] = id

(* An account that is not committed is the one being signed up.            *)
HumansNew ==
  \A m \in DOMAIN work.humans \ DOMAIN db.humans :
    \E r \in loop : /\ pc[r] = "committing" /\ ask[r].kind = "signup"
                    /\ ask[r].name = m /\ row[r] = work.humans[m]

(* No two accounts have one id; an account without its users row has lost  *)
(* it.                                                                     *)
HumansDistinct ==
  \A m, n \in DOMAIN work.humans : work.humans[m] = work.humans[n] => m = n
HumansOrigin ==
  \A m \in DOMAIN work.humans : work.humans[m] \in work.users \/ LostId(work.humans[m])
HumansCommitted ==
  \A m \in DOMAIN db.humans : db.humans[m] \in db.users \/ LostId(db.humans[m])

(* What the endpoint that has the loop has done so far, unless it was hit. *)
Inserting ==
  \A r \in Requests : pc[r] = "inserting" =>
    /\ ask[r].name \notin DOMAIN db.humans
    /\ hit[r] \/ row[r] \in work.users
    /\ \A m \in DOMAIN work.humans : work.humans[m] = row[r] => LostId(row[r])

StoredIn(t, r) ==
  CASE ask[r].kind = "signup" -> ask[r].name \in DOMAIN t.humans /\ row[r] \in t.users
    [] ask[r].kind = "chat" ->
         row[r] \in DOMAIN t.sessions /\ t.sessions[row[r]] = user[r]
    [] OTHER -> r \in t.prompts

Committing ==
  \A r \in Requests : pc[r] = "committing" =>
    /\ hit[r] \/ StoredIn(work, r)
    /\ ask[r].kind = "signup" => ask[r].name \notin DOMAIN db.humans

(* The agents are none, or two with ids and users rows of their own.       *)
AgentsMade ==
  /\ \/ DOMAIN db.agents = {}
     \/ DOMAIN db.agents = {1, 2} /\ db.agents[2] \in db.users
  /\ server = "up" => DOMAIN db.agents = {1, 2}

(* No id that was given to an account, lost or not, is beyond the next one *)
(* or the delegated agent's.                                               *)
Below(id) ==
  /\ id <= NextId(db.users)
  /\ 2 \in DOMAIN db.agents => id # db.agents[2]

IdsBelow ==
  /\ \A m \in DOMAIN work.humans : Below(work.humans[m])
  /\ \A r \in Requests : Below(user[r])
  /\ \A r \in Requests : pc[r] = "inserting" => Below(row[r])

(* A request acts as the account its token names, unless that was lost.    *)
UsersKnown ==
  \A r \in Requests :
    /\ pc[r] = "new" => user[r] = 0
    /\ ask[r].kind \in {"chat", "run"} /\ user[r] # 0 =>
         \/ ask[r].name \in DOMAIN work.humans /\ work.humans[ask[r].name] = user[r]
         \/ HitSignup(ask[r].name)

(* Prompts are in sessions of their user, delegated calls in the agent's.  *)
PromptsOwned ==
  \A r \in work.prompts :
    /\ ask[r].kind = "run" /\ pc[r] \notin {"new", "ready"} /\ user[r] # 0
    /\ ask[r].session \in DOMAIN db.sessions /\ db.sessions[ask[r].session] = user[r]

CallsOwned ==
  \A c \in Calls : made[c] # 0 =>
    /\ made[c] \in DOMAIN db.sessions /\ 2 \in DOMAIN db.agents
    /\ db.sessions[made[c]] = db.agents[2]
CallsApart == \A c, d \in Calls : made[c] = made[d] /\ made[c] # 0 => c = d

Base == TypeOK /\ WorkExtends /\ TablesBounded /\ LoopHeld /\ Phases /\ AgentsMade

-----------------------------------------------------------------------------
(***************************************************************************)
(* Ids and tables.                                                         *)
(***************************************************************************)

(* The next id is new, and the largest once it is given.                   *)
LEMMA NextIdNew ==
  ASSUME NEW S \in SUBSET Ids, Bounded(S)
  PROVE  /\ NextId(S) \in Ids
         /\ \A i \in S : i < NextId(S)
         /\ NextId(S) \notin S
         /\ S = {} => NextId(S) = 1
         /\ Bounded(S \cup {NextId(S)})
  <1>1. CASE S = {}
    <2>1. NextId(S) = 1
      BY <1>1 DEF NextId
    <2> QED  BY <1>1, <2>1 DEF Bounded, Ids
  <1>2. CASE S # {}
    <2> DEFINE m == CHOOSE i \in S : \A j \in S : j <= i
    <2>1. m \in S /\ \A j \in S : j <= m
      BY <1>2 DEF Bounded
    <2>2. NextId(S) = 1 + m
      BY <1>2 DEF NextId
    <2> HIDE DEF m
    <2>3. NextId(S) \in Ids /\ \A i \in S : i < NextId(S)
      BY <2>1, <2>2 DEF Ids
    <2>4. Bounded(S \cup {NextId(S)})
      <3>1. \A j \in S \cup {NextId(S)} : j <= NextId(S)
        BY <2>3 DEF Ids
      <3> QED  BY <3>1 DEF Bounded
    <2>5. NextId(S) \notin S
      BY <2>3 DEF Ids
    <2> QED  BY <1>2, <2>3, <2>4, <2>5, Zenon
  <1> QED  BY <1>1, <1>2

(* With more rows the next id is not smaller.                              *)
LEMMA NextIdGrows ==
  ASSUME NEW S \in SUBSET Ids, NEW T \in SUBSET Ids, Bounded(S), Bounded(T), S \subseteq T
  PROVE  NextId(S) <= NextId(T)
  <1>0. NextId(T) \in Ids /\ \A i \in T : i < NextId(T)
    BY NextIdNew
  <1>1. CASE S = {}
    BY <1>0, <1>1 DEF NextId, Ids
  <1>2. CASE S # {}
    <2> DEFINE m == CHOOSE i \in S : \A j \in S : j <= i
    <2>1. m \in S
      BY <1>2 DEF Bounded
    <2>2. NextId(S) = 1 + m
      BY <1>2 DEF NextId
    <2> HIDE DEF m
    <2> QED  BY <1>0, <2>1, <2>2 DEF Ids
  <1> QED  BY <1>1, <1>2

LEMMA ExtendsSelf == ASSUME NEW t PROVE Extends(t, t)
  BY DEF Extends

LEMMA ExtendsTwice ==
  ASSUME NEW s, NEW t, NEW u, Extends(t, s), Extends(u, t)
  PROVE  Extends(u, s)
  BY DEF Extends

-----------------------------------------------------------------------------
(***************************************************************************)
(* What each writing step does to the rows.                                *)
(***************************************************************************)

(* Between two endpoints there is no transaction.                          *)
LEMMA NoTransaction ==
  ASSUME Base, loop = {}
  PROVE  ~open /\ work = db
  BY DEF Base, LoopHeld, WorkExtends

(* The tables t become u by a write that adds rows of people, chat         *)
(* sessions and prompts.                                                   *)
Adds(t, u) ==
  TablesOK(u) /\ Extends(u, t) /\ u.agents = t.agents
  /\ Bounded(u.users) /\ Bounded(DOMAIN u.sessions)

LEMMA InsertUserRows ==
  ASSUME Base, NEW r \in Requests, NEW n \in Names, InsertUser(r, n)
  PROVE  /\ work = db /\ db' = db /\ open' = TRUE /\ Adds(work, work')
         /\ row' = [row EXCEPT ![r] = NextId(db.users)] /\ NextId(db.users) \in Ids
         /\ NextId(db.users) \notin db.users
         /\ work'.users = db.users \cup {NextId(db.users)}
         /\ work'.humans = db.humans /\ work'.sessions = db.sessions
         /\ work'.prompts = db.prompts
  <1> DEFINE id == NextId(db.users)
  <1>1. work = db /\ TablesOK(db) /\ Bounded(db.users) /\ Bounded(DOMAIN db.sessions)
    BY NoTransaction DEF Base, InsertUser, TypeOK, TablesBounded
  <1>2. id \in Ids /\ id \notin db.users /\ Bounded(db.users \cup {id})
    BY <1>1, NextIdNew DEF TablesOK
  <1>3. /\ row' = [row EXCEPT ![r] = id] /\ db' = db /\ open' = TRUE
        /\ work' = [work EXCEPT !.users = @ \cup {id}]
    BY <1>1 DEF InsertUser, Inserted, Write
  <1> HIDE DEF id
  <1>4. /\ work' = [users |-> work'.users, humans |-> work'.humans, agents |-> work'.agents,
                    sessions |-> work'.sessions, prompts |-> work'.prompts]
        /\ work'.users = db.users \cup {id} /\ work'.humans = db.humans
        /\ work'.agents = db.agents
        /\ work'.sessions = db.sessions /\ work'.prompts = db.prompts
    BY <1>1, <1>3 DEF TablesOK
  <1>5. TablesOK(work')
    BY <1>1, <1>2, <1>4 DEF TablesOK
  <1>6. Extends(work', work)
    BY <1>1, <1>4 DEF Extends
  <1>7. Adds(work, work')
    BY <1>1, <1>2, <1>4, <1>5, <1>6 DEF Adds
  <1> QED  BY <1>1, <1>2, <1>3, <1>4, <1>7 DEF id

LEMMA InsertHumanRows ==
  ASSUME Base, NEW r \in Requests, InsertHuman(r)
  PROVE  /\ db' = db /\ open' = TRUE /\ Adds(work, work')
         /\ ask[r].name \in Names /\ ask[r].name \notin DOMAIN work.humans
         /\ DOMAIN work'.humans = DOMAIN work.humans \cup {ask[r].name}
         /\ work'.humans[ask[r].name] = row[r]
         /\ \A m \in DOMAIN work.humans : work'.humans[m] = work.humans[m]
         /\ \A m \in DOMAIN work.humans : work.humans[m] # row[r]
         /\ work'.users = work.users /\ work'.sessions = work.sessions
         /\ work'.prompts = work.prompts
  <1> DEFINE n == ask[r].name
  <1>1. /\ TablesOK(work) /\ Bounded(work.users) /\ Bounded(DOMAIN work.sessions)
        /\ n \in Names
    BY DEF Base, InsertHuman, TypeOK, TablesBounded, Phases
  <1>2. row[r] \in Ids
    BY DEF Base, InsertHuman, Phases, TypeOK, Ids
  <1>3. n \notin DOMAIN work.humans /\ \A m \in DOMAIN work.humans : work.humans[m] # row[r]
    BY DEF InsertHuman, Unique
  <1>4. /\ db' = db /\ open' = TRUE
        /\ work' = [work EXCEPT !.humans = Insert(@, n, row[r])]
    BY DEF InsertHuman, Write
  <1> HIDE DEF n
  <1>5. /\ work' = [users |-> work'.users, humans |-> work'.humans, agents |-> work'.agents,
                    sessions |-> work'.sessions, prompts |-> work'.prompts]
        /\ work'.users = work.users /\ work'.humans = Insert(work.humans, n, row[r])
        /\ work'.agents = work.agents
        /\ work'.sessions = work.sessions /\ work'.prompts = work.prompts
    BY <1>1, <1>4 DEF TablesOK
  <1>6. /\ DOMAIN work'.humans = DOMAIN work.humans \cup {n}
        /\ work'.humans[n] = row[r]
        /\ \A m \in DOMAIN work.humans : work'.humans[m] = work.humans[m]
    BY <1>3, <1>5 DEF Insert
  <1>7. TablesOK(work')
    BY <1>1, <1>2, <1>5, <1>6 DEF TablesOK
  <1>8. Extends(work', work)
    BY <1>5, <1>6 DEF Extends
  <1>9. Adds(work, work')
    BY <1>1, <1>5, <1>7, <1>8 DEF Adds
  <1> QED  BY <1>1, <1>3, <1>4, <1>5, <1>6, <1>9 DEF n

LEMMA InsertSessionRows ==
  ASSUME Base, NEW r \in Requests, InsertSession(r)
  PROVE  /\ work = db /\ db' = db /\ open' = TRUE /\ Adds(work, work')
         /\ row' = [row EXCEPT ![r] = NextId(DOMAIN db.sessions)]
         /\ NextId(DOMAIN db.sessions) \in Ids
         /\ NextId(DOMAIN db.sessions) \notin DOMAIN db.sessions
         /\ DOMAIN work'.sessions = DOMAIN db.sessions \cup {NextId(DOMAIN db.sessions)}
         /\ work'.sessions[NextId(DOMAIN db.sessions)] = user[r]
         /\ work'.users = db.users /\ work'.humans = db.humans
         /\ work'.prompts = db.prompts
  <1> DEFINE id == NextId(DOMAIN db.sessions)
  <1>1. /\ work = db /\ TablesOK(db) /\ Bounded(db.users) /\ Bounded(DOMAIN db.sessions)
    BY NoTransaction DEF Base, InsertSession, TypeOK, TablesBounded
  <1>2. /\ id \in Ids /\ id \notin DOMAIN db.sessions
        /\ Bounded(DOMAIN db.sessions \cup {id})
    BY <1>1, NextIdNew DEF TablesOK
  <1>3. /\ row' = [row EXCEPT ![r] = id] /\ db' = db /\ open' = TRUE
        /\ work' = [work EXCEPT !.sessions = Insert(@, id, user[r])]
    BY <1>1 DEF InsertSession, Inserted, Write
  <1> HIDE DEF id
  <1>4. /\ work' = [users |-> work'.users, humans |-> work'.humans, agents |-> work'.agents,
                    sessions |-> work'.sessions, prompts |-> work'.prompts]
        /\ work'.users = db.users /\ work'.humans = db.humans
        /\ work'.agents = db.agents
        /\ work'.sessions = Insert(db.sessions, id, user[r]) /\ work'.prompts = db.prompts
    BY <1>1, <1>3 DEF TablesOK
  <1>5. /\ DOMAIN work'.sessions = DOMAIN db.sessions \cup {id}
        /\ work'.sessions[id] = user[r]
        /\ \A i \in DOMAIN db.sessions : work'.sessions[i] = db.sessions[i]
    BY <1>2, <1>4 DEF Insert
  <1>6. TablesOK(work')
    BY <1>1, <1>2, <1>4, <1>5 DEF TablesOK
  <1>7. Extends(work', work)
    BY <1>1, <1>4, <1>5 DEF Extends
  <1>8. Adds(work, work')
    BY <1>1, <1>2, <1>4, <1>5, <1>6, <1>7 DEF Adds
  <1> QED  BY <1>1, <1>2, <1>3, <1>4, <1>5, <1>8 DEF id

LEMMA InsertPromptRows ==
  ASSUME Base, NEW r \in Requests, InsertPrompt(r)
  PROVE  /\ work = db /\ db' = db /\ open' = TRUE /\ Adds(work, work')
         /\ work'.prompts = db.prompts \cup {r}
         /\ work'.users = db.users /\ work'.humans = db.humans
         /\ work'.sessions = db.sessions
  <1>1. work = db /\ TablesOK(db) /\ Bounded(db.users) /\ Bounded(DOMAIN db.sessions)
    BY NoTransaction DEF Base, InsertPrompt, TypeOK, TablesBounded
  <1>2. /\ db' = db /\ open' = TRUE
        /\ work' = [work EXCEPT !.prompts = @ \cup {r}]
    BY DEF InsertPrompt, Write
  <1>3. /\ work' = [users |-> work'.users, humans |-> work'.humans, agents |-> work'.agents,
                    sessions |-> work'.sessions, prompts |-> work'.prompts]
        /\ work'.users = db.users /\ work'.humans = db.humans
        /\ work'.agents = db.agents
        /\ work'.sessions = db.sessions /\ work'.prompts = db.prompts \cup {r}
    BY <1>1, <1>2 DEF TablesOK
  <1>4. TablesOK(work')
    BY <1>1, <1>3 DEF TablesOK
  <1>5. Extends(work', work)
    BY <1>1, <1>3 DEF Extends
  <1>6. Adds(work, work')
    BY <1>1, <1>3, <1>4, <1>5 DEF Adds
  <1> QED  BY <1>1, <1>2, <1>3, <1>6

(* A start of the A2A process ends, or makes the two agents, whose users   *)
(* are new.                                                                *)
LEMMA StartRows ==
  ASSUME Base, Start
  PROVE  /\ work = db /\ open' = FALSE /\ work' = db'
         /\ \/ db' = db /\ server' = "dead"
            \/ /\ server' = "up" /\ DOMAIN db.agents = {} /\ DOMAIN db'.agents = {1, 2}
               /\ db'.agents[1] = NextId(db.users) /\ db'.agents[2] = NextId(db.users) + 1
               /\ db'.users = db.users \cup {NextId(db.users), NextId(db.users) + 1}
               /\ db'.humans = db.humans /\ db'.sessions = db.sessions
               /\ db'.prompts = db.prompts
               /\ TablesOK(db') /\ Extends(db', db)
               /\ Bounded(db'.users) /\ Bounded(DOMAIN db'.sessions)
  <1> DEFINE u == NextId(db.users)
             prime == NextId(DOMAIN db.agents \cup {1})
  <1>1. /\ ~open /\ work = db /\ open' = FALSE /\ TablesOK(db)
        /\ Bounded(db.users) /\ Bounded(DOMAIN db.sessions)
    BY DEF Base, Start, WorkExtends, TypeOK, TablesBounded
  <1>2. CASE 1 \in DOMAIN db.agents
    BY <1>1, <1>2 DEF Start
  <1>3. CASE 1 \notin DOMAIN db.agents
    <2>1. DOMAIN db.agents = {}
      BY <1>3 DEF Base, AgentsMade
    <2>2. prime = 2
      <3>1. {1} \in SUBSET Ids /\ Bounded({1})
        BY DEF Bounded, Ids
      <3>2. NextId({1}) = 1 + CHOOSE i \in {1} : \A j \in {1} : j <= i
        BY DEF NextId
      <3>3. \E i \in {1} : \A j \in {1} : j <= i
        OBVIOUS
      <3>4. NextId({1}) = 2
        BY <3>2, <3>3
      <3>5. DOMAIN db.agents \cup {1} = {1}
        BY <2>1
      <3> QED  BY <3>4, <3>5
    <2>3. /\ server' = "up" /\ work' = db'
          /\ db' = [db EXCEPT !.users = @ \cup {u, u + 1},
                      !.agents = Insert(Insert(@, 1, u), prime, u + 1)]
      BY <1>3 DEF Start
    <2>4. u \in Ids /\ (\A i \in db.users : i < u)
      BY <1>1, NextIdNew DEF TablesOK
    <2> HIDE DEF u, prime
    <2>5. /\ db' = [users |-> db'.users, humans |-> db'.humans, agents |-> db'.agents,
                    sessions |-> db'.sessions, prompts |-> db'.prompts]
          /\ db'.users = db.users \cup {u, u + 1} /\ db'.humans = db.humans
          /\ db'.agents = Insert(Insert(db.agents, 1, u), 2, u + 1)
          /\ db'.sessions = db.sessions /\ db'.prompts = db.prompts
      BY <1>1, <2>2, <2>3 DEF TablesOK
    <2>6. DOMAIN db'.agents = {1, 2} /\ db'.agents[1] = u /\ db'.agents[2] = u + 1
      <3> DEFINE f == Insert(db.agents, 1, u)
      <3>1. DOMAIN f = {1} /\ f[1] = u
        BY <2>1 DEF Insert
      <3> HIDE DEF f
      <3>2. DOMAIN Insert(f, 2, u + 1) = {1, 2}
        BY <3>1 DEF Insert
      <3>3. Insert(f, 2, u + 1)[1] = u /\ Insert(f, 2, u + 1)[2] = u + 1
        BY <3>1 DEF Insert
      <3> QED  BY <2>5, <3>2, <3>3 DEF f
    <2>7. TablesOK(db')
      BY <1>1, <2>4, <2>5, <2>6 DEF TablesOK, Ids
    <2>8. Extends(db', db)
      BY <2>1, <2>5 DEF Extends
    <2>9. Bounded(db'.users)
      <3>1. \A j \in db'.users : j <= u + 1
        BY <1>1, <2>4, <2>5 DEF TablesOK, Ids
      <3> QED  BY <2>5, <3>1 DEF Bounded
    <2> QED  BY <1>1, <2>1, <2>3, <2>5, <2>6, <2>7, <2>8, <2>9 DEF u
  <1> QED  BY <1>2, <1>3

(* A delegated call makes a chat session of the delegated agent.           *)
LEMMA DelegateRows ==
  ASSUME Base, NEW r \in Requests, NEW c \in Calls, Delegate(r, c)
  PROVE  /\ work = db /\ open' = FALSE /\ work' = db' /\ 2 \in DOMAIN db.agents
         /\ made' = [made EXCEPT ![c] = NextId(DOMAIN db.sessions)]
         /\ NextId(DOMAIN db.sessions) \in Ids
         /\ NextId(DOMAIN db.sessions) \notin DOMAIN db.sessions
         /\ DOMAIN db'.sessions = DOMAIN db.sessions \cup {NextId(DOMAIN db.sessions)}
         /\ db'.sessions[NextId(DOMAIN db.sessions)] = db.agents[2]
         /\ db'.users = db.users /\ db'.humans = db.humans /\ db'.prompts = db.prompts
         /\ Adds(db, db')
  <1> DEFINE id == NextId(DOMAIN db.sessions)
             agent == CHOOSE a \in DOMAIN db.agents : a # 1
  <1>1. /\ ~open /\ work = db /\ TablesOK(db)
        /\ Bounded(db.users) /\ Bounded(DOMAIN db.sessions)
    BY DEF Base, Delegate, WorkExtends, TypeOK, TablesBounded
  <1>2. id \in Ids /\ id \notin DOMAIN db.sessions /\ Bounded(DOMAIN db.sessions \cup {id})
    BY <1>1, NextIdNew DEF TablesOK
  <1>3. DOMAIN db.agents = {1, 2} /\ agent = 2
    <2>1. DOMAIN db.agents = {1, 2}
      BY DEF Base, AgentsMade, Delegate
    <2> QED  BY <2>1
  <1>4. /\ made' = [made EXCEPT ![c] = id] /\ work' = db' /\ open' = open
        /\ db' = [db EXCEPT !.sessions = Insert(@, id, db.agents[agent])]
    BY DEF Delegate
  <1> HIDE DEF id, agent
  <1>5. /\ db' = [users |-> db'.users, humans |-> db'.humans, agents |-> db'.agents,
                  sessions |-> db'.sessions, prompts |-> db'.prompts]
        /\ db'.users = db.users /\ db'.humans = db.humans
        /\ db'.agents = db.agents
        /\ db'.sessions = Insert(db.sessions, id, db.agents[2]) /\ db'.prompts = db.prompts
    BY <1>1, <1>3, <1>4 DEF TablesOK
  <1>6. /\ DOMAIN db'.sessions = DOMAIN db.sessions \cup {id}
        /\ db'.sessions[id] = db.agents[2]
        /\ \A i \in DOMAIN db.sessions : db'.sessions[i] = db.sessions[i]
    BY <1>2, <1>5 DEF Insert
  <1>7. TablesOK(db')
    BY <1>1, <1>2, <1>5, <1>6 DEF TablesOK
  <1>8. Extends(db', db)
    BY <1>5, <1>6 DEF Extends
  <1>9. Adds(db, db')
    BY <1>1, <1>2, <1>5, <1>6, <1>7, <1>8 DEF Adds
  <1> QED  BY <1>1, <1>2, <1>3, <1>4, <1>5, <1>6, <1>9 DEF id

-----------------------------------------------------------------------------
(***************************************************************************)
(* What a step does to the tables, and what it leaves of the past.         *)
(***************************************************************************)
LEMMA StepKinds ==
  ASSUME Base, [Next]_vars
  PROVE  \/ UNCHANGED tables /\ server' \in {server, "off"}
         \/ db' = db /\ open' = TRUE /\ Adds(work, work') /\ server' = server
         \/ db' = work /\ work' = work /\ open' = FALSE /\ server' = server
         \/ db' = db /\ work' = db /\ open' = FALSE /\ server' = server
         \/ Start
         \/ /\ work' = db' /\ open' = FALSE /\ 2 \in DOMAIN db.agents /\ server' = server
            /\ Adds(db, db')
  <1>1. ASSUME NEW r \in Requests, AccountStep(r)
        PROVE  \/ UNCHANGED tables /\ server' = server
               \/ db' = db /\ open' = TRUE /\ Adds(work, work') /\ server' = server
               \/ db' = db /\ work' = db /\ open' = FALSE /\ server' = server
    <2>1. ASSUME NEW n \in Names, InsertUser(r, n)
          PROVE  db' = db /\ open' = TRUE /\ Adds(work, work') /\ server' = server
      BY <2>1, InsertUserRows DEF InsertUser
    <2>2. CASE InsertHuman(r)
      BY <2>2, InsertHumanRows DEF InsertHuman
    <2>3. CASE InsertHumanFails(r)
      BY <2>3 DEF InsertHumanFails, Rollback
    <2>4. CASE \/ \E a \in Asks : Authenticate(r, a)
               \/ \E n \in Names : SignupTaken(r, n)
               \/ Login(r)
      BY <2>4 DEF Authenticate, SignupTaken, Login
    <2> QED  BY <1>1, <2>1, <2>2, <2>3, <2>4 DEF AccountStep
  <1>2. ASSUME NEW r \in Requests, ChatStep(r)
        PROVE  \/ UNCHANGED tables /\ server' = server
               \/ db' = db /\ open' = TRUE /\ Adds(work, work') /\ server' = server
               \/ db' = work /\ work' = work /\ open' = FALSE /\ server' = server
               \/ db' = db /\ work' = db /\ open' = FALSE /\ server' = server
    <2>1. CASE InsertSession(r)
      BY <2>1, InsertSessionRows DEF InsertSession
    <2>2. CASE InsertPrompt(r)
      BY <2>2, InsertPromptRows DEF InsertPrompt
    <2>3. CASE Commit(r)
      BY <2>3 DEF Commit, CommitRows
    <2>4. CASE Close(r)
      BY <2>4 DEF Close, Rollback
    <2>5. CASE NoUser(r) \/ RefuseRun(r) \/ Refresh(r) \/ EndTurn(r)
      BY <2>5 DEF NoUser, RefuseRun, Refresh, EndTurn
    <2> QED  BY <1>2, <2>1, <2>2, <2>3, <2>4, <2>5 DEF ChatStep
  <1>3. ASSUME NEW c \in Calls, AgentStep(c)
        PROVE  \/ UNCHANGED tables /\ server' = server
               \/ /\ work' = db' /\ open' = FALSE /\ 2 \in DOMAIN db.agents /\ server' = server
                  /\ Adds(db, db')
    <2>1. ASSUME NEW r \in Requests, Delegate(r, c)
          PROVE  /\ work' = db' /\ open' = FALSE /\ 2 \in DOMAIN db.agents /\ server' = server
                 /\ Adds(db, db')
      BY <2>1, DelegateRows DEF Delegate
    <2>2. CASE EndDelegated(c) \/ \E r \in Requests : DelegateFails(r, c)
      BY <2>2 DEF EndDelegated, DelegateFails
    <2> QED  BY <1>3, <2>1, <2>2 DEF AgentStep
  <1>4. CASE Stop \/ UNCHANGED vars
    BY <1>4 DEF Stop, vars
  <1> QED  BY <1>1, <1>2, <1>3, <1>4 DEF Next

LEMMA TablesStep ==
  ASSUME Base, [Next]_vars
  PROVE  /\ TablesOK(db') /\ TablesOK(work') /\ open' \in BOOLEAN
         /\ WorkExtends' /\ TablesBounded' /\ AgentsMade'
         /\ Extends(db', db)
  <1>1. /\ TablesOK(db) /\ TablesOK(work) /\ open \in BOOLEAN
        /\ Extends(work, db) /\ work.agents = db.agents /\ (~open => work = db)
        /\ Bounded(db.users) /\ Bounded(work.users)
        /\ Bounded(DOMAIN db.sessions) /\ Bounded(DOMAIN work.sessions)
    BY DEF Base, TypeOK, WorkExtends, TablesBounded
  <1>2. /\ db.users \subseteq work.users /\ AgentsMade
        /\ DOMAIN db.agents = {} \/ (DOMAIN db.agents = {1, 2} /\ db.agents[2] \in db.users)
    BY <1>1 DEF Base, AgentsMade, Extends
  <1>3. CASE UNCHANGED tables /\ server' \in {server, "off"}
    <2>1. UNCHANGED <<db, work, open>>
      BY <1>3 DEF tables
    <2> QED
      BY <1>1, <1>2, <1>3, <2>1, ExtendsSelf DEF WorkExtends, TablesBounded, AgentsMade
  <1>4. CASE db' = db /\ open' = TRUE /\ Adds(work, work') /\ server' = server
    <2>1. Extends(work', db)
      BY <1>1, <1>4, ExtendsTwice DEF Adds
    <2> QED
      BY <1>1, <1>2, <1>4, <2>1, ExtendsSelf
      DEF WorkExtends, TablesBounded, AgentsMade, Adds
  <1>5. CASE db' = work /\ work' = work /\ open' = FALSE /\ server' = server
    BY <1>1, <1>2, <1>5, ExtendsSelf DEF WorkExtends, TablesBounded, AgentsMade
  <1>6. CASE db' = db /\ work' = db /\ open' = FALSE /\ server' = server
    BY <1>1, <1>2, <1>6, ExtendsSelf DEF WorkExtends, TablesBounded, AgentsMade
  <1>7. CASE Start
    <2>1. CASE db' = db /\ server' = "dead"
      BY <1>1, <1>2, <1>7, <2>1, StartRows, ExtendsSelf
      DEF WorkExtends, TablesBounded, AgentsMade
    <2>2. CASE db' # db \/ server' # "dead"
      BY <1>1, <1>7, <2>2, StartRows, ExtendsSelf DEF WorkExtends, TablesBounded, AgentsMade
    <2> QED  BY <2>1, <2>2
  <1>8. CASE /\ work' = db' /\ open' = FALSE /\ 2 \in DOMAIN db.agents /\ server' = server
             /\ Adds(db, db')
    <2>1. db.users \subseteq db'.users
      BY <1>8 DEF Adds, Extends
    <2> QED
      BY <1>1, <1>2, <1>8, <2>1, ExtendsSelf
      DEF WorkExtends, TablesBounded, AgentsMade, Adds
  <1> QED  BY <1>3, <1>4, <1>5, <1>6, <1>7, <1>8, StepKinds

(* A request that has asked does not ask again, and what it was answered   *)
(* and what happened to it stays.                                          *)
History(r) ==
  /\ pc[r] # "new" => ask'[r] = ask[r] /\ user'[r] = user[r] /\ pc'[r] # "new"
  /\ pc[r] \notin {"new", "ready"} => row'[r] = row[r] /\ pc'[r] \notin {"new", "ready"}
  /\ hit[r] => hit'[r]
  /\ status[r] # 0 => status'[r] = status[r]

LEMMA HistoryStep ==
  ASSUME Base, [Next]_vars, NEW r \in Requests
  PROVE  History(r)
  <1>0. TypeOK /\ (status[r] # 0 => pc[r] \in {"answered", "closed"})
    BY DEF Base, Phases
  <1> USE DEF History, asked, delegated
  <1>1. ASSUME NEW q \in Requests, AccountStep(q)
        PROVE  History(r)
    <2>1. CASE \E a \in Asks : Authenticate(q, a)
      BY <1>0, <2>1 DEF Authenticate, Goto, Uses, TypeOK
    <2>2. CASE \E n \in Names : SignupTaken(q, n)
      BY <1>0, <2>2 DEF SignupTaken, Answer, TypeOK
    <2>3. CASE \E n \in Names : InsertUser(q, n)
      BY <1>0, <2>3 DEF InsertUser, Goto, Inserted, TypeOK
    <2>4. CASE Login(q)
      BY <1>0, <2>4 DEF Login, Answer, TypeOK
    <2>5. CASE InsertHuman(q)
      BY <1>0, <2>5 DEF InsertHuman, Goto, TypeOK
    <2>6. CASE InsertHumanFails(q)
      BY <1>0, <2>6 DEF InsertHumanFails, Answer, TypeOK
    <2> QED  BY <1>1, <2>1, <2>2, <2>3, <2>4, <2>5, <2>6 DEF AccountStep
  <1>2. ASSUME NEW q \in Requests, ChatStep(q)
        PROVE  History(r)
    <2>1. CASE InsertSession(q)
      BY <1>0, <2>1 DEF InsertSession, Goto, Inserted, TypeOK
    <2>2. CASE NoUser(q) \/ RefuseRun(q)
      BY <1>0, <2>2 DEF NoUser, RefuseRun, Answer, TypeOK
    <2>3. CASE InsertPrompt(q)
      BY <1>0, <2>3 DEF InsertPrompt, Goto, TypeOK
    <2>4. CASE Commit(q)
      BY <1>0, <2>4 DEF Commit, Goto, TypeOK
    <2>5. CASE Refresh(q) \/ EndTurn(q)
      BY <1>0, <2>5 DEF Refresh, EndTurn, Answer, TypeOK
    <2>6. CASE Close(q)
      BY <1>0, <2>6 DEF Close, Goto, TypeOK
    <2> QED  BY <1>2, <2>1, <2>2, <2>3, <2>4, <2>5, <2>6 DEF ChatStep
  <1>3. CASE (\E c \in Calls : AgentStep(c)) \/ Start \/ Stop \/ UNCHANGED vars
    BY <1>3 DEF AgentStep, EndDelegated, Delegate, DelegateFails, Start, Stop, vars
  <1> QED  BY <1>1, <1>2, <1>3 DEF Next

-----------------------------------------------------------------------------
(***************************************************************************)
(* Types, the loop and the phases of a request.                            *)
(***************************************************************************)
AskTypes == [kind : Kinds, name : Names \cup {"none"}, session : Nat]

LEMMA AsksTyped ==
  /\ Asks \subseteq AskTypes
  /\ \A a \in Asks : a.kind \in {"login", "chat", "run"} /\ a.name \in Names
  /\ \A a \in Asks : a.kind = "run" => a.session # 0
  /\ \A n \in Names : [kind |-> "signup", name |-> n, session |-> 0] \in AskTypes
  BY BoundsAssumption DEF Asks, AskTypes, Kinds

(* An answer, and a move to the next point, are typed.                     *)
Points == {"new", "ready", "inserting", "committing",
           "refreshing", "serving", "answered", "closed"}
Codes == {0, 200, 201, 401, 409, 500}

LEMMA MoveTyped ==
  ASSUME TypeOK, NEW r \in Requests
  PROVE  /\ \A code \in Codes : Answer(r, code) =>
              pc' \in [Requests -> Points] /\ status' \in [Requests -> Codes]
         /\ \A where \in Points : Goto(r, where) =>
              pc' \in [Requests -> Points] /\ status' \in [Requests -> Codes]
         /\ Uses(r) => used' \in [Requests -> BOOLEAN]
  <1>1. /\ pc \in [Requests -> Points] /\ status \in [Requests -> Codes]
        /\ used \in [Requests -> BOOLEAN]
    BY DEF TypeOK, Points, Codes
  <1>2. "answered" \in Points
    BY DEF Points
  <1>3. ASSUME NEW code \in Codes, Answer(r, code)
        PROVE  pc' \in [Requests -> Points] /\ status' \in [Requests -> Codes]
    BY <1>1, <1>2, <1>3 DEF Answer
  <1>4. ASSUME NEW where \in Points, Goto(r, where)
        PROVE  pc' \in [Requests -> Points] /\ status' \in [Requests -> Codes]
    BY <1>1, <1>4 DEF Goto
  <1>5. Uses(r) => used' \in [Requests -> BOOLEAN]
    BY <1>1 DEF Uses
  <1> QED  BY <1>3, <1>4, <1>5

LEMMA TypeStep ==
  ASSUME Base, [Next]_vars
  PROVE  TypeOK'
  <1>0. TypeOK /\ TablesOK(db') /\ TablesOK(work') /\ open' \in BOOLEAN /\ TablesOK(work)
    BY TablesStep DEF Base, TypeOK
  <1>1. Cardinality({}) <= 1 /\ \A r \in Requests : Cardinality({r}) <= 1
    BY FS_EmptySet, FS_Singleton
  <1>2. ask \in [Requests -> AskTypes]
    BY <1>0 DEF TypeOK, AskTypes
  <1>3. \A n \in DOMAIN work.humans : work.humans[n] \in Nat
    BY <1>0 DEF TablesOK, Ids
  <1> USE DEF Points, Codes
  <1>4. ASSUME NEW r \in Requests, AccountStep(r)
        PROVE  TypeOK'
    <2>1. ASSUME NEW a \in Asks, Authenticate(r, a)
          PROVE  TypeOK'
      <3>1. user' \in [Requests -> Nat]
        BY <1>0, <1>3, <2>1 DEF Authenticate, UserFound, TypeOK
      <3>2. ask' \in [Requests -> AskTypes]
        BY <1>2, <2>1, AsksTyped DEF Authenticate
      <3> QED
        BY <1>0, <2>1, <3>1, <3>2, ZenonT(30)
        DEF Authenticate, Goto, Uses, TypeOK, AskTypes, asked, delegated
    <2>2. ASSUME NEW n \in Names, SignupTaken(r, n)
          PROVE  TypeOK'
      <3>1. ask' \in [Requests -> AskTypes]
        BY <1>2, <2>2, AsksTyped DEF SignupTaken
      <3> QED
        BY <1>0, <2>2, <3>1 DEF SignupTaken, Answer, Uses, TypeOK, AskTypes, delegated
    <2>3. ASSUME NEW n \in Names, InsertUser(r, n)
          PROVE  TypeOK'
      <3>1. ask' \in [Requests -> AskTypes]
        BY <1>2, <2>3, AsksTyped DEF InsertUser
      <3>2. row' \in [Requests -> Nat]
        <4>1. row' = [row EXCEPT ![r] = NextId(db.users)] /\ NextId(db.users) \in Ids
          BY <2>3, InsertUserRows
        <4> QED  BY <1>0, <4>1 DEF TypeOK, Ids
      <3>3. Goto(r, "inserting") /\ Uses(r)
        BY <2>3 DEF InsertUser
      <3>4. /\ pc' \in [Requests -> Points] /\ status' \in [Requests -> Codes]
            /\ used' \in [Requests -> BOOLEAN]
        BY <1>0, <3>3, MoveTyped
      <3> QED
        BY <1>0, <1>1, <2>3, <3>1, <3>2, <3>4
        DEF InsertUser, TypeOK, AskTypes, delegated
    <2>4. CASE Login(r)
      <3>1. pc' \in [Requests -> Points] /\ status' \in [Requests -> Codes]
        BY <1>0, <2>4, MoveTyped DEF Login
      <3>2. tokens' \subseteq Names
        BY <1>0, <2>4 DEF Login, Base, Phases, TypeOK
      <3> QED  BY <1>0, <2>4, <3>1, <3>2 DEF Login, TypeOK, asked, delegated
    <2>5. CASE InsertHuman(r)
      BY <1>0, <2>5 DEF InsertHuman, Goto, TypeOK, asked, delegated
    <2>6. CASE InsertHumanFails(r)
      BY <1>0, <1>1, <2>6 DEF InsertHumanFails, Answer, TypeOK, delegated
    <2> QED  BY <1>4, <2>1, <2>2, <2>3, <2>4, <2>5, <2>6 DEF AccountStep
  <1>5. ASSUME NEW r \in Requests, ChatStep(r)
        PROVE  TypeOK'
    <2>1. CASE InsertSession(r)
      <3>1. row' \in [Requests -> Nat]
        <4>1. /\ row' = [row EXCEPT ![r] = NextId(DOMAIN db.sessions)]
              /\ NextId(DOMAIN db.sessions) \in Ids
          BY <2>1, InsertSessionRows
        <4> QED  BY <1>0, <4>1 DEF TypeOK, Ids
      <3>2. Goto(r, "committing") /\ Uses(r)
        BY <2>1 DEF InsertSession
      <3>3. /\ pc' \in [Requests -> Points] /\ status' \in [Requests -> Codes]
            /\ used' \in [Requests -> BOOLEAN]
        BY <1>0, <3>2, MoveTyped
      <3> QED
        BY <1>0, <1>1, <2>1, <3>1, <3>3 DEF InsertSession, TypeOK, delegated
    <2>2. CASE NoUser(r) \/ RefuseRun(r)
      <3>1. \E code \in {401, 500} : Answer(r, code)
        BY <2>2 DEF NoUser, RefuseRun
      <3>2. pc' \in [Requests -> Points] /\ status' \in [Requests -> Codes]
        BY <1>0, <3>1, MoveTyped
      <3>3. used' \in [Requests -> BOOLEAN]
        BY <1>0, <2>2, MoveTyped DEF NoUser, RefuseRun, asked, TypeOK
      <3> QED
        BY <1>0, <2>2, <3>2, <3>3 DEF NoUser, RefuseRun, TypeOK, asked, delegated
    <2>3. CASE InsertPrompt(r)
      BY <1>0, <1>1, <2>3 DEF InsertPrompt, Goto, Uses, TypeOK, delegated
    <2>4. CASE Commit(r)
      <3>1. pc' \in [Requests -> Points] /\ status' \in [Requests -> Codes]
        BY <1>0, <2>4, MoveTyped DEF Commit
      <3>2. loop' \subseteq Requests /\ Cardinality(loop') <= 1
        BY <1>0, <1>1, <2>4 DEF Commit, TypeOK
      <3> QED  BY <1>0, <2>4, <3>1, <3>2 DEF Commit, TypeOK, delegated
    <2>5. CASE Refresh(r)
      <3>1. ask[r].kind = "signup" /\ Present(r) => ask[r].name \in Names
        BY <1>0 DEF Present, TablesOK
      <3>2. tokens' \subseteq Names
        BY <1>0, <2>5, <3>1 DEF Refresh, TypeOK
      <3>3. /\ pc' \in [Requests -> Points] /\ status' \in [Requests -> Codes]
            /\ used' \in [Requests -> BOOLEAN]
        <4>1. Uses(r) /\ \E code \in {200, 201, 500} : Answer(r, code)
          BY <2>5 DEF Refresh
        <4> QED  BY <1>0, <4>1, MoveTyped
      <3> QED
        BY <1>0, <1>1, <2>5, <3>1, <3>2, <3>3 DEF Refresh, TypeOK, delegated
    <2>6. CASE EndTurn(r)
      BY <1>0, <2>6 DEF EndTurn, Answer, TypeOK, asked, delegated
    <2>7. CASE Close(r)
      <3>1. pc' \in [Requests -> Points] /\ status' \in [Requests -> Codes]
        BY <1>0, <2>7, MoveTyped DEF Close
      <3>2. hit' \in [Requests -> BOOLEAN]
        BY <1>0, <2>7 DEF Close, TypeOK
      <3> QED  BY <1>0, <2>7, <3>1, <3>2 DEF Close, TypeOK, delegated
    <2> QED  BY <1>5, <2>1, <2>2, <2>3, <2>4, <2>5, <2>6, <2>7 DEF ChatStep
  <1>6. ASSUME NEW c \in Calls, AgentStep(c)
        PROVE  TypeOK'
    <2>1. ASSUME NEW r \in Requests, Delegate(r, c)
          PROVE  TypeOK'
      <3>1. made' \in [Calls -> Nat]
        <4>1. /\ made' = [made EXCEPT ![c] = NextId(DOMAIN db.sessions)]
              /\ NextId(DOMAIN db.sessions) \in Ids
          BY <2>1, DelegateRows
        <4> QED  BY <1>0, <4>1 DEF TypeOK, Ids
      <3> QED  BY <1>0, <2>1, <3>1 DEF Delegate, TypeOK, asked
    <2>2. ASSUME NEW r \in Requests, DelegateFails(r, c)
          PROVE  TypeOK'
      BY <1>0, <2>2 DEF DelegateFails, TypeOK, asked
    <2>3. CASE EndDelegated(c)
      BY <1>0, <2>3 DEF EndDelegated, TypeOK, asked
    <2> QED  BY <1>6, <2>1, <2>2, <2>3 DEF AgentStep
  <1>7. CASE Start
    <2>1. starts' \in 0 .. Starts
      BY <1>0, <1>7, BoundsAssumption DEF Start, TypeOK
    <2>2. server' \in {"off", "up", "dead"}
      BY <1>7, StartRows
    <2> QED  BY <1>0, <1>7, <2>1, <2>2 DEF Start, TypeOK, asked, delegated
  <1>8. CASE Stop
    BY <1>0, <1>8 DEF Stop, TypeOK, asked, tables
  <1>9. CASE UNCHANGED vars
    BY <1>0, <1>9 DEF TypeOK, vars, tables, asked, delegated
  <1> QED  BY <1>4, <1>5, <1>6, <1>7, <1>8, <1>9 DEF Next

LEMMA LoopStep ==
  ASSUME Base, [Next]_vars
  PROVE  LoopHeld'
  <1>0. TypeOK /\ LoopHeld
    BY DEF Base
  <1> USE DEF LoopHeld, Holding
  <1>1. ASSUME NEW r \in Requests, AccountStep(r)
        PROVE  LoopHeld'
    <2>1. CASE \E a \in Asks : Authenticate(r, a)
      BY <1>0, <2>1 DEF Authenticate, Goto, TypeOK, tables
    <2>2. CASE \E n \in Names : SignupTaken(r, n)
      BY <1>0, <2>2 DEF SignupTaken, Answer, TypeOK, tables
    <2>3. CASE \E n \in Names : InsertUser(r, n)
      BY <1>0, <2>3 DEF InsertUser, Goto, TypeOK
    <2>4. CASE Login(r)
      BY <1>0, <2>4 DEF Login, Answer, TypeOK, tables
    <2>5. CASE InsertHuman(r)
      BY <1>0, <2>5 DEF InsertHuman, Goto, TypeOK
    <2>6. CASE InsertHumanFails(r)
      BY <1>0, <2>6 DEF InsertHumanFails, Rollback, Answer, TypeOK
    <2> QED  BY <1>1, <2>1, <2>2, <2>3, <2>4, <2>5, <2>6 DEF AccountStep
  <1>2. ASSUME NEW r \in Requests, ChatStep(r)
        PROVE  LoopHeld'
    <2>1. CASE InsertSession(r)
      BY <1>0, <2>1 DEF InsertSession, Goto, TypeOK
    <2>2. CASE NoUser(r) \/ RefuseRun(r)
      BY <1>0, <2>2 DEF NoUser, RefuseRun, Answer, TypeOK, tables
    <2>3. CASE InsertPrompt(r)
      BY <1>0, <2>3 DEF InsertPrompt, Goto, TypeOK
    <2>4. CASE Commit(r)
      BY <1>0, <2>4 DEF Commit, CommitRows, Goto, TypeOK
    <2>5. CASE Refresh(r)
      <3>1. r \in loop /\ ~open /\ open' = open /\ loop' = {}
        BY <1>0, <2>5 DEF Refresh, TypeOK, tables
      <3>2. \A q \in Requests : pc'[q] \notin Holding
        BY <1>0, <2>5, <3>1 DEF Refresh, Answer, TypeOK
      <3> QED  BY <3>1, <3>2
    <2>6. CASE EndTurn(r)
      BY <1>0, <2>6 DEF EndTurn, Answer, TypeOK, tables
    <2>7. CASE Close(r)
      BY <1>0, <2>7 DEF Close, Rollback, Goto, TypeOK, tables
    <2> QED  BY <1>2, <2>1, <2>2, <2>3, <2>4, <2>5, <2>6, <2>7 DEF ChatStep
  <1>3. CASE (\E c \in Calls : AgentStep(c)) \/ Start \/ Stop \/ UNCHANGED vars
    <2>1. UNCHANGED <<loop, pc, open>>
      BY <1>3 DEF AgentStep, EndDelegated, Delegate, DelegateFails, Start, Stop, vars, tables
    <2> QED  BY <1>0, <2>1
  <1> QED  BY <1>1, <1>2, <1>3 DEF Next

LEMMA PhasesStep ==
  ASSUME Base, [Next]_vars
  PROVE  Phases'
  <1>0. TypeOK /\ Phases /\ \A r \in loop : pc[r] \notin {"new", "ready"}
    BY DEF Base, LoopHeld, Holding, TypeOK
  <1> USE DEF Phases
  <1>1. ASSUME NEW r \in Requests, AccountStep(r)
        PROVE  Phases'
    <2>1. CASE \E a \in Asks : Authenticate(r, a)
      BY <1>0, <2>1, AsksTyped DEF Authenticate, Goto, TypeOK
    <2>2. CASE \E n \in Names : SignupTaken(r, n)
      BY <1>0, <2>2 DEF SignupTaken, Answer, TypeOK
    <2>3. ASSUME NEW n \in Names, InsertUser(r, n)
          PROVE  Phases'
      <3>1. row'[r] # 0 /\ \A q \in Requests : q # r => row'[q] = row[q]
        <4>1. row' = [row EXCEPT ![r] = NextId(db.users)] /\ NextId(db.users) \in Ids
          BY <2>3, InsertUserRows
        <4> QED  BY <1>0, <4>1 DEF TypeOK, Ids
      <3> QED  BY <1>0, <2>3, <3>1 DEF InsertUser, Goto, TypeOK
    <2>4. CASE Login(r)
      BY <1>0, <2>4 DEF Login, Answer, TypeOK, asked
    <2>5. CASE InsertHuman(r)
      BY <1>0, <2>5 DEF InsertHuman, Goto, TypeOK, asked
    <2>6. CASE InsertHumanFails(r)
      BY <1>0, <2>6 DEF InsertHumanFails, Answer, TypeOK
    <2> QED  BY <1>1, <2>1, <2>2, <2>3, <2>4, <2>5, <2>6 DEF AccountStep
  <1>2. ASSUME NEW r \in Requests, ChatStep(r)
        PROVE  Phases'
    <2>1. CASE InsertSession(r)
      <3>1. \A q \in Requests : q # r => row'[q] = row[q]
        <4>1. row' = [row EXCEPT ![r] = NextId(DOMAIN db.sessions)]
          BY <2>1, InsertSessionRows
        <4> QED  BY <1>0, <4>1 DEF TypeOK
      <3>2. UNCHANGED <<ask, hit, status>> /\ pc' = [pc EXCEPT ![r] = "committing"]
        BY <2>1 DEF InsertSession, Goto
      <3>3. pc[r] = "ready" /\ ask[r].kind = "chat"
        BY <2>1 DEF InsertSession
      <3> QED  BY <1>0, <3>1, <3>2, <3>3 DEF TypeOK
    <2>2. CASE NoUser(r) \/ RefuseRun(r)
      BY <1>0, <2>2 DEF NoUser, RefuseRun, Answer, TypeOK, asked
    <2>3. CASE InsertPrompt(r)
      <3>1. UNCHANGED <<ask, hit, status, row>> /\ pc' = [pc EXCEPT ![r] = "committing"]
        BY <2>3 DEF InsertPrompt, Goto
      <3>2. pc[r] = "ready" /\ ask[r].kind = "run"
        BY <2>3 DEF InsertPrompt
      <3> QED  BY <1>0, <3>1, <3>2 DEF TypeOK
    <2>4. CASE Commit(r)
      BY <1>0, <2>4 DEF Commit, Goto, TypeOK
    <2>5. CASE Refresh(r)
      BY <1>0, <2>5 DEF Refresh, Answer, TypeOK
    <2>6. CASE EndTurn(r)
      BY <1>0, <2>6 DEF EndTurn, Answer, TypeOK, asked
    <2>7. CASE Close(r)
      BY <1>0, <2>7 DEF Close, Goto, TypeOK
    <2> QED  BY <1>2, <2>1, <2>2, <2>3, <2>4, <2>5, <2>6, <2>7 DEF ChatStep
  <1>3. CASE (\E c \in Calls : AgentStep(c)) \/ Start \/ Stop \/ UNCHANGED vars
    <2>1. UNCHANGED <<pc, ask, row, status, hit>>
      BY <1>3 DEF AgentStep, EndDelegated, Delegate, DelegateFails, Start, Stop, vars, asked
    <2> QED  BY <1>0, <2>1
  <1> QED  BY <1>1, <1>2, <1>3 DEF Next

LEMMA BaseInit == Init => Base
  <1> SUFFICES ASSUME Init
               PROVE  Base
    OBVIOUS
  <1>1. /\ db.users = {UserOf[n] : n \in Registered}
        /\ db.humans = [n \in Registered |-> UserOf[n]]
        /\ DOMAIN db.agents = {} /\ DOMAIN db.sessions = {} /\ db.prompts = {}
        /\ db = [users |-> db.users, humans |-> db.humans, agents |-> db.agents,
                 sessions |-> db.sessions, prompts |-> db.prompts]
        /\ work = db
    BY DEF Init, Empty
  <1>2. TablesOK(db)
    BY <1>1, UserOfAssumption, RegisteredAssumption DEF TablesOK
  <1>3. TypeOK
    <2>1. loop \subseteq Requests /\ Cardinality(loop) <= 1
      BY FS_EmptySet DEF Init
    <2>2. NoAsk \in AskTypes
      BY DEF NoAsk, AskTypes, Kinds
    <2>3. ask \in [Requests -> AskTypes]
      BY <2>2 DEF Init
    <2>4. tokens \subseteq Names /\ starts \in 0 .. Starts
      BY RegisteredAssumption, BoundsAssumption DEF Init
    <2> QED  BY <1>1, <1>2, <2>1, <2>3, <2>4, ZenonT(30) DEF Init, TypeOK, AskTypes
  <1>4. WorkExtends
    BY <1>1, ExtendsSelf DEF WorkExtends
  <1>5. Bounded(db.users)
    <2>1. CASE Registered = {}
      BY <1>1, <2>1 DEF Bounded
    <2>2. CASE Registered # {}
      <3>1. PICK m \in Registered : \A n \in Registered : UserOf[n] <= UserOf[m]
        BY <2>2, UserOfAssumption
      <3>2. UserOf[m] \in db.users /\ \A j \in db.users : j <= UserOf[m]
        BY <1>1, <3>1
      <3> QED  BY <3>2 DEF Bounded
    <2> QED  BY <2>1, <2>2
  <1>6. TablesBounded
    BY <1>1, <1>5 DEF TablesBounded, Bounded
  <1>7. LoopHeld
    BY DEF Init, LoopHeld, Holding
  <1>8. Phases
    BY DEF Init, Phases, NoAsk
  <1>9. AgentsMade
    BY <1>1 DEF Init, AgentsMade
  <1> QED  BY <1>3, <1>4, <1>6, <1>7, <1>8, <1>9 DEF Base

LEMMA BaseStep == Base /\ [Next]_vars => Base'
  BY TablesStep, TypeStep, LoopStep, PhasesStep DEF Base

(* Types: ids are ids, names are names, and so on.                         *)
THEOREM TypeCorrect == Spec => []TypeOK
  <1>1. Base => TypeOK
    BY DEF Base
  <1> QED  BY <1>1, BaseInit, BaseStep, PTL DEF Spec

-----------------------------------------------------------------------------
(***************************************************************************)
(* Accounts: where their rows come from, and how they are lost.            *)
(***************************************************************************)

(* What happened to a request stays.                                       *)
LEMMA PastKept ==
  ASSUME Base, [Next]_vars
  PROVE  /\ \A id : LostId(id) =>
              \E q \in Requests : hit'[q] /\ ask'[q].kind = "signup" /\ row'[q] = id
         /\ \A n : HitSignup(n) =>
              \E q \in Requests : hit'[q] /\ ask'[q].kind = "signup" /\ ask'[q].name = n
  <1>1. ASSUME NEW q \in Requests, hit[q]
        PROVE  hit'[q] /\ ask'[q] = ask[q] /\ row'[q] = row[q]
    <2>1. pc[q] \notin {"new", "ready"} /\ History(q)
      BY <1>1, HistoryStep DEF Base, Phases
    <2> QED  BY <1>1, <2>1 DEF History
  <1> QED  BY <1>1 DEF LostId, HitSignup

(* The steps, by what they do to an endpoint that is between two awaits:   *)
(* nothing; with rows of the agents added; with a ROLLBACK; or they are    *)
(* the endpoint's own.                                                     *)
HolderStays ==
  loop' = loop /\ \A r \in Requests : pc[r] \in Holding \/ pc'[r] \in Holding => pc'[r] = pc[r]

Quiet == UNCHANGED <<db, work>> /\ HolderStays
Served ==
  /\ work = db /\ work' = db' /\ HolderStays
  /\ db'.humans = db.humans /\ db'.prompts = db.prompts
RolledBack ==
  db' = db /\ work' = db /\ HolderStays /\ (~open => work = db)
  /\ \A q \in loop : open => hit'[q]
EndpointStep(r) ==
  \/ \E n \in Names : InsertUser(r, n)
  \/ InsertHuman(r) \/ InsertHumanFails(r) \/ InsertSession(r) \/ InsertPrompt(r)
  \/ Commit(r) \/ Refresh(r)

LEMMA StepsOnHolder ==
  ASSUME Base, [Next]_vars
  PROVE  Quiet \/ Served \/ RolledBack \/ \E r \in Requests : EndpointStep(r)
  <1>0. TypeOK /\ ~("answered" \in Holding) /\ ~("ready" \in Holding) /\ ~("new" \in Holding)
        /\ ~("closed" \in Holding) /\ ~("serving" \in Holding)
    BY DEF Base, Holding
  <1>1. ASSUME NEW r \in Requests, AccountStep(r)
        PROVE  Quiet \/ EndpointStep(r)
    <2>1. CASE \E a \in Asks : Authenticate(r, a)
      BY <1>0, <2>1 DEF Authenticate, Goto, Quiet, HolderStays, TypeOK, tables
    <2>2. CASE (\E n \in Names : SignupTaken(r, n)) \/ Login(r)
      BY <1>0, <2>2 DEF SignupTaken, Login, Answer, Quiet, HolderStays, TypeOK, tables
    <2> QED  BY <1>1, <2>1, <2>2 DEF AccountStep, EndpointStep
  <1>2. ASSUME NEW r \in Requests, ChatStep(r)
        PROVE  Quiet \/ RolledBack \/ EndpointStep(r)
    <2>1. CASE NoUser(r) \/ RefuseRun(r)
      BY <1>0, <2>1 DEF NoUser, RefuseRun, Answer, Quiet, HolderStays, TypeOK, tables
    <2>2. CASE EndTurn(r)
      BY <1>0, <2>2 DEF EndTurn, Answer, Quiet, HolderStays, TypeOK, tables
    <2>3. CASE Close(r)
      <3>1. HolderStays
        BY <1>0, <2>3 DEF Close, Goto, HolderStays, TypeOK
      <3>2. loop \subseteq Requests /\ (~open => work = db)
        BY <1>0 DEF TypeOK, Base, WorkExtends
      <3>3. CASE used[r]
        BY <2>3, <3>1, <3>2, <3>3 DEF Close, Rollback, RolledBack
      <3>4. CASE ~used[r]
        BY <2>3, <3>1, <3>4 DEF Close, Quiet, tables
      <3> QED  BY <3>3, <3>4
    <2> QED  BY <1>2, <2>1, <2>2, <2>3 DEF ChatStep, EndpointStep
  <1>3. ASSUME NEW c \in Calls, AgentStep(c)
        PROVE  Quiet \/ Served
    <2>1. ASSUME NEW r \in Requests, Delegate(r, c)
          PROVE  Served
      BY <2>1, DelegateRows DEF Delegate, Served, HolderStays
    <2>2. CASE EndDelegated(c) \/ \E r \in Requests : DelegateFails(r, c)
      BY <2>2 DEF EndDelegated, DelegateFails, Quiet, HolderStays, tables
    <2> QED  BY <1>3, <2>1, <2>2 DEF AgentStep
  <1>4. CASE Start
    BY <1>4, StartRows DEF Start, Served, HolderStays
  <1>5. CASE Stop \/ UNCHANGED vars
    BY <1>5 DEF Stop, vars, Quiet, HolderStays, tables
  <1> QED  BY <1>1, <1>2, <1>3, <1>4, <1>5 DEF Next

(* An endpoint's own step is taken while no other one has the loop.        *)
LEMMA EndpointAlone ==
  ASSUME Base, NEW r \in Requests, EndpointStep(r)
  PROVE  \A q \in Requests \ {r} : pc[q] \notin Holding /\ pc'[q] = pc[q] /\ q \notin loop
  <1>0. /\ \A q, p \in loop : q = p
        /\ \A q \in Requests : q \in loop <=> pc[q] \in Holding
        /\ pc \in [Requests -> Points]
    BY DEF Base, LoopHeld, TypeOK, Points
  <1>1. loop = {} \/ pc[r] \in Holding
    BY DEF EndpointStep, InsertUser, InsertHuman, InsertHumanFails, InsertSession,
           InsertPrompt, Commit, Refresh, Holding
  <1>2. \A q \in Requests \ {r} : pc'[q] = pc[q]
    BY <1>0 DEF EndpointStep, InsertUser, InsertHuman, InsertHumanFails, InsertSession,
                InsertPrompt, Commit, Refresh, Goto, Answer
  <1> QED  BY <1>0, <1>1, <1>2

(* An account that is not committed is that of the endpoint that has the   *)
(* loop, before it commits.                                                *)
LEMMA HumansNewStep ==
  ASSUME Base, HumansNew, [Next]_vars
  PROVE  HumansNew'
  <1> SUFFICES ASSUME NEW m \in DOMAIN work'.humans, m \notin DOMAIN db'.humans
               PROVE  \E r \in loop' : /\ pc'[r] = "committing" /\ ask'[r].kind = "signup"
                                       /\ ask'[r].name = m /\ row'[r] = work'.humans[m]
    BY DEF HumansNew
  <1>1. CASE Quiet
    <2>1. PICK r \in loop : /\ pc[r] = "committing" /\ ask[r].kind = "signup"
                            /\ ask[r].name = m /\ row[r] = work.humans[m]
      BY <1>1 DEF HumansNew, Quiet
    <2>2. r \in Requests
      BY DEF Base, TypeOK
    <2>3. History(r)
      BY <2>2, HistoryStep
    <2> QED  BY <1>1, <2>1, <2>2, <2>3 DEF Quiet, HolderStays, Holding, History
  <1>2. CASE Served \/ RolledBack
    BY <1>2 DEF Served, RolledBack
  <1>3. ASSUME NEW r \in Requests, EndpointStep(r)
        PROVE  \E q \in loop' : /\ pc'[q] = "committing" /\ ask'[q].kind = "signup"
                                /\ ask'[q].name = m /\ row'[q] = work'.humans[m]
    <2>0. (~open => work = db) /\ LoopHeld /\ loop \subseteq Requests
      BY DEF Base, WorkExtends, TypeOK
    <2>1. CASE InsertHuman(r)
      <3>0. r \in loop /\ pc[r] = "inserting"
        BY <2>0, <2>1 DEF InsertHuman, LoopHeld, Holding
      <3>4. /\ db' = db /\ DOMAIN work'.humans = DOMAIN work.humans \cup {ask[r].name}
            /\ work'.humans[ask[r].name] = row[r]
        BY <2>1, InsertHumanRows
      <3>1. m \notin DOMAIN work.humans
        <4>1. \A q \in loop : pc[q] = "inserting"
          BY <2>0, <3>0 DEF LoopHeld
        <4> QED  BY <3>4, <4>1 DEF HumansNew
      <3>2. m = ask[r].name /\ work'.humans[m] = row[r]
        BY <3>1, <3>4
      <3>3. ask[r].kind = "signup" /\ pc'[r] = "committing"
        BY <2>1, <3>0 DEF Base, Phases, InsertHuman, Goto, TypeOK
      <3> QED  BY <2>1, <3>0, <3>2, <3>3 DEF InsertHuman, asked
    <2>2. CASE \E n \in Names : InsertUser(r, n)
      BY <2>2, InsertUserRows
    <2>3. CASE InsertSession(r) \/ InsertPrompt(r)
      BY <2>3, InsertSessionRows, InsertPromptRows
    <2>4. CASE InsertHumanFails(r) \/ Commit(r)
      BY <2>4 DEF InsertHumanFails, Commit, Rollback, CommitRows
    <2>5. CASE Refresh(r)
      <3>1. ~open
        BY <2>0, <2>5 DEF Refresh, LoopHeld, Holding
      <3> QED  BY <2>0, <2>5, <3>1 DEF Refresh, tables
    <2> QED  BY <1>3, <2>1, <2>2, <2>3, <2>4, <2>5 DEF EndpointStep
  <1> QED  BY <1>1, <1>2, <1>3, StepsOnHolder

(* The accounts of the connection after a step: as before, as committed,   *)
(* or one more, whose id is its row's.                                     *)
LEMMA HumansStep ==
  ASSUME Base, [Next]_vars
  PROVE  \/ work'.humans = work.humans /\ work.users \subseteq work'.users
         \/ work' = db
         \/ \E r \in Requests :
              /\ pc[r] = "inserting" /\ work'.users = work.users
              /\ DOMAIN work'.humans = DOMAIN work.humans \cup {ask[r].name}
              /\ work'.humans[ask[r].name] = row[r]
              /\ \A m \in DOMAIN work.humans :
                   work'.humans[m] = work.humans[m] /\ work.humans[m] # row[r]
  <1>1. CASE Quiet
    BY <1>1 DEF Quiet
  <1>2. CASE Served
    BY <1>2, TablesStep DEF Served, Extends
  <1>3. CASE RolledBack
    BY <1>3 DEF RolledBack
  <1>4. ASSUME NEW r \in Requests, EndpointStep(r)
        PROVE  \/ work'.humans = work.humans /\ work.users \subseteq work'.users
               \/ work' = db
               \/ /\ pc[r] = "inserting" /\ work'.users = work.users
                  /\ DOMAIN work'.humans = DOMAIN work.humans \cup {ask[r].name}
                  /\ work'.humans[ask[r].name] = row[r]
                  /\ \A m \in DOMAIN work.humans :
                       work'.humans[m] = work.humans[m] /\ work.humans[m] # row[r]
    <2>1. CASE InsertHuman(r)
      BY <2>1, InsertHumanRows DEF InsertHuman
    <2>2. CASE \E n \in Names : InsertUser(r, n)
      BY <2>2, InsertUserRows
    <2>3. CASE InsertSession(r) \/ InsertPrompt(r)
      BY <2>3, InsertSessionRows, InsertPromptRows
    <2>4. CASE InsertHumanFails(r)
      BY <2>4 DEF InsertHumanFails, Rollback
    <2>5. CASE Commit(r) \/ Refresh(r)
      BY <2>5 DEF Commit, CommitRows, Refresh, tables
    <2> QED  BY <1>4, <2>1, <2>2, <2>3, <2>4, <2>5 DEF EndpointStep
  <1> QED  BY <1>1, <1>2, <1>3, <1>4, StepsOnHolder

LEMMA HumansDistinctStep ==
  ASSUME Base, HumansDistinct, [Next]_vars
  PROVE  HumansDistinct'
  <1>1. \A m \in DOMAIN db.humans : m \in DOMAIN work.humans /\ work.humans[m] = db.humans[m]
    BY DEF Base, WorkExtends, Extends
  <1> QED  BY <1>1, HumansStep DEF HumansDistinct

(* The committed tables after a step: those the connection had seen, or    *)
(* with the same accounts.                                                 *)
LEMMA CommittedStep ==
  ASSUME Base, [Next]_vars
  PROVE  db' = work \/ (db'.humans = db.humans /\ db.users \subseteq db'.users)
  <1>1. db.users \subseteq db'.users
    BY TablesStep DEF Extends
  <1>2. CASE Quiet \/ Served \/ RolledBack
    BY <1>1, <1>2 DEF Quiet, Served, RolledBack
  <1>3. ASSUME NEW r \in Requests, EndpointStep(r)
        PROVE  db' = work \/ db' = db
    <2>1. CASE \E n \in Names : InsertUser(r, n)
      BY <2>1, InsertUserRows
    <2>2. CASE InsertHuman(r) \/ InsertSession(r) \/ InsertPrompt(r)
      BY <2>2, InsertHumanRows, InsertSessionRows, InsertPromptRows
    <2>3. CASE InsertHumanFails(r) \/ Commit(r) \/ Refresh(r)
      BY <2>3 DEF InsertHumanFails, Rollback, Commit, CommitRows, Refresh, tables
    <2> QED  BY <1>3, <2>1, <2>2, <2>3 DEF EndpointStep
  <1> QED  BY <1>1, <1>2, <1>3, StepsOnHolder

LEMMA HumansOriginStep ==
  ASSUME Base, HumansOrigin, HumansCommitted, Inserting, [Next]_vars
  PROVE  HumansOrigin' /\ HumansCommitted'
  <1>1. \A id : LostId(id) =>
          \E q \in Requests : hit'[q] /\ ask'[q].kind = "signup" /\ row'[q] = id
    BY PastKept
  <1>2. \A r \in Requests : pc[r] = "inserting" =>
          row[r] \in work.users \/ LostId(row[r])
    BY DEF Inserting, Base, Phases, LostId
  <1>3. \A m \in DOMAIN work.humans : work.humans[m] \in work.users \/ LostId(work.humans[m])
    BY DEF HumansOrigin
  <1>4. \A m \in DOMAIN db.humans : db.humans[m] \in db.users \/ LostId(db.humans[m])
    BY DEF HumansCommitted
  <1>5. ASSUME NEW m \in DOMAIN work'.humans
        PROVE  work'.humans[m] \in work'.users \/ LostId(work'.humans[m])
    <2>1. CASE work'.humans = work.humans /\ work.users \subseteq work'.users
      BY <1>3, <2>1
    <2>2. CASE work' = db
      BY <1>4, <2>2
    <2>3. ASSUME NEW r \in Requests,
                 /\ pc[r] = "inserting" /\ work'.users = work.users
                 /\ DOMAIN work'.humans = DOMAIN work.humans \cup {ask[r].name}
                 /\ work'.humans[ask[r].name] = row[r]
                 /\ \A i \in DOMAIN work.humans :
                      work'.humans[i] = work.humans[i] /\ work.humans[i] # row[r]
          PROVE  work'.humans[m] \in work'.users \/ LostId(work'.humans[m])
      <3>1. CASE m = ask[r].name
        BY <1>2, <2>3, <3>1
      <3>2. CASE m \in DOMAIN work.humans
        BY <1>3, <2>3, <3>2
      <3> QED  BY <2>3, <3>1, <3>2
    <2> QED  BY <2>1, <2>2, <2>3, HumansStep
  <1>6. HumansOrigin'
    BY <1>1, <1>5 DEF HumansOrigin, LostId
  <1>7. ASSUME NEW m \in DOMAIN db'.humans
        PROVE  db'.humans[m] \in db'.users \/ LostId(db'.humans[m])
    BY <1>3, <1>4, CommittedStep
  <1>8. HumansCommitted'
    BY <1>1, <1>7 DEF HumansCommitted, LostId
  <1> QED  BY <1>6, <1>8

(* What the endpoint that has the loop has inserted is there for the       *)
(* connection, unless the endpoint was hit.                                *)
LEMMA InsertingStep ==
  ASSUME Base, HumansCommitted, Inserting, [Next]_vars
  PROVE  Inserting'
  <1>0. /\ \A id : LostId(id) =>
             \E q \in Requests : hit'[q] /\ ask'[q].kind = "signup" /\ row'[q] = id
        /\ \A m \in DOMAIN db.humans : m \in DOMAIN work.humans /\ work.humans[m] = db.humans[m]
        /\ \A q \in Requests : pc[q] = "inserting" => q \in loop
    BY PastKept DEF Base, WorkExtends, Extends, LoopHeld, Holding
  <1>1. SUFFICES ASSUME NEW r \in Requests, pc'[r] = "inserting"
                 PROVE  /\ ask'[r].name \notin DOMAIN db'.humans
                        /\ hit'[r] \/ row'[r] \in work'.users
                        /\ \A m \in DOMAIN work'.humans : work'.humans[m] = row'[r] =>
                             \E q \in Requests : /\ hit'[q] /\ ask'[q].kind = "signup"
                                                 /\ row'[q] = row'[r]
    BY DEF Inserting, LostId
  <1>2. CASE HolderStays /\ (Quiet \/ Served \/ RolledBack)
    <2>1. pc[r] = "inserting"
      BY <1>1, <1>2 DEF HolderStays, Holding
    <2>2. /\ ask'[r] = ask[r] /\ row'[r] = row[r] /\ (hit[r] => hit'[r]) /\ r \in loop
      BY <1>0, <2>1, HistoryStep DEF History
    <2>3. /\ ask[r].name \notin DOMAIN db.humans /\ (hit[r] \/ row[r] \in work.users)
          /\ \A m \in DOMAIN work.humans : work.humans[m] = row[r] => LostId(row[r])
      BY <2>1 DEF Inserting
    <2>4. CASE Quiet
      BY <1>0, <2>2, <2>3, <2>4 DEF Quiet
    <2>5. CASE Served
      <3>1. db.users \subseteq db'.users
        BY TablesStep DEF Extends
      <3> QED  BY <1>0, <2>2, <2>3, <2>5, <3>1 DEF Served
    <2>6. CASE RolledBack
      BY <1>0, <2>2, <2>3, <2>6 DEF RolledBack
    <2> QED  BY <1>2, <2>4, <2>5, <2>6
  <1>3. ASSUME NEW q \in Requests, EndpointStep(q)
        PROVE  /\ ask'[r].name \notin DOMAIN db'.humans
               /\ hit'[r] \/ row'[r] \in work'.users
               /\ \A m \in DOMAIN work'.humans : work'.humans[m] = row'[r] =>
                    \E p \in Requests : /\ hit'[p] /\ ask'[p].kind = "signup"
                                        /\ row'[p] = row'[r]
    <2>1. r = q
      BY <1>1, <1>3, EndpointAlone DEF Holding
    <2>2. pc \in [Requests -> Points]
      BY DEF Base, TypeOK, Points
    <2>3. PICK n \in Names : InsertUser(q, n)
      BY <1>1, <1>3, <2>1, <2>2
      DEF EndpointStep, InsertHuman, InsertHumanFails, InsertSession, InsertPrompt,
          Commit, Refresh, Goto, Answer
    <2>4. /\ work = db /\ db' = db /\ row' = [row EXCEPT ![q] = NextId(db.users)]
          /\ NextId(db.users) \notin db.users
          /\ work'.users = db.users \cup {NextId(db.users)} /\ work'.humans = db.humans
      BY <2>3, InsertUserRows
    <2>5. row'[r] = NextId(db.users) /\ ask'[r].name = n /\ n \notin DOMAIN work.humans
      BY <2>1, <2>3, <2>4 DEF InsertUser, Taken, Base, TypeOK
    <2>6. \A m \in DOMAIN db.humans : db.humans[m] = row'[r] => LostId(row'[r])
      BY <2>4, <2>5 DEF HumansCommitted
    <2> QED  BY <1>0, <2>4, <2>5, <2>6
  <1>4. Quiet \/ Served \/ RolledBack => HolderStays
    BY DEF Quiet, Served, RolledBack
  <1> QED  BY <1>2, <1>3, <1>4, StepsOnHolder

(* A row stays in a table that gets more of them.                          *)
LEMMA StoredGrows ==
  ASSUME NEW s, NEW t, NEW r \in Requests, Extends(t, s), StoredIn(s, r)
  PROVE  StoredIn(t, r)
  BY DEF Extends, StoredIn

LEMMA CommittingStep ==
  ASSUME Base, Inserting, Committing, [Next]_vars
  PROVE  Committing'
  <1>0. /\ \A q \in Requests : pc[q] = "committing" => q \in loop
        /\ pc \in [Requests -> Points] /\ Extends(db', db)
    BY TablesStep DEF Base, TypeOK, Points, LoopHeld, Holding
  <1>1. SUFFICES ASSUME NEW r \in Requests, pc'[r] = "committing"
                 PROVE  /\ hit'[r] \/ StoredIn(work, r)'
                        /\ ask'[r].kind = "signup" => ask'[r].name \notin DOMAIN db'.humans
    BY DEF Committing
  <1>2. CASE HolderStays /\ (Quiet \/ Served \/ RolledBack)
    <2>1. pc[r] = "committing"
      BY <1>1, <1>2 DEF HolderStays, Holding
    <2>2. /\ ask'[r] = ask[r] /\ row'[r] = row[r] /\ user'[r] = user[r]
          /\ (hit[r] => hit'[r]) /\ r \in loop
      BY <1>0, <2>1, HistoryStep DEF History
    <2>3. /\ hit[r] \/ StoredIn(work, r)
          /\ ask[r].kind = "signup" => ask[r].name \notin DOMAIN db.humans
      BY <2>1 DEF Committing
    <2>4. CASE Quiet
      BY <2>2, <2>3, <2>4 DEF Quiet, StoredIn
    <2>5. CASE Served
      <3>1. hit[r] \/ StoredIn(db', r)
        BY <1>0, <2>3, <2>5, StoredGrows DEF Served
      <3> QED  BY <2>2, <2>3, <2>5, <3>1 DEF Served, StoredIn
    <2>6. CASE RolledBack
      <3>1. hit'[r] \/ StoredIn(work', r)
        BY <2>2, <2>3, <2>6 DEF RolledBack
      <3> QED  BY <2>2, <2>3, <2>6, <3>1 DEF RolledBack, StoredIn
    <2> QED  BY <1>2, <2>4, <2>5, <2>6
  <1>3. ASSUME NEW q \in Requests, EndpointStep(q)
        PROVE  /\ hit'[r] \/ StoredIn(work, r)'
               /\ ask'[r].kind = "signup" => ask'[r].name \notin DOMAIN db'.humans
    <2>1. r = q
      BY <1>1, <1>3, EndpointAlone DEF Holding
    <2>2. InsertHuman(q) \/ InsertSession(q) \/ InsertPrompt(q)
      BY <1>0, <1>1, <1>3, <2>1
      DEF EndpointStep, InsertUser, InsertHumanFails, Commit, Refresh, Goto, Answer
    <2>3. CASE InsertHuman(q)
      <3>1. /\ ask' = ask /\ row' = row /\ hit' = hit /\ pc[q] = "inserting"
        BY <2>3 DEF InsertHuman, asked
      <3>2. /\ ask[q].kind = "signup" /\ ask[q].name \notin DOMAIN db.humans
            /\ hit[q] \/ row[q] \in work.users
        BY <3>1 DEF Inserting, Base, Phases
      <3>3. /\ db' = db /\ DOMAIN work'.humans = DOMAIN work.humans \cup {ask[q].name}
            /\ work'.users = work.users
        BY <2>3, InsertHumanRows
      <3> QED  BY <2>1, <3>1, <3>2, <3>3 DEF StoredIn
    <2>4. CASE InsertSession(q)
      <3>1. ask' = ask /\ user' = user /\ ask[q].kind = "chat"
        BY <2>4 DEF InsertSession
      <3>2. /\ row' = [row EXCEPT ![q] = NextId(DOMAIN db.sessions)]
            /\ DOMAIN work'.sessions = DOMAIN db.sessions \cup {NextId(DOMAIN db.sessions)}
            /\ work'.sessions[NextId(DOMAIN db.sessions)] = user[q]
        BY <2>4, InsertSessionRows
      <3>3. row'[q] = NextId(DOMAIN db.sessions)
        BY <3>2 DEF Base, TypeOK
      <3> QED  BY <2>1, <3>1, <3>2, <3>3 DEF StoredIn
    <2>5. CASE InsertPrompt(q)
      <3>1. ask' = ask /\ ask[q].kind = "run"
        BY <2>5 DEF InsertPrompt
      <3>2. work'.prompts = db.prompts \cup {q}
        BY <2>5, InsertPromptRows
      <3> QED  BY <2>1, <3>1, <3>2 DEF StoredIn
    <2> QED  BY <2>2, <2>3, <2>4, <2>5
  <1>4. Quiet \/ Served \/ RolledBack => HolderStays
    BY DEF Quiet, Served, RolledBack
  <1> QED  BY <1>2, <1>3, <1>4, StepsOnHolder

-----------------------------------------------------------------------------
(***************************************************************************)
(* What an answer stands for.                                              *)
(***************************************************************************)

(* Rows are committed by a COMMIT, answers of 200 or 201 are given to a    *)
(* login, at the end of a turn, and for rows that have been read again.    *)
LEMMA Finished ==
  ASSUME Base, [Next]_vars, NEW r \in Requests,
         pc'[r] \in {"refreshing", "serving"} \/ status'[r] \in {200, 201}
  PROVE  \/ pc[r] \in {"refreshing", "serving"} \/ status[r] \in {200, 201}
         \/ pc[r] = "committing" /\ Commit(r)
         \/ pc[r] = "ready" /\ ask[r].kind = "login" /\ ask'[r] = ask[r]
  <1>0. pc \in [Requests -> Points] /\ status \in [Requests -> Codes]
    BY DEF Base, TypeOK, Points, Codes
  <1> USE DEF Answer, Goto
  <1>1. ASSUME NEW q \in Requests, AccountStep(q)
        PROVE  \/ pc[r] \in {"refreshing", "serving"} \/ status[r] \in {200, 201}
               \/ pc[r] = "ready" /\ ask[r].kind = "login" /\ ask'[r] = ask[r]
    <2>1. CASE Login(q)
      BY <1>0, <2>1 DEF Login, asked
    <2>2. CASE (\E a \in Asks : Authenticate(q, a)) \/ InsertHuman(q) \/ InsertHumanFails(q)
      BY <1>0, <2>2 DEF Authenticate, InsertHuman, InsertHumanFails
    <2>3. CASE \E n \in Names : SignupTaken(q, n) \/ InsertUser(q, n)
      BY <1>0, <2>3 DEF SignupTaken, InsertUser
    <2> QED  BY <1>1, <2>1, <2>2, <2>3 DEF AccountStep
  <1>2. ASSUME NEW q \in Requests, ChatStep(q)
        PROVE  \/ pc[r] \in {"refreshing", "serving"} \/ status[r] \in {200, 201}
               \/ pc[r] = "committing" /\ Commit(r)
    <2>1. CASE InsertSession(q) \/ NoUser(q) \/ InsertPrompt(q) \/ RefuseRun(q) \/ Close(q)
      BY <1>0, <2>1 DEF InsertSession, NoUser, InsertPrompt, RefuseRun, Close
    <2>2. CASE Commit(q)
      <3>1. CASE q = r
        BY <2>2, <3>1 DEF Commit
      <3>2. CASE q # r
        BY <1>0, <2>2, <3>2 DEF Commit
      <3> QED  BY <3>1, <3>2
    <2>3. CASE Refresh(q) \/ EndTurn(q)
      BY <1>0, <2>3 DEF Refresh, EndTurn
    <2> QED  BY <1>2, <2>1, <2>2, <2>3 DEF ChatStep
  <1>3. CASE (\E c \in Calls : AgentStep(c)) \/ Start \/ Stop \/ UNCHANGED vars
    BY <1>3 DEF AgentStep, EndDelegated, Delegate, DelegateFails, Start, Stop, vars
  <1> QED  BY <1>1, <1>2, <1>3 DEF Next

LEMMA LostOnlyByCloseStep ==
  ASSUME Base, Committing, LostOnlyByClose, [Next]_vars
  PROVE  LostOnlyByClose'
  <1> SUFFICES ASSUME NEW r \in Requests,
                      pc'[r] \in {"refreshing", "serving"} \/ status'[r] \in {200, 201}
               PROVE  ask'[r].kind = "login" \/ hit'[r] \/ Stored(r)'
    BY DEF LostOnlyByClose
  <1>1. Phases /\ History(r) /\ Extends(db', db)
    BY HistoryStep, TablesStep DEF Base
  <1>2. CASE pc[r] \in {"refreshing", "serving"} \/ status[r] \in {200, 201}
    <2>1. pc[r] \notin {"new", "ready"}
      BY <1>1, <1>2 DEF Phases
    <2>2. ask[r].kind = "login" \/ hit[r] \/ Stored(r)
      BY <1>2 DEF LostOnlyByClose
    <2> QED  BY <1>1, <2>1, <2>2 DEF History, Extends, Stored
  <1>3. CASE pc[r] = "committing" /\ Commit(r)
    <2>1. hit[r] \/ StoredIn(work, r)
      BY <1>3 DEF Committing
    <2>2. ask' = ask /\ row' = row /\ user' = user /\ hit' = hit /\ db' = work
      BY <1>3 DEF Commit, CommitRows
    <2>3. ask[r].kind \in {"signup", "chat", "run"}
      BY <1>1, <1>3 DEF Phases
    <2> QED  BY <2>1, <2>2, <2>3 DEF StoredIn, Stored
  <1>4. CASE pc[r] = "ready" /\ ask[r].kind = "login" /\ ask'[r] = ask[r]
    BY <1>4
  <1> QED  BY <1>2, <1>3, <1>4, Finished

(* A signup's answer of 500 comes from the constraints, or from a row that *)
(* is not there when it is read again.                                     *)
LEMMA SignupFailed ==
  ASSUME Base, [Next]_vars, NEW r \in Requests, ask'[r].kind = "signup", status'[r] = 500
  PROVE  \/ status[r] = 500 /\ ask'[r] = ask[r]
         \/ InsertHumanFails(r)
         \/ Refresh(r) /\ ask[r].kind = "signup" /\ ~Present(r)
  <1>0. /\ pc \in [Requests -> Points] /\ status \in [Requests -> Codes] /\ Phases
        /\ ask \in [Requests -> AskTypes] /\ History(r)
    BY HistoryStep DEF Base, TypeOK, Points, Codes, AskTypes
  <1>1. CASE status[r] = 500
    BY <1>0, <1>1 DEF Phases, History
  <1>2. CASE status[r] # 500
    <2> USE DEF Answer, Goto
    <2>1. ASSUME NEW q \in Requests, AccountStep(q)
          PROVE  InsertHumanFails(r)
      <3>1. CASE InsertHumanFails(q)
        <4>1. q = r
          BY <1>0, <1>2, <3>1 DEF InsertHumanFails
        <4> QED  BY <3>1, <4>1
      <3>2. CASE (\E a \in Asks : Authenticate(q, a)) \/ InsertHuman(q) \/ Login(q)
        BY <1>0, <1>2, <3>2 DEF Authenticate, InsertHuman, Login
      <3>3. CASE \E n \in Names : SignupTaken(q, n) \/ InsertUser(q, n)
        BY <1>0, <1>2, <3>3 DEF SignupTaken, InsertUser
      <3> QED  BY <2>1, <3>1, <3>2, <3>3 DEF AccountStep
    <2>2. ASSUME NEW q \in Requests, ChatStep(q)
          PROVE  Refresh(r) /\ ask[r].kind = "signup" /\ ~Present(r)
      <3>1. CASE NoUser(q) \/ RefuseRun(q)
        BY <1>0, <1>2, <3>1 DEF NoUser, RefuseRun, asked, Phases
      <3>2. CASE Refresh(q)
        <4>1. q = r
          BY <1>0, <1>2, <3>2 DEF Refresh
        <4>2. ask[r].kind = "signup"
          BY <3>2 DEF Refresh
        <4>3. ~Present(r)
          BY <1>0, <3>2, <4>1, <4>2 DEF Refresh
        <4> QED  BY <3>2, <4>1, <4>2, <4>3
      <3>3. CASE InsertSession(q) \/ InsertPrompt(q) \/ Commit(q) \/ EndTurn(q) \/ Close(q)
        BY <1>0, <1>2, <3>3 DEF InsertSession, InsertPrompt, Commit, EndTurn, Close
      <3> QED  BY <2>2, <3>1, <3>2, <3>3 DEF ChatStep
    <2>3. CASE (\E c \in Calls : AgentStep(c)) \/ Start \/ Stop \/ UNCHANGED vars
      BY <1>2, <2>3 DEF AgentStep, EndDelegated, Delegate, DelegateFails, Start, Stop, vars
    <2> QED  BY <2>1, <2>2, <2>3 DEF Next
  <1> QED  BY <1>1, <1>2

LEMMA SignupFailsOnlyStep ==
  ASSUME Base, HumansNew, Inserting, LostOnlyByClose, SignupFailsOnly, [Next]_vars
  PROVE  SignupFailsOnly'
  <1>0. /\ \A id : LostId(id) =>
             \E q \in Requests : hit'[q] /\ ask'[q].kind = "signup" /\ row'[q] = id
        /\ Extends(db', db) /\ LoopHeld /\ Phases /\ loop \subseteq Requests
        /\ (~open => work = db) /\ Extends(work, db)
    BY PastKept, TablesStep DEF Base, WorkExtends, TypeOK
  <1> SUFFICES ASSUME NEW r \in Requests, ask'[r].kind = "signup", status'[r] = 500
               PROVE  \/ hit'[r]
                      \/ \E q \in Requests : /\ hit'[q] /\ ask'[q].kind = "signup"
                                             /\ row'[q] = row'[r]
                      \/ \E m \in DOMAIN db'.humans :
                           m # ask'[r].name /\ EmailOf[m] = EmailOf[ask'[r].name]
    BY DEF SignupFailsOnly
  <1>1. CASE status[r] = 500 /\ ask'[r] = ask[r]
    <2>1. /\ hit[r] => hit'[r]
          /\ row'[r] = row[r]
      BY <1>0, <1>1, HistoryStep DEF History, Phases
    <2>2. \/ hit[r] \/ LostId(row[r])
          \/ \E m \in DOMAIN db.humans : m # ask[r].name /\ EmailOf[m] = EmailOf[ask[r].name]
      BY <1>1 DEF SignupFailsOnly, LostId
    <2> QED  BY <1>0, <1>1, <2>1, <2>2 DEF Extends
  <1>2. CASE InsertHumanFails(r)
    <2>1. /\ pc[r] = "inserting" /\ db' = db /\ ask' = ask /\ row' = row /\ hit' = hit
          /\ ~Unique(ask[r].name, row[r])
      BY <1>2 DEF InsertHumanFails, Rollback
    <2>2. \A q \in loop : pc[q] # "committing"
      BY <1>0, <2>1 DEF LoopHeld, Holding
    <2>3. DOMAIN work.humans \subseteq DOMAIN db.humans
      BY <2>2 DEF HumansNew
    <2>4. PICK m \in DOMAIN work.humans :
                 m = ask[r].name \/ EmailOf[m] = EmailOf[ask[r].name] \/ work.humans[m] = row[r]
      BY <2>1 DEF Unique
    <2>5. /\ ask[r].name \notin DOMAIN db.humans
          /\ work.humans[m] = row[r] => LostId(row[r])
      BY <2>1 DEF Inserting
    <2>6. m # ask[r].name /\ m \in DOMAIN db.humans
      BY <2>3, <2>5
    <2> QED  BY <1>0, <2>1, <2>4, <2>5, <2>6
  <1>3. CASE Refresh(r) /\ ask[r].kind = "signup" /\ ~Present(r)
    <2>1. pc[r] = "refreshing" /\ hit' = hit
      BY <1>3 DEF Refresh
    <2>2. ~open
      BY <1>0, <2>1 DEF LoopHeld, Holding
    <2>3. ask[r].name \notin DOMAIN db.humans
      BY <1>0, <1>3, <2>2 DEF Present
    <2> QED  BY <1>3, <2>1, <2>3 DEF LostOnlyByClose, Stored
  <1> QED  BY <1>1, <1>2, <1>3, SignupFailed

(* The inductive invariant of accounts and answers.                        *)
RowsInv ==
  /\ Base
  /\ HumansNew /\ HumansDistinct /\ HumansOrigin /\ HumansCommitted
  /\ Inserting /\ Committing
  /\ LostOnlyByClose /\ SignupFailsOnly

LEMMA RowsInit == Init => RowsInv
  <1> SUFFICES ASSUME Init
               PROVE  RowsInv
    OBVIOUS
  <1>1. /\ work = db /\ db.users = {UserOf[n] : n \in Registered}
        /\ DOMAIN db.humans = Registered /\ \A n \in Registered : db.humans[n] = UserOf[n]
    BY DEF Init
  <1>2. /\ \A r \in Requests : pc[r] = "new" /\ status[r] = 0 /\ ask[r].kind = "none"
    BY DEF Init, NoAsk
  <1>3. HumansDistinct
    BY <1>1, UserOfAssumption DEF HumansDistinct
  <1>4. HumansNew /\ HumansOrigin /\ HumansCommitted
    BY <1>1 DEF HumansNew, HumansOrigin, HumansCommitted
  <1>5. Inserting /\ Committing
    BY <1>2 DEF Inserting, Committing
  <1>6. LostOnlyByClose /\ SignupFailsOnly
    BY <1>2 DEF LostOnlyByClose, SignupFailsOnly
  <1> QED  BY <1>3, <1>4, <1>5, <1>6, BaseInit DEF RowsInv

LEMMA RowsStep == RowsInv /\ [Next]_vars => RowsInv'
  BY BaseStep, HumansNewStep, HumansDistinctStep, HumansOriginStep, InsertingStep,
     CommittingStep, LostOnlyByCloseStep, SignupFailsOnlyStep
  DEF RowsInv

(* Rows are lost in one way only: the closing of another Session before    *)
(* they were committed.                                                    *)
THEOREM RowsLostOnlyByClose == Spec => []LostOnlyByClose
  <1>1. RowsInv => LostOnlyByClose
    BY DEF RowsInv
  <1> QED  BY <1>1, RowsInit, RowsStep, PTL DEF Spec

(* A signup that nobody hit, with an address and an id of its own, does    *)
(* not fail.                                                               *)
THEOREM SignupsFailOnly == Spec => []SignupFailsOnly
  <1>1. RowsInv => SignupFailsOnly
    BY DEF RowsInv
  <1> QED  BY <1>1, RowsInit, RowsStep, PTL DEF Spec

-----------------------------------------------------------------------------
(***************************************************************************)
(* Whose a chat session is.                                                *)
(***************************************************************************)

(* An id that was below the next one stays so, and is never that of the    *)
(* delegated agent.                                                        *)
LEMMA BelowStays ==
  ASSUME Base, [Next]_vars, NEW id \in Nat, Below(id)
  PROVE  /\ id <= NextId(db'.users)
         /\ 2 \in DOMAIN db'.agents => id # db'.agents[2]
  <1>1. /\ db.users \in SUBSET Ids /\ db'.users \in SUBSET Ids /\ db.users \subseteq db'.users
        /\ Bounded(db.users) /\ Bounded(db'.users)
    BY TablesStep DEF Base, TypeOK, TablesOK, TablesBounded, Extends
  <1>2. /\ NextId(db.users) \in Nat /\ NextId(db'.users) \in Nat
        /\ NextId(db.users) <= NextId(db'.users)
    BY <1>1, NextIdNew, NextIdGrows DEF Ids
  <1>3. id <= NextId(db'.users)
    BY <1>2 DEF Below
  <1>4. CASE 2 \in DOMAIN db.agents
    <2>1. db'.agents[2] = db.agents[2]
      BY <1>4, TablesStep DEF Extends
    <2> QED  BY <1>3, <1>4, <2>1 DEF Below
  <1>5. CASE 2 \notin DOMAIN db.agents
    <2>1. CASE Start
      <3>1. 2 \in DOMAIN db'.agents => db'.agents[2] = NextId(db.users) + 1
        BY <1>5, <2>1, StartRows
      <3> QED  BY <1>2, <1>3, <3>1 DEF Below
    <2>2. CASE ~Start
      <3>1. work.agents = db.agents
        BY DEF Base, WorkExtends
      <3>2. db'.agents = db.agents
        BY <1>5, <2>2, <3>1, StepKinds DEF tables, Adds
      <3> QED  BY <1>3, <1>5, <3>2
    <2> QED  BY <2>1, <2>2
  <1> QED  BY <1>4, <1>5

(* No account and no agent has the id 0, which stands for no user.         *)
LEMMA ZeroBelow == ASSUME Base PROVE Below(0)
  <1>1. /\ NextId(db.users) \in Ids /\ db.users \subseteq Ids
        /\ 2 \in DOMAIN db.agents => db.agents[2] \in db.users
    BY NextIdNew DEF Base, TypeOK, TablesOK, TablesBounded, AgentsMade
  <1> QED  BY <1>1 DEF Below, Ids

(* The user that a request acts as: found when it is authenticated.        *)
LEMMA UserStep ==
  ASSUME Base, [Next]_vars, NEW r \in Requests
  PROVE  \/ pc[r] # "new" /\ user'[r] = user[r] /\ ask'[r] = ask[r] /\ pc'[r] # "new"
         \/ user'[r] = user[r] /\ pc'[r] = "new" /\ pc[r] = "new" /\ ask'[r] = ask[r]
         \/ user'[r] = user[r] /\ pc[r] = "new" /\ pc'[r] # "new"
         \/ /\ pc[r] = "new" /\ pc'[r] # "new" /\ UNCHANGED <<db, work>>
            /\ user'[r] = 0 \/ (/\ ask'[r].name \in DOMAIN work.humans
                                /\ user'[r] = work.humans[ask'[r].name])
  <1>0. /\ pc \in [Requests -> Points] /\ ask \in [Requests -> AskTypes]
        /\ user \in [Requests -> Nat] /\ History(r)
    BY HistoryStep DEF Base, TypeOK, Points, AskTypes
  <1>1. CASE pc[r] # "new"
    BY <1>0, <1>1 DEF History
  <1>2. CASE pc[r] = "new" /\ user'[r] = user[r] /\ pc'[r] # "new"
    BY <1>2
  <1>3. CASE pc[r] = "new" /\ (user'[r] # user[r] \/ pc'[r] = "new")
    <2> USE DEF Answer, Goto
    <2>1. ASSUME NEW q \in Requests, AccountStep(q)
          PROVE  \/ user'[r] = user[r] /\ pc'[r] = "new" /\ ask'[r] = ask[r]
                 \/ /\ pc'[r] # "new" /\ UNCHANGED <<db, work>>
                    /\ user'[r] = 0 \/ (/\ ask'[r].name \in DOMAIN work.humans
                                        /\ user'[r] = work.humans[ask'[r].name])
      <3>1. ASSUME NEW a \in Asks, Authenticate(q, a)
            PROVE  \/ user'[r] = user[r] /\ pc'[r] = "new" /\ ask'[r] = ask[r]
                   \/ /\ pc'[r] # "new" /\ UNCHANGED <<db, work>>
                      /\ user'[r] = 0 \/ (/\ ask'[r].name \in DOMAIN work.humans
                                          /\ user'[r] = work.humans[ask'[r].name])
        <4>1. CASE q = r
          <5>1. ask'[r] = a /\ pc'[r] = "ready" /\ UNCHANGED <<db, work>> /\ user'[r] # user[r]
            BY <1>0, <1>3, <3>1, <4>1 DEF Authenticate, tables
          <5>2. user'[r] = UserFound(a.name)
                \/ (IF a.name \in DOMAIN work.humans THEN user'[r] = work.humans[a.name]
                    ELSE user'[r] = 0)
            BY <1>0, <3>1, <4>1, <5>1 DEF Authenticate
          <5> QED  BY <5>1, <5>2 DEF UserFound
        <4>2. CASE q # r
          BY <1>0, <1>3, <3>1, <4>2 DEF Authenticate
        <4> QED  BY <4>1, <4>2
      <3>2. CASE Login(q) \/ InsertHuman(q) \/ InsertHumanFails(q)
        BY <1>0, <1>3, <3>2 DEF Login, InsertHuman, InsertHumanFails, asked
      <3>3. CASE \E n \in Names : SignupTaken(q, n) \/ InsertUser(q, n)
        BY <1>0, <1>3, <3>3 DEF SignupTaken, InsertUser
      <3> QED  BY <2>1, <3>1, <3>2, <3>3 DEF AccountStep
    <2>2. ASSUME NEW q \in Requests, ChatStep(q)
          PROVE  user'[r] = user[r] /\ ask'[r] = ask[r]
      BY <2>2 DEF ChatStep, InsertSession, NoUser, InsertPrompt, RefuseRun, Commit, Refresh,
                  EndTurn, Close, asked
    <2>3. CASE (\E c \in Calls : AgentStep(c)) \/ Start \/ Stop \/ UNCHANGED vars
      <3>1. UNCHANGED <<user, ask, pc>>
        BY <2>3 DEF AgentStep, EndDelegated, Delegate, DelegateFails, Start, Stop, vars, asked
      <3> QED  BY <1>3, <3>1
    <2> QED  BY <1>3, <2>1, <2>2, <2>3 DEF Next
  <1> QED  BY <1>1, <1>2, <1>3

LEMMA IdsBelowStep ==
  ASSUME Base, IdsBelow, [Next]_vars
  PROVE  IdsBelow'
  <1>0. /\ \A m \in DOMAIN work.humans : work.humans[m] \in Nat
        /\ user \in [Requests -> Nat] /\ row \in [Requests -> Nat]
        /\ pc \in [Requests -> Points]
        /\ \A m \in DOMAIN db.humans : m \in DOMAIN work.humans /\ work.humans[m] = db.humans[m]
    BY DEF Base, TypeOK, TablesOK, Ids, WorkExtends, Extends, Points
  <1>1. /\ \A m \in DOMAIN work.humans : Below(work.humans[m])
        /\ \A r \in Requests : Below(user[r])
        /\ \A r \in Requests : pc[r] = "inserting" => Below(row[r])
    BY DEF IdsBelow
  <1> DEFINE Under(id) == /\ id <= NextId(db'.users)
                          /\ 2 \in DOMAIN db'.agents => id # db'.agents[2]
  <1>2. \A id \in Nat : Below(id) => Under(id)
    BY BelowStays
  <1> HIDE DEF Under
  <1>3. ASSUME NEW m \in DOMAIN work'.humans
        PROVE  Under(work'.humans[m])
    <2>1. CASE work'.humans = work.humans \/ work' = db
      BY <1>0, <1>1, <1>2, <2>1
    <2>2. ASSUME NEW r \in Requests,
                 /\ pc[r] = "inserting"
                 /\ DOMAIN work'.humans = DOMAIN work.humans \cup {ask[r].name}
                 /\ work'.humans[ask[r].name] = row[r]
                 /\ \A i \in DOMAIN work.humans : work'.humans[i] = work.humans[i]
          PROVE  Under(work'.humans[m])
      <3>1. CASE m = ask[r].name
        BY <1>0, <1>1, <1>2, <2>2, <3>1
      <3>2. CASE m \in DOMAIN work.humans
        BY <1>0, <1>1, <1>2, <2>2, <3>2
      <3> QED  BY <2>2, <3>1, <3>2
    <2> QED  BY <2>1, <2>2, HumansStep
  <1>4. ASSUME NEW r \in Requests
        PROVE  Under(user'[r])
    <2>1. CASE user'[r] = user[r]
      BY <1>0, <1>1, <1>2, <2>1
    <2>2. CASE user'[r] = 0
      BY <1>2, <2>2, ZeroBelow
    <2>3. CASE \E m \in DOMAIN work.humans : user'[r] = work.humans[m]
      BY <1>0, <1>1, <1>2, <2>3
    <2> QED  BY <2>1, <2>2, <2>3, UserStep
  <1>5. ASSUME NEW r \in Requests, pc'[r] = "inserting"
        PROVE  Under(row'[r])
    <2>1. CASE pc[r] = "inserting"
      <3>1. row'[r] = row[r]
        BY <2>1, HistoryStep DEF History
      <3> QED  BY <1>0, <1>1, <1>2, <2>1, <3>1
    <2>2. CASE pc[r] # "inserting"
      <3>1. PICK q \in Requests : EndpointStep(q)
        BY <1>5, <2>2, StepsOnHolder DEF Quiet, Served, RolledBack, HolderStays, Holding
      <3>2. q = r
        BY <1>5, <3>1, EndpointAlone DEF Holding
      <3>3. PICK n \in Names : InsertUser(r, n)
        BY <1>0, <1>5, <2>2, <3>1, <3>2
        DEF EndpointStep, InsertHuman, InsertHumanFails, InsertSession, InsertPrompt,
            Commit, Refresh, Goto, Answer
      <3>4. /\ db' = db /\ row' = [row EXCEPT ![r] = NextId(db.users)]
            /\ NextId(db.users) \in Ids /\ NextId(db.users) \notin db.users
        BY <3>3, InsertUserRows
      <3>5. 2 \in DOMAIN db.agents => db.agents[2] \in db.users
        BY DEF Base, AgentsMade
      <3> QED  BY <1>0, <3>4, <3>5 DEF Under, Ids
    <2> QED  BY <2>1, <2>2
  <1> QED  BY <1>3, <1>4, <1>5 DEF IdsBelow, Below, Under

(* An account stays as it is, or the signup of it was hit.                 *)
LEMMA HumansKept ==
  ASSUME Base, HumansNew, [Next]_vars, NEW m \in DOMAIN work.humans
  PROVE  \/ m \in DOMAIN work'.humans /\ work'.humans[m] = work.humans[m]
         \/ \E p \in Requests : hit'[p] /\ ask'[p].kind = "signup" /\ ask'[p].name = m
  <1>0. /\ Extends(work, db) /\ LoopHeld /\ loop \subseteq Requests
    BY DEF Base, WorkExtends, TypeOK
  <1>1. CASE m \in DOMAIN db.humans
    BY <1>0, <1>1, HumansStep DEF Extends
  <1>2. CASE m \notin DOMAIN db.humans
    <2>1. PICK p \in loop : pc[p] = "committing" /\ ask[p].kind = "signup" /\ ask[p].name = m
      BY <1>2 DEF HumansNew
    <2>2. ask'[p] = ask[p]
      BY <1>0, <2>1, HistoryStep DEF History
    <2>3. CASE Quiet \/ Served
      BY <1>2, <2>3 DEF Quiet, Served
    <2>4. CASE RolledBack
      BY <1>0, <1>2, <2>1, <2>2, <2>4 DEF RolledBack
    <2>5. ASSUME NEW r \in Requests, EndpointStep(r)
          PROVE  m \in DOMAIN work'.humans /\ work'.humans[m] = work.humans[m]
      <3>1. p = r
        BY <1>0, <2>1, <2>5, EndpointAlone
      <3>2. Commit(r)
        <4>1. pc[r] = "committing" /\ loop # {}
          BY <2>1, <3>1
        <4> QED  BY <2>5, <4>1 DEF EndpointStep, InsertUser, InsertHuman, InsertHumanFails,
                                   InsertSession, InsertPrompt, Refresh
      <3> QED  BY <3>2 DEF Commit, CommitRows
    <2> QED  BY <2>3, <2>4, <2>5, StepsOnHolder
  <1> QED  BY <1>1, <1>2

LEMMA UsersKnownStep ==
  ASSUME Base, HumansNew, UsersKnown, [Next]_vars
  PROVE  UsersKnown'
  <1> SUFFICES ASSUME NEW r \in Requests
               PROVE  /\ pc'[r] = "new" => user'[r] = 0
                      /\ ask'[r].kind \in {"chat", "run"} /\ user'[r] # 0 =>
                           \/ /\ ask'[r].name \in DOMAIN work'.humans
                              /\ work'.humans[ask'[r].name] = user'[r]
                           \/ \E p \in Requests : /\ hit'[p] /\ ask'[p].kind = "signup"
                                                  /\ ask'[p].name = ask'[r].name
    BY DEF UsersKnown, HitSignup
  <1>0. /\ \A n : HitSignup(n) =>
             \E p \in Requests : hit'[p] /\ ask'[p].kind = "signup" /\ ask'[p].name = n
        /\ pc[r] = "new" => user[r] = 0
    BY PastKept DEF UsersKnown
  <1>1. CASE pc[r] # "new" /\ user'[r] = user[r] /\ ask'[r] = ask[r] /\ pc'[r] # "new"
    <2>1. ask[r].kind \in {"chat", "run"} /\ user[r] # 0 =>
             \/ ask[r].name \in DOMAIN work.humans /\ work.humans[ask[r].name] = user[r]
             \/ HitSignup(ask[r].name)
      BY DEF UsersKnown
    <2> QED  BY <1>0, <1>1, <2>1, HumansKept
  <1>2. CASE pc[r] = "new" /\ user'[r] = user[r]
    BY <1>0, <1>2
  <1>3. CASE /\ pc[r] = "new" /\ pc'[r] # "new" /\ UNCHANGED <<db, work>>
             /\ user'[r] = 0 \/ (/\ ask'[r].name \in DOMAIN work.humans
                                 /\ user'[r] = work.humans[ask'[r].name])
    BY <1>3
  <1> QED  BY <1>1, <1>2, <1>3, UserStep

(* A prompt is added only for a session that belongs to its request's user.*)
LEMMA PromptsOwnedStep ==
  ASSUME Base, PromptsOwned, [Next]_vars
  PROVE  PromptsOwned'
  <1>0. /\ Extends(db', db) /\ db.prompts \subseteq work.prompts
        /\ work.prompts \subseteq Requests
    BY TablesStep DEF Base, TypeOK, TablesOK, WorkExtends, Extends
  <1> SUFFICES ASSUME NEW r \in work'.prompts
               PROVE  /\ ask'[r].kind = "run" /\ pc'[r] \notin {"new", "ready"} /\ user'[r] # 0
                      /\ ask'[r].session \in DOMAIN db'.sessions
                      /\ db'.sessions[ask'[r].session] = user'[r]
    BY DEF PromptsOwned
  <1>1. CASE r \in work.prompts
    <2>1. r \in Requests /\ History(r)
      BY <1>0, <1>1, HistoryStep
    <2> QED  BY <1>0, <1>1, <2>1 DEF PromptsOwned, History, Extends
  <1>2. CASE r \notin work.prompts
    <2>1. PICK q \in Requests : EndpointStep(q)
      BY <1>0, <1>2, StepsOnHolder DEF Quiet, Served, RolledBack
    <2>2. InsertPrompt(q)
      <3>1. CASE \E n \in Names : InsertUser(q, n)
        BY <1>0, <1>2, <3>1, InsertUserRows
      <3>2. CASE InsertHuman(q) \/ InsertSession(q)
        BY <1>0, <1>2, <3>2, InsertHumanRows, InsertSessionRows
      <3>3. CASE InsertHumanFails(q) \/ Commit(q) \/ Refresh(q)
        BY <1>0, <1>2, <3>3 DEF InsertHumanFails, Rollback, Commit, CommitRows, Refresh, tables
      <3> QED  BY <2>1, <3>1, <3>2, <3>3 DEF EndpointStep
    <2>3. work = db /\ db' = db /\ work'.prompts = db.prompts \cup {q}
      BY <2>2, InsertPromptRows
    <2>4. r = q
      BY <1>2, <2>3
    <2>5. /\ ask' = ask /\ user' = user /\ ask[q].kind = "run" /\ user[q] # 0
          /\ ask[q].session \in DOMAIN work.sessions
          /\ work.sessions[ask[q].session] = user[q]
      BY <2>2 DEF InsertPrompt, MayRun, ValidateUserSession
    <2>6. pc'[q] = "committing"
      BY <2>2 DEF InsertPrompt, Goto, Base, TypeOK
    <2> QED  BY <2>3, <2>4, <2>5, <2>6
  <1> QED  BY <1>1, <1>2

(* Each delegated call has a session of its own, the agent's.              *)
LEMMA CallsStep ==
  ASSUME Base, CallsOwned, CallsApart, [Next]_vars
  PROVE  CallsOwned' /\ CallsApart'
  <1>0. Extends(db', db) /\ made \in [Calls -> Nat]
    BY TablesStep DEF Base, TypeOK
  <1>1. CASE made' = made
    <2>1. CallsApart'
      BY <1>1 DEF CallsApart
    <2>2. CallsOwned'
      BY <1>0, <1>1 DEF CallsOwned, Extends
    <2> QED  BY <2>1, <2>2
  <1>2. ASSUME NEW r \in Requests, NEW c \in Calls, Delegate(r, c)
        PROVE  CallsOwned' /\ CallsApart'
    <2> DEFINE id == NextId(DOMAIN db.sessions)
    <2>1. /\ 2 \in DOMAIN db.agents /\ made' = [made EXCEPT ![c] = id]
          /\ id \in Ids /\ id \notin DOMAIN db.sessions
          /\ id \in DOMAIN db'.sessions /\ db'.sessions[id] = db.agents[2]
      BY <1>2, DelegateRows
    <2> HIDE DEF id
    <2>2. 2 \in DOMAIN db'.agents /\ db'.agents[2] = db.agents[2]
      BY <1>0, <2>1 DEF Extends
    <2>3. made'[c] = id /\ \A d \in Calls \ {c} : made'[d] = made[d]
      BY <1>0, <2>1
    <2>4. \A d \in Calls : made[d] # 0 =>
             made[d] \in DOMAIN db.sessions /\ db.sessions[made[d]] = db.agents[2]
      BY DEF CallsOwned
    <2>5. CallsOwned'
      BY <1>0, <2>1, <2>2, <2>3, <2>4 DEF CallsOwned, Extends
    <2>6. CallsApart'
      BY <2>1, <2>3, <2>4 DEF CallsApart
    <2> QED  BY <2>5, <2>6
  <1>3. made' = made \/ \E r \in Requests, c \in Calls : Delegate(r, c)
    <2>1. ASSUME NEW r \in Requests, AccountStep(r)
          PROVE  made' = made
      BY <2>1 DEF AccountStep, Authenticate, SignupTaken, InsertUser, Login, InsertHuman,
                  InsertHumanFails, delegated
    <2>2. ASSUME NEW r \in Requests, ChatStep(r)
          PROVE  made' = made
      BY <2>2 DEF ChatStep, InsertSession, NoUser, InsertPrompt, RefuseRun, Commit, Refresh,
                  EndTurn, Close, delegated
    <2>3. ASSUME NEW c \in Calls, AgentStep(c)
          PROVE  made' = made \/ \E r \in Requests : Delegate(r, c)
      BY <2>3 DEF AgentStep, EndDelegated, DelegateFails
    <2> QED  BY <2>1, <2>2, <2>3 DEF Next, Start, Stop, vars, delegated
  <1> QED  BY <1>1, <1>2, <1>3

(* The inductive invariant of chat sessions.                               *)
OwnersInv == RowsInv /\ IdsBelow /\ UsersKnown /\ PromptsOwned /\ CallsOwned /\ CallsApart

LEMMA OwnersInit == Init => OwnersInv
  <1> SUFFICES ASSUME Init
               PROVE  OwnersInv
    OBVIOUS
  <1>1. RowsInv
    BY RowsInit
  <1>2. /\ work = db /\ db.users = {UserOf[n] : n \in Registered}
        /\ db.humans = [n \in Registered |-> UserOf[n]]
        /\ DOMAIN db.agents = {} /\ db.prompts = {}
        /\ \A r \in Requests : pc[r] = "new" /\ user[r] = 0 /\ ask[r].kind = "none"
        /\ \A c \in Calls : made[c] = 0
    BY DEF Init, NoAsk, Empty
  <1>3. /\ db.users \subseteq Ids /\ NextId(db.users) \in Ids
        /\ \A i \in db.users : i < NextId(db.users)
    BY <1>1, NextIdNew DEF RowsInv, Base, TypeOK, TablesOK, TablesBounded
  <1>4. \A m \in DOMAIN work.humans : work.humans[m] \in db.users
    BY <1>2
  <1>5. IdsBelow
    <2>1. \A id \in db.users \cup {0} : Below(id)
      <3>1. 2 \notin DOMAIN db.agents
        BY <1>2
      <3>2. \A id \in db.users \cup {0} : id <= NextId(db.users)
        BY <1>3 DEF Ids
      <3> QED  BY <3>1, <3>2 DEF Below
    <2> QED  BY <1>2, <1>4, <2>1 DEF IdsBelow
  <1>6. UsersKnown /\ PromptsOwned /\ CallsOwned /\ CallsApart
    BY <1>2 DEF UsersKnown, PromptsOwned, CallsOwned, CallsApart
  <1> QED  BY <1>1, <1>5, <1>6 DEF OwnersInv

LEMMA OwnersStep == OwnersInv /\ [Next]_vars => OwnersInv'
  BY RowsStep, IdsBelowStep, UsersKnownStep, PromptsOwnedStep, CallsStep DEF OwnersInv, RowsInv

(* Whatever rows are lost, and however often their ids are given again: a  *)
(* chat session is used by one account, unless a signup was hit, never by  *)
(* anybody if it was made for a delegated call, and each such call has one *)
(* of its own.                                                             *)
THEOREM SessionsStayPrivate == Spec => []SessionsPrivate
  <1>1. OwnersInv => SessionsPrivate
    <2> SUFFICES ASSUME OwnersInv
                 PROVE  SessionsPrivate
      OBVIOUS
    <2>1. /\ db.prompts \subseteq work.prompts /\ db.prompts \subseteq Requests
          /\ HumansDistinct /\ Phases
      BY DEF OwnersInv, RowsInv, Base, TypeOK, TablesOK, WorkExtends, Extends
    <2>2. \A r \in db.prompts :
             /\ ask[r].kind = "run" /\ user[r] # 0 /\ ask[r].session # 0
             /\ db.sessions[ask[r].session] = user[r]
      BY <2>1 DEF OwnersInv, PromptsOwned, Phases
    <2>3. \A r \in db.prompts :
             \/ ask[r].name \in DOMAIN work.humans /\ work.humans[ask[r].name] = user[r]
             \/ HitSignup(ask[r].name)
      BY <2>1, <2>2 DEF OwnersInv, UsersKnown
    <2>4. ASSUME NEW q \in db.prompts, NEW r \in db.prompts, ask[q].session = ask[r].session
          PROVE  ask[q].name = ask[r].name \/ HitSignup(ask[q].name) \/ HitSignup(ask[r].name)
      <3>1. user[q] = user[r]
        BY <2>2, <2>4
      <3> QED  BY <2>1, <2>3, <3>1 DEF HumansDistinct
    <2>5. ASSUME NEW c \in Calls, NEW r \in db.prompts
          PROVE  made[c] # ask[r].session
      <3>1. made[c] # 0 => 2 \in DOMAIN db.agents /\ db.sessions[made[c]] = db.agents[2]
        BY DEF OwnersInv, CallsOwned
      <3>2. 2 \in DOMAIN db.agents => user[r] # db.agents[2]
        BY <2>1 DEF OwnersInv, IdsBelow, Below
      <3> QED  BY <2>2, <3>1, <3>2
    <2> QED  BY <2>4, <2>5 DEF OwnersInv, CallsApart, SessionsPrivate
  <1> QED  BY <1>1, OwnersInit, OwnersStep, PTL DEF Spec
=============================================================================
