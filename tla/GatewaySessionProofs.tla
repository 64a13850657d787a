------------------------- MODULE GatewaySessionProofs -------------------------
(***************************************************************************)
(* Proofs about logins and connections, for any users, session ids,        *)
(* handlers, gateways and connections.  Five facts build on one another:   *)
(* who a session id belongs to (Owners), where a connection and its        *)
(* handler stand (Places), whom the registry names (Named), what keeps an  *)
(* orderly user at one session and his connections in the registry         *)
(* (Turns), and what a login mark is good for (Marked).                    *)
(***************************************************************************)
EXTENDS GatewaySession, FiniteSetTheorems, TLAPS

Asking(l) == login[l].at \in {"exists", "session"}
Granted(l) == login[l].at \in {"status", "answer"}

\* A session id belongs to the user it was made for, from the moment it is stored; no
\* client knows it before its login is answered.
Owners ==
  /\ \A l \in Login : login[l] # Idle => login[l].ssid \in given \ (known \cup stranded)
  /\ \A l \in Login : Asking(l) => owner[login[l].ssid] = None
  /\ \A l \in Login : Granted(l) => owner[login[l].ssid] = login[l].uid
  /\ \A l, k \in Login :
       login[l] # Idle /\ login[k] # Idle /\ login[l].ssid = login[k].ssid => l = k
  /\ \A s \in Ssid : session[s] # None => session[s] = owner[s]
  /\ \A s \in Ssid : owner[s] # None => s \in given

\* A registered connection has not been given up, and shows what it was registered with.
Registered(c) ==
  client[c] # NoClient =>
    /\ home[c] \in Gateway /\ wire[c] \in {"open", "lost"}
    /\ client[c].ssid \in shown[c] /\ owner[client[c].ssid] = client[c].uid

\* A handler works on a connection of its own gateway.
Handled(g) ==
  task[g] # Idle =>
    LET t == task[g] IN
      /\ home[t.conn] = g /\ wire[t.conn] \in {"open", "lost"}
      /\ t.ssid \in shown[t.conn] /\ owner[t.ssid] = t.uid
      /\ t.at # "insert" =>
           wire[t.conn] = "lost" /\ client[t.conn] = [uid |-> t.uid, ssid |-> t.ssid]

Places ==
  /\ \A c \in Conn : wire[c] = "new" => home[c] = None
  /\ \A c \in Conn : IsFiniteSet(shown[c])
  /\ \A c \in Conn : Registered(c)
  /\ \A g \in Gateway : Handled(g)

\* NoReauth(g) without counting.
Single(g) == \A c \in Conn : home[c] = g => \A s, t \in shown[c] : s = t

Names(g, u, c) == client[c] # NoClient /\ client[c].uid = u /\ home[c] = g

\* What the registry of g says of a user is true of the connection.
Named ==
  \A g \in Gateway, u \in User :
    Single(g) /\ uidConn[g][u] # None => Names(g, u, uidConn[g][u])

Closing(c) == \E g \in Gateway : task[g].at \in {"status", "remove"} /\ task[g].conn = c
Unmarking(g, u) == task[g].at = "status" /\ task[g].uid = u
Passed(l, u) == login[l].at = "session" /\ login[l].uid = u
Marking(l, u) == login[l].at = "status" /\ login[l].uid = u

\* A session that counts: not one whose login died before the mark.
Holds(s, u) == s \notin stranded /\ session[s] = u

\* A user holds one of three things at a time: a session, a login past the look at the
\* mark, or a closing that has still to take the mark.
Turn(u) ==
  /\ \A l, k \in Login : login[l] # Idle /\ login[k] # Idle
                           /\ login[l].uid = u /\ login[k].uid = u => l = k
  /\ \A s, t \in Ssid : Holds(s, u) /\ Holds(t, u) => s = t
  /\ \A g, h \in Gateway : Unmarking(g, u) /\ Unmarking(h, u) => g = h
  /\ \A s \in Ssid, l \in Login : ~(Holds(s, u) /\ Passed(l, u))
  /\ \A s \in Ssid, g \in Gateway : ~(Holds(s, u) /\ Unmarking(g, u))
  /\ \A l \in Login, g \in Gateway : ~(Passed(l, u) /\ Unmarking(g, u))
  /\ \A s \in Ssid : Holds(s, u) => u \in status \/ \E l \in Login : Marking(l, u)
  /\ \A g \in Gateway : Unmarking(g, u) => u \in status

\* What his connections were registered with is his session.
Live(u) ==
  /\ \A c \in Conn : client[c] # NoClient /\ client[c].uid = u /\ ~Closing(c) =>
       session[client[c].ssid] = u
  /\ \A g \in Gateway : task[g].at = "insert" /\ task[g].uid = u => session[task[g].ssid] = u

\* A connection the registry names for him has shown his session, also when it had
\* been authenticated for somebody else before.
Leaving(g, u) == task[g].at \in {"status", "remove"} /\ task[g].uid = u
Shows(c, u, g) == \E s \in shown[c] : owner[s] = u /\ (session[s] = u \/ Leaving(g, u))
Backed(u) ==
  \A g \in Gateway : uidConn[g][u] # None =>
    home[uidConn[g][u]] = g /\ Shows(uidConn[g][u], u, g)

\* The registry names the connections that are his.
Reached(u) ==
  \A c \in Conn : client[c] # NoClient /\ client[c].uid = u => uidConn[home[c]][u] = c

Turns == \A u \in User : Orderly(u) => Turn(u) /\ Live(u) /\ Backed(u) /\ Reached(u)

\* Sessions whose login will not need to set the mark any more.
Settled(u) ==
  {s \in SessionsOf(u) : \A l \in Login : login[l].at = "status" => login[l].ssid # s}

\* A session whose login has not been answered is there, and so is the reason of a mark.
MarkSettled ==
  crashes = 0 =>
    \A u \in status : Settled(u) # {} \/ \E g \in Gateway : Unmarking(g, u)
Marked ==
  /\ \A l \in Login : Granted(l) => session[login[l].ssid] = login[l].uid
  /\ MarkSettled

IInv == TypeOK /\ Owners /\ Places /\ Named /\ Turns /\ Marked

-------------------------------------------------------------------------------
(* Handlers                                                                  *)

\* The two kinds of handler, field by field.
LEMMA LoginForm ==
  ASSUME TypeOK, NEW l \in Login
  PROVE  /\ login[l] # Idle =>
              /\ login[l].at \in {"exists", "session", "status", "answer"}
              /\ login[l].uid \in User /\ login[l].ssid \in Ssid
              /\ \A a \in {"exists", "session", "status", "answer"} :
                   [login[l] EXCEPT !.at = a]
                     = [at |-> a, uid |-> login[l].uid, ssid |-> login[l].ssid]
         /\ login[l].at \in {"exists", "session", "status", "answer"} => login[l] # Idle
BY DEF TypeOK, Idle

LEMMA TaskForm ==
  ASSUME TypeOK, NEW g \in Gateway
  PROVE  /\ task[g] # Idle =>
              /\ task[g].at \in {"insert", "status", "remove"}
              /\ task[g].conn \in Conn /\ task[g].uid \in User /\ task[g].ssid \in Ssid
              /\ [task[g] EXCEPT !.at = "remove"]
                   = [at |-> "remove", conn |-> task[g].conn, uid |-> task[g].uid,
                      ssid |-> task[g].ssid]
         /\ task[g].at \in {"insert", "status", "remove"} => task[g] # Idle
         /\ Idle.at \notin {"insert", "status", "remove"}
BY DEF TypeOK, Idle

LEMMA NoneIsNobody == None \notin User /\ None \notin Conn /\ None \notin Gateway
BY GatewayConstants DEF GatewayConstants, None

LEMMA ClientForm ==
  ASSUME TypeOK, NEW c \in Conn, client[c] # NoClient
  PROVE  client[c].uid \in User /\ client[c].ssid \in Ssid
BY DEF TypeOK

LEMMA RealClient ==
  ASSUME NEW u \in User, NEW s \in Ssid
  PROVE  [uid |-> u, ssid |-> s] # NoClient
BY NoneIsNobody DEF NoClient

-------------------------------------------------------------------------------
(* Types and owners                                                          *)

LoginForms == {Idle} \cup
  [at : {"exists", "session", "status", "answer"}, uid : User, ssid : Ssid]

TaskForms == {Idle} \cup
  [at : {"insert", "status", "remove"}, conn : Conn, uid : User, ssid : Ssid]

LEMMA CallTyped ==
  ASSUME TypeOK, Owners, NEW l \in Login, NEW u \in User, Call(l, u)
  PROVE  TypeOK' /\ Owners'
<1>1. PICK s \in Ssid \ given :
        /\ login' = [login EXCEPT ![l] = [at |-> "exists", uid |-> u, ssid |-> s]]
        /\ given' = given \cup {s}
  BY DEF Call
<1>2. /\ login[l] = Idle
      /\ UNCHANGED <<redis, known, wire, home, registry, task, owner, shown, stranded, crashes>>
  BY DEF Call
<1>3. login' \in [Login -> LoginForms]
  BY <1>1 DEF TypeOK, LoginForms
<1>4. /\ given' \subseteq Ssid /\ known' \subseteq given' /\ raced' \subseteq User
      /\ stranded' \subseteq given' \ known'
  BY <1>1, <1>2 DEF TypeOK, Call
<1>5. TypeOK'
  BY <1>2, <1>3, <1>4 DEF TypeOK, LoginForms, redis, registry
<1>6. \A k \in Login : k # l => login'[k] = login[k]
  BY <1>1 DEF TypeOK
<1>7. login'[l] = [at |-> "exists", uid |-> u, ssid |-> s] /\ login'[l].at = "exists"
      /\ login'[l].ssid = s
  BY <1>1 DEF TypeOK
<1>8. s \notin given /\ owner[s] = None /\ s \notin known /\ s \notin stranded
  BY <1>1 DEF Owners, TypeOK
<1>9. Owners'
  <2>1. \A k \in Login : login'[k] # Idle => login'[k].ssid \in given' \ (known' \cup stranded')
    BY <1>1, <1>2, <1>6, <1>7, <1>8 DEF Owners
  <2>2. \A k \in Login : Asking(k)' => owner'[login'[k].ssid] = None
    BY <1>2, <1>6, <1>7, <1>8 DEF Owners, Asking
  <2>3. \A k \in Login : Granted(k)' => owner'[login'[k].ssid] = login'[k].uid
    BY <1>2, <1>6, <1>7 DEF Owners, Granted
  <2>4. \A k, j \in Login :
          login'[k] # Idle /\ login'[j] # Idle /\ login'[k].ssid = login'[j].ssid => k = j
    BY <1>6, <1>7, <1>8 DEF Owners
  <2>5. (\A r \in Ssid : session[r] # None => session[r] = owner[r])'
    BY <1>2 DEF Owners, redis
  <2>6. \A r \in Ssid : owner'[r] # None => r \in given'
    BY <1>1, <1>2 DEF Owners
  <2>7. QED
    BY <2>1, <2>2, <2>3, <2>4, <2>5, <2>6 DEF Owners
<1>10. QED
  BY <1>5, <1>9

LEMMA CheckMarkTyped ==
  ASSUME TypeOK, Owners, NEW l \in Login, CheckMark(l)
  PROVE  TypeOK' /\ Owners'
<1>1. login[l].at = "exists" /\ login[l] # Idle /\ login[l].uid \in User /\ login[l].ssid \in Ssid
      /\ UNCHANGED <<redis, given, known, wire, home, registry, task, history>>
  BY LoginForm DEF CheckMark
<1>2. /\ \A k \in Login : k # l => login'[k] = login[k]
      /\ \/ login'[l] = Idle
         \/ login'[l] = [at |-> "session", uid |-> login[l].uid, ssid |-> login[l].ssid]
      /\ DOMAIN login' = Login /\ login' = [k \in Login |-> login'[k]]
  BY <1>1, LoginForm DEF TypeOK, CheckMark
<1>3. login' \in [Login -> LoginForms]
  <2>1. login'[l] \in LoginForms
    BY <1>1, <1>2 DEF LoginForms
  <2>2. \A k \in Login : k # l => login'[k] \in LoginForms
    BY <1>2 DEF TypeOK, LoginForms
  <2>3. QED
    BY <1>2, <2>1, <2>2
<1>4. TypeOK'
  BY <1>1, <1>3 DEF TypeOK, LoginForms, redis, registry, history
<1>5. Idle.at = "idle"
  BY DEF Idle
<1>6. \A k \in Login :
        /\ login'[k] # Idle =>
             login[k] # Idle /\ login'[k].ssid = login[k].ssid /\ login'[k].uid = login[k].uid
        /\ Asking(k)' => Asking(k) /\ login'[k] # Idle
        /\ Granted(k)' => Granted(k) /\ login'[k] # Idle
  BY <1>1, <1>2, <1>5 DEF Asking, Granted
<1>7. UNCHANGED <<given, known, session, owner, stranded>>
  BY <1>1 DEF redis, history
<1>8. Owners'
  BY <1>6, <1>7 DEF Owners
<1>9. QED
  BY <1>4, <1>8

LEMMA AppendSessionTyped ==
  ASSUME TypeOK, Owners, NEW l \in Login, AppendSession(l)
  PROVE  TypeOK' /\ Owners'
<1> DEFINE u == login[l].uid
           s == login[l].ssid
<1>1. login[l].at = "session" /\ login[l] # Idle /\ u \in User /\ s \in Ssid
      /\ UNCHANGED <<status, given, known, wire, home, registry, task, shown, raced, stranded, crashes>>
  BY LoginForm DEF AppendSession
<1>2. /\ \A k \in Login : k # l => login'[k] = login[k]
      /\ login'[l] = [at |-> "status", uid |-> u, ssid |-> s]
      /\ login' = [k \in Login |-> login'[k]]
  BY <1>1, LoginForm DEF TypeOK, AppendSession
<1>3. login' \in [Login -> LoginForms]
  <2>1. login'[l] \in LoginForms
    BY <1>1, <1>2 DEF LoginForms
  <2>2. \A k \in Login : k # l => login'[k] \in LoginForms
    BY <1>2 DEF TypeOK, LoginForms
  <2>3. QED
    BY <1>2, <2>1, <2>2
<1>4. /\ session' = [session EXCEPT ![s] = u]
      /\ owner' = [owner EXCEPT ![s] = u]
  BY DEF AppendSession
<1>5. session' \in [Ssid -> User \cup {None}] /\ owner' \in [Ssid -> User \cup {None}]
  BY <1>1, <1>4 DEF TypeOK
<1>6. /\ \A r \in Ssid : r # s => session'[r] = session[r] /\ owner'[r] = owner[r]
      /\ session'[s] = u /\ owner'[s] = u
      /\ s \in given /\ s \notin known
      /\ owner[s] = None
  BY <1>1, <1>4 DEF TypeOK, Owners, Asking
<1>7. \A r \in known' : owner'[r] # None
  BY <1>1, <1>6 DEF TypeOK
<1>8. TypeOK'
  BY <1>1, <1>3, <1>5, <1>7 DEF TypeOK, LoginForms, registry
<1>9. \A k \in Login : k # l /\ login[k] # Idle => login[k].ssid # s /\ login[k].ssid \in Ssid
  BY <1>1, LoginForm DEF Owners
<1>10. \A k \in Login : (Asking(k) \/ Granted(k)) => login[k] # Idle
  BY LoginForm DEF Asking, Granted
<1>11. Owners'
  <2>1. \A k \in Login : login'[k] # Idle => login'[k].ssid \in given' \ (known' \cup stranded')
    BY <1>1, <1>2, <1>6 DEF Owners
  <2>2. \A k \in Login : Asking(k)' => owner'[login'[k].ssid] = None
    BY <1>2, <1>6, <1>9, <1>10 DEF Owners, Asking
  <2>3. \A k \in Login : Granted(k)' => owner'[login'[k].ssid] = login'[k].uid
    BY <1>2, <1>6, <1>9, <1>10 DEF Owners, Granted
  <2>4. \A k, j \in Login :
          login'[k] # Idle /\ login'[j] # Idle /\ login'[k].ssid = login'[j].ssid => k = j
    BY <1>1, <1>2 DEF Owners
  <2>5. \A r \in Ssid : session'[r] # None => session'[r] = owner'[r]
    BY <1>6 DEF Owners
  <2>6. \A r \in Ssid : owner'[r] # None => r \in given'
    BY <1>1, <1>6 DEF Owners
  <2>7. QED
    BY <2>1, <2>2, <2>3, <2>4, <2>5, <2>6 DEF Owners
<1>12. QED
  BY <1>8, <1>11

LEMMA AppendStatusTyped ==
  ASSUME TypeOK, Owners, NEW l \in Login, AppendStatus(l)
  PROVE  TypeOK' /\ Owners'
<1>1. login[l].at = "status" /\ login[l] # Idle /\ login[l].uid \in User /\ login[l].ssid \in Ssid
      /\ UNCHANGED <<session, given, known, wire, home, registry, task, history>>
  BY LoginForm DEF AppendStatus
<1>2. /\ \A k \in Login : k # l => login'[k] = login[k]
      /\ login'[l] = [at |-> "answer", uid |-> login[l].uid, ssid |-> login[l].ssid]
      /\ login' = [k \in Login |-> login'[k]]
  BY <1>1, LoginForm DEF TypeOK, AppendStatus
<1>3. login' \in [Login -> LoginForms]
  <2>1. login'[l] \in LoginForms
    BY <1>1, <1>2 DEF LoginForms
  <2>2. \A k \in Login : k # l => login'[k] \in LoginForms
    BY <1>2 DEF TypeOK, LoginForms
  <2>3. QED
    BY <1>2, <2>1, <2>2
<1>4. status' \subseteq User
  BY <1>1, LoginForm DEF TypeOK, AppendStatus
<1>5. TypeOK'
  BY <1>1, <1>3, <1>4 DEF TypeOK, LoginForms, registry, history
<1>6. \A k \in Login :
        /\ login'[k] # Idle =>
             login[k] # Idle /\ login'[k].ssid = login[k].ssid /\ login'[k].uid = login[k].uid
        /\ Asking(k)' => Asking(k)
        /\ Granted(k)' => Granted(k) /\ login'[k].ssid = login[k].ssid
                            /\ login'[k].uid = login[k].uid
  BY <1>1, <1>2 DEF Asking, Granted
<1>7. UNCHANGED <<given, known, session, owner, stranded>>
  BY <1>1 DEF history
<1>8. \A k \in Login : Asking(k)' => login'[k].ssid = login[k].ssid
  BY <1>2 DEF Asking
<1>9. Owners'
  BY <1>6, <1>7, <1>8 DEF Owners
<1>10. QED
  BY <1>5, <1>9

LEMMA AnswerLoginTyped ==
  ASSUME TypeOK, Owners, NEW l \in Login, AnswerLogin(l)
  PROVE  TypeOK' /\ Owners'
<1> DEFINE s == login[l].ssid
<1>1. login[l].at = "answer" /\ login[l] # Idle /\ s \in Ssid /\ login[l].uid \in User
      /\ UNCHANGED <<redis, given, wire, home, registry, task, history>>
  BY LoginForm DEF AnswerLogin
<1>2. /\ \A k \in Login : k # l => login'[k] = login[k]
      /\ login'[l] = Idle
      /\ login' = [k \in Login |-> login'[k]]
  BY DEF TypeOK, AnswerLogin
<1>3. login' \in [Login -> LoginForms]
  BY <1>2 DEF TypeOK, LoginForms
<1>4. s \in given /\ owner[s] = login[l].uid /\ owner[s] # None /\ known' = known \cup {s}
      /\ s \notin stranded
  BY <1>1, NoneIsNobody DEF Owners, Granted, AnswerLogin
<1>5. known' \subseteq given' /\ (\A r \in known' : owner'[r] # None)
      /\ stranded' \subseteq given' \ known'
  BY <1>1, <1>4 DEF TypeOK, history
<1>6. shown' \in [Conn -> SUBSET known']
  BY <1>1, <1>4 DEF TypeOK, history
<1>7. TypeOK'
  BY <1>1, <1>3, <1>5, <1>6 DEF TypeOK, LoginForms, redis, registry, history
<1>8. Idle.at = "idle"
  BY DEF Idle
<1>9. UNCHANGED <<given, session, owner, stranded>>
  BY <1>1 DEF history, redis
<1>10. \A k \in Login :
         /\ login'[k] # Idle => login[k] # Idle /\ login'[k] = login[k] /\ k # l
         /\ (Asking(k)' => Asking(k) /\ login'[k] = login[k])
         /\ (Granted(k)' => Granted(k) /\ login'[k] = login[k])
  BY <1>2, <1>8 DEF Asking, Granted
<1>11. Owners'
  BY <1>1, <1>4, <1>9, <1>10 DEF Owners
<1>12. QED
  BY <1>7, <1>11

LEMMA LoginDiesTyped ==
  ASSUME TypeOK, Owners, NEW l \in Login, LoginDies(l)
  PROVE  TypeOK' /\ Owners'
<1> DEFINE s == login[l].ssid
<1>1. login[l] # Idle /\ s \in given \ (known \cup stranded)
      /\ UNCHANGED <<redis, given, known, wire, home, registry, task, owner, shown, raced, crashes>>
  BY DEF LoginDies, Owners
<1>2. /\ \A k \in Login : k # l => login'[k] = login[k]
      /\ login'[l] = Idle
      /\ login' = [k \in Login |-> login'[k]]
  BY DEF TypeOK, LoginDies
<1>3. login' \in [Login -> LoginForms]
  BY <1>2 DEF TypeOK, LoginForms
<1>4. stranded' \subseteq stranded \cup {s}
  BY DEF LoginDies
<1>5. stranded' \subseteq given' \ known'
  BY <1>1, <1>4 DEF TypeOK
<1>6. TypeOK'
  BY <1>1, <1>3, <1>5 DEF TypeOK, LoginForms, redis, registry
<1>7. Idle.at = "idle"
  BY DEF Idle
<1>8. UNCHANGED <<session>>
  BY <1>1 DEF redis
<1>9. \A k \in Login :
        /\ login'[k] # Idle => login[k] # Idle /\ login'[k] = login[k] /\ k # l
        /\ (Asking(k)' => Asking(k) /\ login'[k] = login[k])
        /\ (Granted(k)' => Granted(k) /\ login'[k] = login[k])
  BY <1>2, <1>7 DEF Asking, Granted
<1>10. \A k \in Login : login'[k] # Idle => login'[k].ssid \in given' \ (known' \cup stranded')
  BY <1>1, <1>4, <1>9 DEF Owners
<1>11. Owners'
  BY <1>1, <1>8, <1>9, <1>10 DEF Owners
<1>12. QED
  BY <1>6, <1>11

\* The steps of clients and gateways leave the logins alone.
LEMMA OwnersElsewhere ==
  ASSUME Owners, UNCHANGED <<login, given, known, owner, stranded>>,
         \A s \in Ssid : session'[s] = session[s] \/ session'[s] = None
  PROVE  Owners'
BY DEF Owners, Asking, Granted

LEMMA NetworkTyped ==
  ASSUME TypeOK, Owners, NEW c \in Conn,
         Lose(c) \/ \E g \in Gateway : Open(c, g)
  PROVE  TypeOK' /\ Owners'
<1>1. UNCHANGED <<redis, login, given, known, registry, task, history>>
  BY DEF Lose, Open
<1>2. wire' \in [Conn -> {"new", "open", "lost", "gone"}] /\ home' \in [Conn -> Gateway \cup {None}]
  BY DEF Lose, Open, TypeOK
<1>3. TypeOK'
  BY <1>1, <1>2 DEF TypeOK, redis, registry, history
<1>4. QED
  BY <1>1, <1>3, OwnersElsewhere DEF redis, history

LEMMA OnMessageTyped ==
  ASSUME TypeOK, Owners, NEW g \in Gateway, NEW c \in Conn, NEW s \in Ssid, OnMessage(g, c, s)
  PROVE  TypeOK' /\ Owners'
<1>1. UNCHANGED <<redis, login, given, known, home, registry, owner, raced, stranded, crashes>>
      /\ s \in known
  BY DEF OnMessage
<1>2. wire' \in [Conn -> {"new", "open", "lost", "gone"}]
  BY DEF OnMessage, TypeOK
<1>3. task' \in [Gateway -> TaskForms] /\ shown' \in [Conn -> SUBSET known]
  <2>1. CASE session[s] = None
    BY <2>1 DEF OnMessage, TypeOK, TaskForms
  <2>2. CASE session[s] # None
    <3>1. session[s] \in User
      BY <2>2 DEF TypeOK
    <3>2. [at |-> "insert", conn |-> c, uid |-> session[s], ssid |-> s] \in TaskForms
      BY <3>1 DEF TaskForms
    <3>3. task' \in [Gateway -> TaskForms]
      BY <2>2, <3>2 DEF OnMessage, Accept, TypeOK, TaskForms
    <3>4. shown' \in [Conn -> SUBSET known]
      BY <1>1, <2>2 DEF OnMessage, Accept, TypeOK
    <3>5. QED
      BY <3>3, <3>4
  <2>3. QED
    BY <2>1, <2>2
<1>4. TypeOK'
  BY <1>1, <1>2, <1>3 DEF TypeOK, TaskForms, redis, registry
<1>5. QED
  BY <1>1, <1>4, OwnersElsewhere DEF redis

LEMMA InsertTyped ==
  ASSUME TypeOK, Owners, NEW g \in Gateway, Insert(g)
  PROVE  TypeOK' /\ Owners'
<1>1. UNCHANGED <<redis, login, given, known, wire, home, history>>
  BY DEF Insert
<1>2. task[g].conn \in Conn /\ task[g].uid \in User /\ task[g].ssid \in Ssid
  BY TaskForm DEF Insert
<1>3. task' \in [Gateway -> TaskForms]
  BY DEF Insert, TypeOK, TaskForms
<1>4. uidConn' \in [Gateway -> [User -> Conn \cup {None}]]
  BY <1>2 DEF Insert, TypeOK
<1>5. client' \in [Conn -> {NoClient} \cup [uid : User, ssid : Ssid]]
  BY <1>2 DEF Insert, TypeOK
<1>6. TypeOK'
  BY <1>1, <1>3, <1>4, <1>5 DEF TypeOK, TaskForms, redis, history
<1>7. QED
  BY <1>1, <1>6, OwnersElsewhere DEF redis, history

LEMMA OnCloseTyped ==
  ASSUME TypeOK, Owners, NEW g \in Gateway, NEW c \in Conn, OnClose(g, c)
  PROVE  TypeOK' /\ Owners'
<1>1. UNCHANGED <<status, login, given, known, home, registry, history>>
  BY DEF OnClose
<1>2. wire' \in [Conn -> {"new", "open", "lost", "gone"}]
  BY DEF OnClose, TypeOK
<1>3. session' \in [Ssid -> User \cup {None}] /\ task' \in [Gateway -> TaskForms]
      /\ \A s \in Ssid : session'[s] = session[s] \/ session'[s] = None
  <2>1. CASE client[c] = NoClient
    BY <2>1 DEF OnClose, TypeOK, TaskForms
  <2>2. CASE client[c] # NoClient
    <3>1. [at |-> "status", conn |-> c, uid |-> client[c].uid, ssid |-> client[c].ssid] \in TaskForms
      BY <2>2, ClientForm DEF TaskForms
    <3>2. task' \in [Gateway -> TaskForms]
      BY <2>2, <3>1 DEF OnClose, TypeOK, TaskForms
    <3>3. QED
      BY <2>2, <3>2, ClientForm DEF OnClose, TypeOK
  <2>3. QED
    BY <2>1, <2>2
<1>4. TypeOK'
  BY <1>1, <1>2, <1>3 DEF TypeOK, TaskForms, registry, history
<1>5. QED
  BY <1>1, <1>3, <1>4, OwnersElsewhere DEF history

LEMMA RemoveStatusTyped ==
  ASSUME TypeOK, Owners, NEW g \in Gateway, RemoveStatus(g)
  PROVE  TypeOK' /\ Owners'
<1>1. UNCHANGED <<session, login, given, known, wire, home, registry, history>>
  BY DEF RemoveStatus
<1>2. [task[g] EXCEPT !.at = "remove"] \in TaskForms
  BY TaskForm DEF RemoveStatus, TaskForms
<1>3. task' \in [Gateway -> TaskForms] /\ status' \subseteq User
  BY <1>2 DEF RemoveStatus, TypeOK, TaskForms
<1>4. TypeOK'
  BY <1>1, <1>3 DEF TypeOK, TaskForms, registry, history
<1>5. QED
  BY <1>1, <1>4, OwnersElsewhere DEF history

LEMMA RemoveTyped ==
  ASSUME TypeOK, Owners, NEW g \in Gateway, Remove(g)
  PROVE  TypeOK' /\ Owners'
<1>1. UNCHANGED <<redis, login, given, known, home, history>>
  BY DEF Remove
<1>2. task' \in [Gateway -> TaskForms]
  BY DEF Remove, TypeOK, TaskForms
<1>3. /\ uidConn' \in [Gateway -> [User -> Conn \cup {None}]]
      /\ client' \in [Conn -> {NoClient} \cup [uid : User, ssid : Ssid]]
      /\ wire' \in [Conn -> {"new", "open", "lost", "gone"}]
  BY DEF Remove, TypeOK
<1>4. TypeOK'
  BY <1>1, <1>2, <1>3 DEF TypeOK, TaskForms, redis, history
<1>5. QED
  BY <1>1, <1>4, OwnersElsewhere DEF redis, history

LEMMA CrashTyped ==
  ASSUME TypeOK, Owners, NEW g \in Gateway, Crash(g)
  PROVE  TypeOK' /\ Owners'
<1>1. UNCHANGED <<redis, login, given, known, home, owner, shown, raced, stranded>>
  BY DEF Crash
<1>2. task' \in [Gateway -> TaskForms] /\ crashes' \in 0 .. MaxCrash
  BY GatewayConstants DEF Crash, TypeOK, TaskForms, GatewayConstants
<1>3. /\ uidConn' \in [Gateway -> [User -> Conn \cup {None}]]
      /\ client' \in [Conn -> {NoClient} \cup [uid : User, ssid : Ssid]]
      /\ wire' \in [Conn -> {"new", "open", "lost", "gone"}]
  BY DEF Crash, TypeOK
<1>4. TypeOK'
  BY <1>1, <1>2, <1>3 DEF TypeOK, TaskForms, redis
<1>5. QED
  BY <1>1, <1>4, OwnersElsewhere DEF redis

-------------------------------------------------------------------------------
(* Places                                                                    *)

\* A connection's handler is its own gateway's.
LEMMA OneHandler ==
  ASSUME TypeOK, Places, NEW g \in Gateway, NEW h \in Gateway,
         task[g] # Idle, task[h] # Idle, task[g].conn = task[h].conn
  PROVE  g = h
<1>1. home[task[g].conn] = g /\ home[task[h].conn] = h
  BY DEF Places, Handled
<1>2. QED
  BY <1>1

\* What a handler relies on changes only by steps of its gateway.
LEMMA HandledKept ==
  ASSUME TypeOK, Places, NEW h \in Gateway,
         task'[h] = task[h],
         \A d \in Conn : home[d] = h =>
           /\ home'[d] = h
           /\ wire[d] \in {"open", "lost"} => wire'[d] = wire[d] \/ wire'[d] = "lost"
           /\ shown[d] \subseteq shown'[d]
           /\ \A s \in shown[d] : owner'[s] = owner[s]
           /\ client'[d] = client[d]
  PROVE  Handled(h)'
<1> SUFFICES ASSUME task[h] # Idle
             PROVE  Handled(h)'
  BY DEF Handled
<1> DEFINE t == task[h]
<1>1. t.conn \in Conn /\ Handled(h)
  BY TaskForm DEF Places
<1>2. /\ home[t.conn] = h /\ wire[t.conn] \in {"open", "lost"}
      /\ t.ssid \in shown[t.conn] /\ owner[t.ssid] = t.uid
      /\ t.at # "insert" =>
           wire[t.conn] = "lost" /\ client[t.conn] = [uid |-> t.uid, ssid |-> t.ssid]
  BY <1>1 DEF Handled
<1>3. /\ home'[t.conn] = h /\ wire'[t.conn] \in {"open", "lost"}
      /\ t.ssid \in shown'[t.conn] /\ owner'[t.ssid] = t.uid
      /\ t.at # "insert" =>
           wire'[t.conn] = "lost" /\ client'[t.conn] = [uid |-> t.uid, ssid |-> t.ssid]
  BY <1>1, <1>2
<1>4. QED
  BY <1>3 DEF Handled

\* The owner of a session id a client has shown is settled.
LEMMA OwnersKept ==
  ASSUME TypeOK, Owners, NEW l \in Login, AppendSession(l)
  PROVE  \A c \in Conn : \A s \in shown[c] :
           owner'[s] = owner[s] /\ s # login[l].ssid /\ s \in Ssid
<1>1. login[l] # Idle
  BY LoginForm DEF AppendSession
<1>2. login[l].ssid \notin known /\ login[l].ssid \in Ssid
  BY <1>1, LoginForm DEF Owners
<1>3. \A c \in Conn : shown[c] \subseteq known /\ known \subseteq Ssid
  BY DEF TypeOK
<1>4. QED
  BY <1>2, <1>3 DEF AppendSession, TypeOK

LEMMA LoginPlaced ==
  ASSUME TypeOK, Owners, Places, NEW l \in Login,
         LoginStep(l) \/ LoginDies(l) \/ \E u \in User : Call(l, u)
  PROVE  Places'
<1>1. UNCHANGED <<wire, home, registry, task, shown>>
  BY DEF LoginStep, CheckMark, AppendSession, AppendStatus, AnswerLogin, LoginDies, Call, history
<1>2. \A c \in Conn : \A s \in shown[c] : owner'[s] = owner[s]
  BY OwnersKept DEF LoginStep, CheckMark, AppendStatus, AnswerLogin, LoginDies, Call, history
<1>3. \A c \in Conn : Registered(c)'
  BY <1>1, <1>2 DEF Places, Registered, registry
<1>4. ASSUME NEW g \in Gateway PROVE Handled(g)'
  BY <1>1, <1>2, HandledKept DEF registry
<1>5. QED
  BY <1>1, <1>3, <1>4 DEF Places

LEMMA NetworkPlaced ==
  ASSUME TypeOK, Places, NEW c \in Conn, Lose(c) \/ \E g \in Gateway : Open(c, g)
  PROVE  Places'
<1>1. UNCHANGED <<registry, task, history>>
  BY DEF Lose, Open
<1>2. /\ \A d \in Conn : d # c => wire'[d] = wire[d] /\ home'[d] = home[d]
      /\ \/ wire[c] = "new" /\ wire'[c] = "open"
         \/ wire[c] = "open" /\ wire'[c] = "lost" /\ home'[c] = home[c]
  BY DEF TypeOK, Lose, Open
<1>3. \A d \in Conn : Registered(d)'
  BY <1>1, <1>2 DEF Places, Registered, registry, history
<1>4. ASSUME NEW g \in Gateway PROVE Handled(g)'
  <2>1. \A d \in Conn : home[d] = g =>
          home'[d] = g /\ (wire[d] \in {"open", "lost"} => wire'[d] = wire[d] \/ wire'[d] = "lost")
    BY <1>2, NoneIsNobody DEF Places
  <2>2. QED
    BY <1>1, <2>1, HandledKept DEF registry, history
<1>5. QED
  BY <1>1, <1>2, <1>3, <1>4 DEF Places, history

LEMMA OnMessagePlaced ==
  ASSUME TypeOK, Owners, Places, NEW g \in Gateway, NEW c \in Conn, NEW s \in Ssid,
         OnMessage(g, c, s)
  PROVE  Places'
<1>1. UNCHANGED <<home, registry, owner>> /\ task[g] = Idle /\ home[c] = g
      /\ wire[c] \in {"open", "lost"}
  BY DEF OnMessage
<1>2. CASE session[s] = None
  <2>1. UNCHANGED <<task, shown>>
    BY <1>2 DEF OnMessage
  <2>2. \A d \in Conn : wire'[d] = wire[d] \/ (d = c /\ wire'[d] = "lost")
    BY <1>2 DEF OnMessage, TypeOK
  <2>3. \A d \in Conn : Registered(d)'
    BY <1>1, <2>1, <2>2 DEF Places, Registered, registry
  <2>4. ASSUME NEW h \in Gateway PROVE Handled(h)'
    BY <1>1, <2>1, <2>2, HandledKept DEF registry
  <2>5. QED
    BY <1>1, <2>1, <2>2, <2>3, <2>4 DEF Places
<1>3. CASE session[s] # None
  <2>1. UNCHANGED wire
    BY <1>3 DEF OnMessage
  <2>2. \A d \in Conn : shown'[d] = IF d = c THEN shown[c] \cup {s} ELSE shown[d]
    BY <1>3 DEF OnMessage, Accept, TypeOK
  <2>3. \A h \in Gateway : task'[h] =
          IF h = g THEN [at |-> "insert", conn |-> c, uid |-> session[s], ssid |-> s] ELSE task[h]
    BY <1>3 DEF OnMessage, Accept, TypeOK
  <2>4. \A d \in Conn : IsFiniteSet(shown'[d])
    BY <2>2, FS_AddElement DEF Places
  <2>5. \A d \in Conn : Registered(d)'
    BY <1>1, <2>1, <2>2 DEF Places, Registered, registry
  <2>6. ASSUME NEW h \in Gateway PROVE Handled(h)'
    <3>1. CASE h = g
      <4>1. owner[s] = session[s] /\ s \in shown'[c]
        BY <1>3, <2>2 DEF Owners
      <4>2. QED
        BY <1>1, <2>1, <2>3, <3>1, <4>1 DEF Handled
    <3>2. CASE h # g
      BY <1>1, <2>1, <2>2, <2>3, <3>2, HandledKept DEF registry
    <3>3. QED
      BY <3>1, <3>2
  <2>7. QED
    BY <1>1, <2>1, <2>4, <2>5, <2>6 DEF Places
<1>4. QED
  BY <1>2, <1>3

LEMMA InsertPlaced ==
  ASSUME TypeOK, Places, NEW g \in Gateway, Insert(g)
  PROVE  Places'
<1> DEFINE t == task[g]
<1>1. t # Idle /\ t.conn \in Conn /\ t.uid \in User /\ t.ssid \in Ssid
      /\ UNCHANGED <<wire, home, history>>
  BY TaskForm DEF Insert
<1>2. \A d \in Conn : client'[d] =
        IF d = t.conn /\ client[d] = NoClient THEN [uid |-> t.uid, ssid |-> t.ssid] ELSE client[d]
  BY DEF Insert, TypeOK
<1>3. \A h \in Gateway : task'[h] = IF h = g THEN Idle ELSE task[h]
  BY DEF Insert, TypeOK
<1>4. home[t.conn] = g /\ wire[t.conn] \in {"open", "lost"}
      /\ t.ssid \in shown[t.conn] /\ owner[t.ssid] = t.uid
  BY <1>1 DEF Places, Handled
<1>5. ASSUME NEW d \in Conn PROVE Registered(d)'
  <2>1. CASE d = t.conn /\ client[d] = NoClient
    BY <1>1, <1>2, <1>4, <2>1 DEF Registered, history
  <2>2. CASE ~(d = t.conn /\ client[d] = NoClient)
    BY <1>1, <1>2, <2>2 DEF Places, Registered, history
  <2>3. QED
    BY <2>1, <2>2
<1>6. ASSUME NEW h \in Gateway PROVE Handled(h)'
  <2>1. CASE h = g
    BY <1>3, <2>1 DEF Handled
  <2>2. CASE h # g
    BY <1>1, <1>2, <1>3, <1>4, <2>2, HandledKept DEF history
  <2>3. QED
    BY <2>1, <2>2
<1>7. QED
  BY <1>1, <1>5, <1>6 DEF Places, history

LEMMA OnClosePlaced ==
  ASSUME TypeOK, Places, NEW g \in Gateway, NEW c \in Conn, OnClose(g, c)
  PROVE  Places'
<1>1. UNCHANGED <<home, registry, history>> /\ task[g] = Idle /\ wire[c] = "lost" /\ home[c] = g
  BY DEF OnClose
<1>2. CASE client[c] = NoClient
  <2>1. UNCHANGED task
    BY <1>2 DEF OnClose
  <2>2. \A d \in Conn : wire'[d] = IF d = c THEN "gone" ELSE wire[d]
    BY <1>2 DEF OnClose, TypeOK
  <2>3. \A d \in Conn : Registered(d)'
    BY <1>1, <1>2, <2>2 DEF Places, Registered, registry, history
  <2>4. ASSUME NEW h \in Gateway PROVE Handled(h)'
    <3>1. CASE h = g
      BY <1>1, <2>1, <3>1 DEF Handled
    <3>2. CASE h # g
      BY <1>1, <2>1, <2>2, <3>2, HandledKept DEF registry, history
    <3>3. QED
      BY <3>1, <3>2
  <2>5. QED
    BY <1>1, <2>2, <2>3, <2>4 DEF Places, history
<1>3. CASE client[c] # NoClient
  <2>1. UNCHANGED wire
    BY <1>3 DEF OnClose
  <2>2. \A h \in Gateway : task'[h] =
          IF h = g THEN [at |-> "status", conn |-> c,
                         uid |-> client[c].uid, ssid |-> client[c].ssid] ELSE task[h]
    BY <1>3 DEF OnClose, TypeOK
  <2>3. \A d \in Conn : Registered(d)'
    BY <1>1, <2>1 DEF Places, Registered, registry, history
  <2>4. ASSUME NEW h \in Gateway PROVE Handled(h)'
    <3>1. CASE h = g
      <4>1. client[c].ssid \in shown[c] /\ owner[client[c].ssid] = client[c].uid
        BY <1>3 DEF Places, Registered
      <4>2. client[c] = [uid |-> client[c].uid, ssid |-> client[c].ssid]
        BY <1>3 DEF TypeOK
      <4>3. QED
        BY <1>1, <2>1, <2>2, <3>1, <4>1, <4>2 DEF Handled, registry, history
    <3>2. CASE h # g
      BY <1>1, <2>1, <2>2, <3>2, HandledKept DEF registry, history
    <3>3. QED
      BY <3>1, <3>2
  <2>5. QED
    BY <1>1, <2>1, <2>3, <2>4 DEF Places, history
<1>4. QED
  BY <1>2, <1>3

LEMMA RemoveStatusPlaced ==
  ASSUME TypeOK, Places, NEW g \in Gateway, RemoveStatus(g)
  PROVE  Places'
<1>1. UNCHANGED <<wire, home, registry, history>> /\ task[g].at = "status" /\ task[g] # Idle
  BY TaskForm DEF RemoveStatus
<1>2. \A h \in Gateway : task'[h] =
        IF h = g THEN [at |-> "remove", conn |-> task[g].conn, uid |-> task[g].uid,
                       ssid |-> task[g].ssid] ELSE task[h]
  BY <1>1, TaskForm DEF RemoveStatus, TypeOK
<1>3. \A d \in Conn : Registered(d)'
  BY <1>1 DEF Places, Registered, registry, history
<1>4. ASSUME NEW h \in Gateway PROVE Handled(h)'
  <2>1. Handled(h)
    BY DEF Places
  <2>2. QED
    BY <1>1, <1>2, <2>1 DEF Handled, registry, history
<1>5. QED
  BY <1>1, <1>3, <1>4 DEF Places, history

LEMMA RemovePlaced ==
  ASSUME TypeOK, Places, NEW g \in Gateway, Remove(g)
  PROVE  Places'
<1> DEFINE t == task[g]
<1>1. t # Idle /\ t.conn \in Conn /\ UNCHANGED <<home, history>>
  BY TaskForm DEF Remove
<1>2. \A d \in Conn : /\ client'[d] = IF d = t.conn THEN NoClient ELSE client[d]
                      /\ wire'[d] = IF d = t.conn THEN "gone" ELSE wire[d]
  BY DEF Remove, TypeOK
<1>3. \A h \in Gateway : task'[h] = IF h = g THEN Idle ELSE task[h]
  BY DEF Remove, TypeOK
<1>4. \A d \in Conn : Registered(d)'
  BY <1>1, <1>2 DEF Places, Registered, history
<1>5. ASSUME NEW h \in Gateway, h # g PROVE Handled(h)'
  <2>1. home[t.conn] = g
    BY <1>1 DEF Places, Handled
  <2>2. QED
    BY <1>1, <1>2, <1>3, <1>5, <2>1, HandledKept DEF history
<1>6. Handled(g)'
  BY <1>3 DEF Handled
<1>7. QED
  BY <1>1, <1>2, <1>4, <1>5, <1>6 DEF Places, history

LEMMA CrashPlaced ==
  ASSUME TypeOK, Places, NEW g \in Gateway, Crash(g)
  PROVE  Places'
<1>1. UNCHANGED <<home, owner, shown>>
  BY DEF Crash
<1>2. \A d \in Conn : /\ client'[d] = IF home[d] = g THEN NoClient ELSE client[d]
                      /\ wire'[d] = IF home[d] = g THEN "gone" ELSE wire[d]
  BY DEF Crash, TypeOK
<1>3. \A h \in Gateway : task'[h] = IF h = g THEN Idle ELSE task[h]
  BY DEF Crash, TypeOK
<1>4. \A d \in Conn : Registered(d)'
  BY <1>1, <1>2 DEF Places, Registered
<1>5. ASSUME NEW h \in Gateway PROVE Handled(h)'
  <2>1. CASE h = g
    BY <1>3, <2>1 DEF Handled
  <2>2. CASE h # g
    BY <1>1, <1>2, <1>3, <2>2, HandledKept
  <2>3. QED
    BY <2>1, <2>2
<1>6. QED
  BY <1>1, <1>2, <1>4, <1>5 DEF Places

-------------------------------------------------------------------------------
(* What only grows                                                           *)

\* Connections stay where they are, and the sessions they have shown, with the users
\* those belong to, stay on record.
Grows ==
  /\ raced \subseteq raced'
  /\ \A c \in Conn :
       /\ home[c] \in Gateway => home'[c] = home[c]
       /\ shown[c] \subseteq shown'[c]
       /\ \A s \in shown[c] : owner'[s] = owner[s]

LEMMA StepGrows ==
  ASSUME TypeOK, Owners, Places, Next
  PROVE  Grows
<1>1. ASSUME NEW l \in Login, LoginStep(l) \/ LoginDies(l) \/ \E u \in User : Call(l, u)
      PROVE  Grows
  <2>1. UNCHANGED <<home, shown>> /\ raced \subseteq raced'
    BY <1>1 DEF LoginStep, CheckMark, AppendSession, AppendStatus, AnswerLogin, LoginDies, Call, history
  <2>2. \A c \in Conn : \A s \in shown[c] : owner'[s] = owner[s]
    BY <1>1, OwnersKept DEF LoginStep, CheckMark, AppendStatus, AnswerLogin, LoginDies, Call, history
  <2>3. QED
    BY <2>1, <2>2 DEF Grows
<1>2. ASSUME NEW c \in Conn, Lose(c) PROVE Grows
  BY <1>2 DEF Lose, Grows, history
<1>3. ASSUME NEW g \in Gateway, NEW c \in Conn, Open(c, g) PROVE Grows
  <2>1. \A d \in Conn : home[d] \in Gateway => home'[d] = home[d]
    BY <1>3, NoneIsNobody DEF Open, Places, TypeOK
  <2>2. QED
    BY <1>3, <2>1 DEF Open, Grows, history
<1>4. ASSUME NEW g \in Gateway, NEW c \in Conn, OnClose(g, c) PROVE Grows
  BY <1>4 DEF OnClose, Grows, history
<1>5. ASSUME NEW g \in Gateway, NEW c \in Conn, NEW s \in Ssid, OnMessage(g, c, s) PROVE Grows
  <2>1. \A d \in Conn : shown[d] \subseteq shown'[d]
    BY <1>5 DEF OnMessage, Accept, TypeOK
  <2>2. QED
    BY <1>5, <2>1 DEF OnMessage, Grows
<1>6. ASSUME NEW g \in Gateway, Insert(g) \/ RemoveStatus(g) \/ Remove(g) \/ Crash(g) PROVE Grows
  BY <1>6 DEF Insert, RemoveStatus, Remove, Crash, Grows, history
<1>7. QED
  BY <1>1, <1>2, <1>3, <1>4, <1>5, <1>6 DEF Next

\* So whoever is orderly now has always been.
LEMMA WasSingle ==
  ASSUME Grows, NEW g \in Gateway, Single(g)'
  PROVE  Single(g)
BY DEF Grows, Single

LEMMA WasOrderly ==
  ASSUME Grows, NEW u \in User, Orderly(u)'
  PROVE  Orderly(u)
BY DEF Grows, Orderly

-------------------------------------------------------------------------------
(* Named                                                                     *)

LEMMA NamedKept ==
  ASSUME TypeOK, Named, Grows, UNCHANGED registry
  PROVE  Named'
<1> SUFFICES ASSUME NEW g \in Gateway, NEW u \in User, Single(g)', uidConn'[g][u] # None
             PROVE  Names(g, u, uidConn[g][u])'
  BY DEF Named
<1>1. Single(g) /\ uidConn'[g][u] = uidConn[g][u] /\ uidConn[g][u] \in Conn
  BY WasSingle DEF TypeOK, registry
<1>2. Names(g, u, uidConn[g][u])
  BY <1>1 DEF Named
<1>3. QED
  BY <1>1, <1>2 DEF Names, Grows, registry

\* A connection that is being authenticated again, at a gateway where none shows two
\* session ids, is the one it was.
LEMMA SameAgain ==
  ASSUME TypeOK, Places, NEW g \in Gateway, task[g] # Idle, Single(g),
         client[task[g].conn] # NoClient
  PROVE  client[task[g].conn] = [uid |-> task[g].uid, ssid |-> task[g].ssid]
<1> DEFINE t == task[g]
           e == client[t.conn]
<1>1. t.conn \in Conn /\ Handled(g) /\ Registered(t.conn)
  BY TaskForm DEF Places
<1>2. home[t.conn] = g /\ t.ssid \in shown[t.conn] /\ owner[t.ssid] = t.uid
  BY <1>1 DEF Handled
<1>3. e.ssid \in shown[t.conn] /\ owner[e.ssid] = e.uid
  BY <1>1 DEF Registered
<1>4. e.ssid = t.ssid
  BY <1>1, <1>2, <1>3 DEF Single
<1>5. e = [uid |-> e.uid, ssid |-> e.ssid]
  BY <1>1 DEF TypeOK
<1>6. QED
  BY <1>2, <1>3, <1>4, <1>5

\* What Insert does to the registry.
LEMMA InsertEffect ==
  ASSUME TypeOK, NEW g \in Gateway, Insert(g)
  PROVE  LET t == task[g] IN
           /\ t # Idle /\ t.at = "insert"
           /\ t.conn \in Conn /\ t.uid \in User /\ t.ssid \in Ssid
           /\ \A d \in Conn : client'[d] =
                IF d = t.conn /\ client[d] = NoClient
                THEN [uid |-> t.uid, ssid |-> t.ssid] ELSE client[d]
           /\ \A h \in Gateway, v \in User : uidConn'[h][v] =
                IF h = g /\ v = t.uid /\ uidConn[h][v] = None THEN t.conn ELSE uidConn[h][v]
           /\ \A h \in Gateway : task'[h] = IF h = g THEN Idle ELSE task[h]
<1> DEFINE t == task[g]
<1>1. t # Idle /\ t.at = "insert" /\ t.conn \in Conn /\ t.uid \in User /\ t.ssid \in Ssid
  BY TaskForm DEF Insert
<1>2. \A d \in Conn : client'[d] =
        IF d = t.conn /\ client[d] = NoClient THEN [uid |-> t.uid, ssid |-> t.ssid] ELSE client[d]
  BY DEF Insert, TypeOK
<1>3. \A h \in Gateway, v \in User : uidConn'[h][v] =
        IF h = g /\ v = t.uid /\ uidConn[h][v] = None THEN t.conn ELSE uidConn[h][v]
  BY DEF Insert, TypeOK
<1>4. \A h \in Gateway : task'[h] = IF h = g THEN Idle ELSE task[h]
  BY DEF Insert, TypeOK
<1>5. QED
  BY <1>1, <1>2, <1>3, <1>4

LEMMA RemoveEffect ==
  ASSUME TypeOK, NEW g \in Gateway, Remove(g)
  PROVE  LET t == task[g] IN
           /\ t # Idle /\ t.at = "remove"
           /\ t.conn \in Conn /\ t.uid \in User /\ t.ssid \in Ssid
           /\ \A d \in Conn : client'[d] = IF d = t.conn THEN NoClient ELSE client[d]
           /\ \A h \in Gateway, v \in User : uidConn'[h][v] =
                IF h = g /\ v = t.uid THEN None ELSE uidConn[h][v]
           /\ \A h \in Gateway : task'[h] = IF h = g THEN Idle ELSE task[h]
<1> DEFINE t == task[g]
<1>1. t # Idle /\ t.at = "remove" /\ t.conn \in Conn /\ t.uid \in User /\ t.ssid \in Ssid
  BY TaskForm DEF Remove
<1>2. /\ \A d \in Conn : client'[d] = IF d = t.conn THEN NoClient ELSE client[d]
      /\ \A h \in Gateway : task'[h] = IF h = g THEN Idle ELSE task[h]
  BY DEF Remove, TypeOK
<1>3. \A h \in Gateway, v \in User : uidConn'[h][v] =
        IF h = g /\ v = t.uid THEN None ELSE uidConn[h][v]
  BY DEF Remove, TypeOK
<1>4. QED
  BY <1>1, <1>2, <1>3

LEMMA CrashEffect ==
  ASSUME TypeOK, NEW g \in Gateway, Crash(g)
  PROVE  /\ \A d \in Conn : client'[d] = IF home[d] = g THEN NoClient ELSE client[d]
         /\ \A h \in Gateway, v \in User : uidConn'[h][v] =
              IF h = g THEN None ELSE uidConn[h][v]
         /\ \A h \in Gateway : task'[h] = IF h = g THEN Idle ELSE task[h]
<1>1. /\ \A d \in Conn : client'[d] = IF home[d] = g THEN NoClient ELSE client[d]
      /\ \A h \in Gateway : task'[h] = IF h = g THEN Idle ELSE task[h]
  BY DEF Crash, TypeOK
<1>2. \A h \in Gateway, v \in User : uidConn'[h][v] = IF h = g THEN None ELSE uidConn[h][v]
  BY DEF Crash, TypeOK
<1>3. QED
  BY <1>1, <1>2

LEMMA InsertNamed ==
  ASSUME TypeOK, Places, Named, Grows, NEW g \in Gateway, Insert(g)
  PROVE  Named'
<1> DEFINE t == task[g]
<1>1. t # Idle /\ t.conn \in Conn /\ t.uid \in User /\ t.ssid \in Ssid /\ UNCHANGED home
  BY InsertEffect DEF Insert
<1>2. home[t.conn] = g
  BY <1>1 DEF Places, Handled
<1>3. \A d \in Conn : client'[d] =
        IF d = t.conn /\ client[d] = NoClient THEN [uid |-> t.uid, ssid |-> t.ssid] ELSE client[d]
  BY InsertEffect
<1>4. SUFFICES ASSUME NEW h \in Gateway, NEW u \in User, Single(h)', uidConn'[h][u] # None
               PROVE  Names(h, u, uidConn[h][u])'
  BY DEF Named
<1>5. Single(h)
  BY <1>4, WasSingle
<1>6. CASE h = g /\ u = t.uid /\ uidConn[h][u] = None
  <2>1. uidConn'[h][u] = t.conn
    BY <1>6, InsertEffect
  <2>2. client'[t.conn] = [uid |-> t.uid, ssid |-> t.ssid]
    BY <1>1, <1>3, <1>5, <1>6, SameAgain
  <2>3. QED
    BY <1>1, <1>2, <1>6, <2>1, <2>2, RealClient DEF Names
<1>7. CASE ~(h = g /\ u = t.uid /\ uidConn[h][u] = None)
  <2>1. uidConn'[h][u] = uidConn[h][u]
    BY <1>7, InsertEffect
  <2>2. uidConn[h][u] \in Conn /\ Names(h, u, uidConn[h][u])
    BY <1>4, <1>5, <2>1 DEF Named, TypeOK
  <2>3. QED
    BY <1>1, <1>3, <2>1, <2>2 DEF Names
<1>8. QED
  BY <1>6, <1>7

LEMMA RemoveNamed ==
  ASSUME TypeOK, Places, Named, Grows, NEW g \in Gateway, Remove(g)
  PROVE  Named'
<1> DEFINE t == task[g]
<1>1. t # Idle /\ t.at = "remove" /\ t.conn \in Conn /\ UNCHANGED home
  BY RemoveEffect DEF Remove
<1>2. home[t.conn] = g /\ client[t.conn] = [uid |-> t.uid, ssid |-> t.ssid]
  BY <1>1 DEF Places, Handled
<1>3. SUFFICES ASSUME NEW h \in Gateway, NEW u \in User, Single(h)', uidConn'[h][u] # None
               PROVE  Names(h, u, uidConn[h][u])'
  BY DEF Named
<1>4. ~(h = g /\ u = t.uid) /\ uidConn'[h][u] = uidConn[h][u] /\ uidConn[h][u] \in Conn
  BY <1>3, RemoveEffect DEF TypeOK
<1>5. Names(h, u, uidConn[h][u])
  BY <1>3, <1>4, WasSingle DEF Named
<1>6. uidConn[h][u] # t.conn
  BY <1>2, <1>4, <1>5 DEF Names
<1>7. client'[uidConn[h][u]] = client[uidConn[h][u]]
  BY <1>4, <1>6, RemoveEffect
<1>8. QED
  BY <1>1, <1>4, <1>5, <1>7 DEF Names

LEMMA CrashNamed ==
  ASSUME TypeOK, Places, Named, Grows, NEW g \in Gateway, Crash(g)
  PROVE  Named'
<1>1. SUFFICES ASSUME NEW h \in Gateway, NEW u \in User, Single(h)', uidConn'[h][u] # None
               PROVE  Names(h, u, uidConn[h][u])'
  BY DEF Named
<1>2. h # g /\ uidConn'[h][u] = uidConn[h][u] /\ uidConn[h][u] \in Conn
  BY <1>1, CrashEffect DEF TypeOK
<1>3. Names(h, u, uidConn[h][u])
  BY <1>1, <1>2, WasSingle DEF Named
<1>4. client'[uidConn[h][u]] = client[uidConn[h][u]] /\ UNCHANGED home
  BY <1>2, <1>3, CrashEffect DEF Names, Crash
<1>5. QED
  BY <1>2, <1>3, <1>4 DEF Names

-------------------------------------------------------------------------------
(* Turn                                                                      *)

LEMMA TurnKept ==
  ASSUME NEW u \in User, Turn(u),
         \A l \in Login : login'[l] # Idle => login[l] # Idle /\ login'[l].uid = login[l].uid,
         \A l \in Login : Passed(l, u)' => Passed(l, u),
         \A s \in Ssid : Holds(s, u)' =>
           Holds(s, u) /\ (u \in status' \/ \E l \in Login : Marking(l, u)'),
         \A g \in Gateway : Unmarking(g, u)' => Unmarking(g, u) /\ u \in status'
  PROVE  Turn(u)'
<1>1. \A l, k \in Login : login'[l] # Idle /\ login'[k] # Idle
                            /\ login'[l].uid = u /\ login'[k].uid = u => l = k
  BY DEF Turn
<1>2. \A s, t \in Ssid : Holds(s, u)' /\ Holds(t, u)' => s = t
  BY DEF Turn
<1>3. \A g, h \in Gateway : Unmarking(g, u)' /\ Unmarking(h, u)' => g = h
  BY DEF Turn
<1>4. \A s \in Ssid, l \in Login : ~(Holds(s, u)' /\ Passed(l, u)')
  BY DEF Turn
<1>5. \A s \in Ssid, g \in Gateway : ~(Holds(s, u)' /\ Unmarking(g, u)')
  BY DEF Turn
<1>6. \A l \in Login, g \in Gateway : ~(Passed(l, u)' /\ Unmarking(g, u)')
  BY DEF Turn
<1>7. QED
  BY <1>1, <1>2, <1>3, <1>4, <1>5, <1>6 DEF Turn

\* A second UserLogin of the same user would make him race himself.
LEMMA CallTurn ==
  ASSUME TypeOK, NEW u \in User, Orderly(u)', Turn(u),
         NEW l \in Login, NEW v \in User, Call(l, v)
  PROVE  Turn(u)'
<1>1. login[l] = Idle /\ UNCHANGED <<redis, stranded, task>>
  BY DEF Call
<1>2. login'[l].at = "exists" /\ login'[l].uid = v
      /\ \A k \in Login : k # l => login'[k] = login[k]
  BY DEF Call, TypeOK
<1>3. ASSUME NEW k \in Login, login[k] # Idle, login[k].uid = v
      PROVE  u # v
  BY <1>3 DEF Call, Orderly
<1>4. \A k, j \in Login : login'[k] # Idle /\ login'[j] # Idle
                            /\ login'[k].uid = u /\ login'[j].uid = u => k = j
  BY <1>2, <1>3 DEF Turn
<1>5. \A k \in Login : Passed(k, u)' => Passed(k, u)
  BY <1>2 DEF Passed
<1>6. \A g \in Gateway : Unmarking(g, u)' <=> Unmarking(g, u)
  BY <1>1 DEF Unmarking
<1>7. /\ \A k \in Login : Marking(k, u) => Marking(k, u)'
      /\ \A s \in Ssid : Holds(s, u)' <=> Holds(s, u)
  BY <1>1, <1>2 DEF Idle, Marking, Holds, redis
<1>8. QED
  BY <1>1, <1>4, <1>5, <1>6, <1>7 DEF Turn, redis

\* Whoever passes the look at the mark has neither a session nor a mark to lose.
LEMMA CheckMarkTurn ==
  ASSUME TypeOK, NEW u \in User, Turn(u), NEW l \in Login, CheckMark(l)
  PROVE  Turn(u)'
<1>1. login[l].at = "exists" /\ login[l] # Idle /\ UNCHANGED <<redis, stranded, task>>
  BY LoginForm DEF CheckMark, history
<1>2. /\ \A k \in Login : k # l => login'[k] = login[k]
      /\ \/ login'[l] = Idle
         \/ /\ login'[l] = [at |-> "session", uid |-> login[l].uid, ssid |-> login[l].ssid]
            /\ login[l].uid \notin status
  BY <1>1, LoginForm DEF TypeOK, CheckMark
<1>3. /\ \A k \in Login : login'[k] # Idle => login[k] # Idle /\ login'[k].uid = login[k].uid
      /\ \A k \in Login : Marking(k, u) => Marking(k, u)'
  BY <1>1, <1>2 DEF Marking
<1>4. /\ \A g \in Gateway : Unmarking(g, u)' <=> Unmarking(g, u)
      /\ \A s \in Ssid : Holds(s, u)' <=> Holds(s, u)
  BY <1>1 DEF Unmarking, Holds, redis
<1>5. CASE ~Passed(l, u)'
  <2>1. \A k \in Login : Passed(k, u)' => Passed(k, u)
    BY <1>2, <1>5 DEF Passed
  <2>2. QED
    BY <1>1, <1>3, <1>4, <2>1 DEF Turn, redis
<1>6. CASE Passed(l, u)'
  <2>1. login[l].uid = u /\ u \notin status
    BY <1>2, <1>6 DEF Passed, Idle
  <2>2. \A s \in Ssid : ~Holds(s, u)
    <3>1. \A k \in Login : ~Marking(k, u)
      BY <1>1, <2>1, LoginForm DEF Turn, Marking
    <3>2. QED
      BY <2>1, <3>1 DEF Turn
  <2>3. \A g \in Gateway : ~Unmarking(g, u)
    BY <2>1 DEF Turn
  <2>4. QED
    BY <1>1, <1>3, <1>4, <2>2, <2>3 DEF Turn, redis
<1>7. QED
  BY <1>5, <1>6

LEMMA AppendSessionTurn ==
  ASSUME TypeOK, NEW u \in User, Turn(u), NEW l \in Login, AppendSession(l)
  PROVE  Turn(u)'
<1> DEFINE v == login[l].uid
<1>1. login[l].at = "session" /\ login[l] # Idle /\ v \in User /\ login[l].ssid \in Ssid
      /\ UNCHANGED <<status, stranded, task>>
  BY LoginForm DEF AppendSession
<1>2. /\ \A k \in Login : k # l => login'[k] = login[k]
      /\ login'[l] = [at |-> "status", uid |-> v, ssid |-> login[l].ssid]
  BY <1>1, LoginForm DEF TypeOK, AppendSession
<1>3. \A s \in Ssid : session'[s] = IF s = login[l].ssid THEN v ELSE session[s]
  BY DEF AppendSession, TypeOK
<1>4. /\ \A k \in Login : login'[k] # Idle => login[k] # Idle /\ login'[k].uid = login[k].uid
      /\ \A k \in Login : Marking(k, u) => Marking(k, u)'
      /\ \A k \in Login : Passed(k, u)' => Passed(k, u) /\ k # l
  BY <1>1, <1>2 DEF Passed, Marking
<1>5. \A g \in Gateway : Unmarking(g, u)' <=> Unmarking(g, u)
  BY <1>1 DEF Unmarking
<1>6. CASE v # u
  <2>1. \A s \in Ssid : Holds(s, u)' => Holds(s, u)
    BY <1>1, <1>3, <1>6 DEF Holds
  <2>2. QED
    BY <1>1, <1>4, <1>5, <2>1 DEF Turn
<1>7. CASE v = u
  <2>1. Passed(l, u)
    BY <1>1, <1>7 DEF Passed
  <2>2. /\ \A s \in Ssid : ~Holds(s, u)
        /\ \A g \in Gateway : ~Unmarking(g, u)
        /\ \A k \in Login : login[k] # Idle /\ login[k].uid = u => k = l
    BY <1>1, <1>7, <2>1 DEF Turn
  <2>3. \A s \in Ssid : Holds(s, u)' => s = login[l].ssid
    BY <1>1, <1>3, <2>2 DEF Holds
  <2>4. \A k \in Login : ~Passed(k, u)'
    BY <1>4, <2>2, LoginForm DEF Passed
  <2>5. \A k, j \in Login : login'[k] # Idle /\ login'[j] # Idle
                              /\ login'[k].uid = u /\ login'[j].uid = u => k = j
    BY <1>4, <2>2
  <2>6. Marking(l, u)'
    BY <1>2, <1>7 DEF Marking
  <2>7. QED
    BY <1>5, <2>2, <2>3, <2>4, <2>5, <2>6 DEF Turn
<1>8. QED
  BY <1>6, <1>7

LEMMA AppendStatusTurn ==
  ASSUME TypeOK, NEW u \in User, Turn(u), NEW l \in Login, AppendStatus(l)
  PROVE  Turn(u)'
<1>1. login[l].at = "status" /\ login[l] # Idle /\ UNCHANGED <<session, stranded, task>>
      /\ status' = status \cup {login[l].uid}
  BY LoginForm DEF AppendStatus, history
<1>2. /\ \A k \in Login : k # l => login'[k] = login[k]
      /\ login'[l] = [at |-> "answer", uid |-> login[l].uid, ssid |-> login[l].ssid]
  BY <1>1, LoginForm DEF TypeOK, AppendStatus
<1>3. \A k \in Login : /\ login'[k] # Idle => login[k] # Idle /\ login'[k].uid = login[k].uid
                       /\ Passed(k, u)' => Passed(k, u)
  BY <1>1, <1>2 DEF Passed
<1>4. \A k \in Login : Marking(k, u) => u \in status' \/ Marking(k, u)'
  BY <1>1, <1>2 DEF Marking
<1>5. \A s \in Ssid : Holds(s, u)' =>
        Holds(s, u) /\ (u \in status' \/ \E k \in Login : Marking(k, u)')
  BY <1>1, <1>4 DEF Turn, Holds
<1>6. \A g \in Gateway : Unmarking(g, u)' => Unmarking(g, u) /\ u \in status'
  BY <1>1 DEF Turn, Unmarking
<1>7. QED
  BY <1>3, <1>5, <1>6, TurnKept

LEMMA AnswerLoginTurn ==
  ASSUME TypeOK, NEW u \in User, Turn(u), NEW l \in Login, AnswerLogin(l)
  PROVE  Turn(u)'
<1>1. login[l].at = "answer" /\ UNCHANGED <<redis, stranded, task>>
  BY DEF AnswerLogin, history
<1>2. login'[l] = Idle /\ \A k \in Login : k # l => login'[k] = login[k]
  BY DEF TypeOK, AnswerLogin
<1>3. \A k \in Login : /\ login'[k] # Idle => login[k] # Idle /\ login'[k].uid = login[k].uid
                       /\ Passed(k, u)' => Passed(k, u)
                       /\ Marking(k, u) => Marking(k, u)'
  BY <1>1, <1>2 DEF Passed, Marking, Idle
<1>4. \A s \in Ssid : Holds(s, u)' =>
        Holds(s, u) /\ (u \in status' \/ \E k \in Login : Marking(k, u)')
  BY <1>1, <1>3 DEF Turn, Holds, redis
<1>5. \A g \in Gateway : Unmarking(g, u)' => Unmarking(g, u) /\ u \in status'
  BY <1>1 DEF Turn, Unmarking, redis
<1>6. QED
  BY <1>3, <1>4, <1>5, TurnKept

\* A login that dies with its session stored, and no mark yet, had the only session
\* of its user.
LEMMA LoginDiesTurn ==
  ASSUME TypeOK, Owners, Marked, NEW u \in User, Turn(u), NEW l \in Login, LoginDies(l)
  PROVE  Turn(u)'
<1>1. login[l] # Idle /\ login[l].ssid \in Ssid /\ UNCHANGED <<redis, task>>
  BY LoginForm DEF LoginDies
<1>2. login'[l] = Idle /\ \A k \in Login : k # l => login'[k] = login[k]
  BY DEF TypeOK, LoginDies
<1>3. \A k \in Login : /\ login'[k] # Idle => login[k] # Idle /\ login'[k].uid = login[k].uid
                       /\ Passed(k, u)' => Passed(k, u)
                       /\ Marking(k, u) /\ k # l => Marking(k, u)'
  BY <1>1, <1>2 DEF Passed, Marking, Idle
<1>4. \A s \in Ssid : Holds(s, u)' => Holds(s, u)
  BY <1>1 DEF Holds, LoginDies, redis
<1>5. ASSUME NEW s \in Ssid, Holds(s, u)'
      PROVE  u \in status' \/ \E k \in Login : Marking(k, u)'
  <2>1. CASE Marking(l, u)
    <3>1. login[l].ssid \notin stranded /\ login[l].ssid \in stranded'
      BY <1>1, <2>1 DEF Marking, LoginDies, Owners
    <3>2. session[login[l].ssid] = u
      BY <2>1 DEF Marking, Marked, Granted
    <3>3. Holds(login[l].ssid, u) /\ Holds(s, u) /\ s # login[l].ssid
      BY <1>4, <1>5, <3>1, <3>2 DEF Holds
    <3>4. QED
      BY <1>1, <3>3 DEF Turn
  <2>2. CASE ~Marking(l, u)
    <3>1. u \in status \/ \E k \in Login : Marking(k, u) /\ k # l
      BY <1>4, <1>5, <2>2 DEF Turn
    <3>2. QED
      BY <1>1, <1>3, <3>1 DEF redis
  <2>3. QED
    BY <2>1, <2>2
<1>6. \A g \in Gateway : Unmarking(g, u)' => Unmarking(g, u) /\ u \in status'
  BY <1>1 DEF Turn, Unmarking, redis
<1>7. QED
  BY <1>3, <1>4, <1>5, <1>6, TurnKept

\* The steps that neither take nor return anything.
LEMMA BystanderTurn ==
  ASSUME TypeOK, NEW u \in User, Turn(u), UNCHANGED <<redis, login, stranded>>,
         \A g \in Gateway : Unmarking(g, u)' => Unmarking(g, u)
  PROVE  Turn(u)'
<1>1. \A k \in Login : /\ Passed(k, u)' <=> Passed(k, u)
                       /\ Marking(k, u)' <=> Marking(k, u)
  BY DEF Passed, Marking
<1>2. \A s \in Ssid : Holds(s, u)' =>
        Holds(s, u) /\ (u \in status' \/ \E k \in Login : Marking(k, u)')
  BY <1>1 DEF Turn, Holds, redis
<1>3. \A g \in Gateway : Unmarking(g, u)' => Unmarking(g, u) /\ u \in status'
  BY DEF Turn, redis
<1>4. QED
  BY <1>1, <1>2, <1>3, TurnKept

LEMMA RemoveStatusTurn ==
  ASSUME TypeOK, NEW u \in User, Turn(u), NEW g \in Gateway, RemoveStatus(g)
  PROVE  Turn(u)'
<1>1. task[g].at = "status" /\ UNCHANGED <<session, login, stranded>>
      /\ status' = status \ {task[g].uid}
  BY DEF RemoveStatus, history
<1>2. \A h \in Gateway : /\ h # g => task'[h] = task[h]
                         /\ ~Unmarking(g, u)'
  BY DEF RemoveStatus, TypeOK, Unmarking
<1>3. \A h \in Gateway : Unmarking(h, u)' => Unmarking(h, u) /\ h # g
  BY <1>2 DEF Unmarking
<1>4. CASE task[g].uid # u
  <2>1. u \in status' <=> u \in status
    BY <1>1, <1>4
  <2>2. /\ \A k \in Login : (Passed(k, u)' <=> Passed(k, u)) /\ (Marking(k, u)' <=> Marking(k, u))
        /\ \A s \in Ssid : Holds(s, u)' <=> Holds(s, u)
    BY <1>1 DEF Passed, Marking, Holds
  <2>3. QED
    BY <1>1, <1>3, <2>1, <2>2 DEF Turn
<1>5. CASE task[g].uid = u
  <2>1. Unmarking(g, u)
    BY <1>1, <1>5 DEF Unmarking
  <2>2. /\ \A s \in Ssid : ~Holds(s, u)'
        /\ \A h \in Gateway : ~Unmarking(h, u)'
        /\ \A k \in Login : ~Passed(k, u)'
    BY <1>1, <1>3, <2>1 DEF Turn, Passed, Holds
  <2>3. QED
    BY <1>1, <2>2, TurnKept
<1>6. QED
  BY <1>4, <1>5

\* The session a closing takes is the one its user has, and the closing takes its place.
LEMMA OnCloseTurn ==
  ASSUME TypeOK, Owners, Places, Marked, NEW u \in User, Turn(u), Live(u),
         NEW g \in Gateway, NEW c \in Conn, OnClose(g, c)
  PROVE  Turn(u)'
<1>1. task[g] = Idle /\ home[c] = g /\ UNCHANGED <<status, login, stranded>>
  BY DEF OnClose, history
<1>2. CASE client[c] = NoClient
  BY <1>1, <1>2, BystanderTurn DEF OnClose, redis, Unmarking
<1>3. CASE client[c] # NoClient
  <2> DEFINE s == client[c].ssid
             v == client[c].uid
  <2>1. s \in Ssid /\ v \in User /\ s \in known /\ s \notin stranded /\ owner[s] = v
    BY <1>3, ClientForm DEF Places, Registered, TypeOK
  <2>2. /\ \A r \in Ssid : session'[r] = IF r = s THEN None ELSE session[r]
        /\ \A h \in Gateway : h # g => task'[h] = task[h]
        /\ task'[g].at = "status" /\ task'[g].uid = v
    BY <1>3 DEF OnClose, TypeOK
  <2>3. \A h \in Gateway : Unmarking(h, u)' => Unmarking(h, u) \/ (h = g /\ u = v)
    BY <2>2 DEF Unmarking
  <2>4. CASE v # u
    <3>1. \A h \in Gateway : Unmarking(h, u)' => Unmarking(h, u)
      BY <2>3, <2>4
    <3>2. \A r \in Ssid : Holds(r, u)' => Holds(r, u)
      BY <1>1, <2>2, NoneIsNobody DEF Holds
    <3>3. \A k \in Login : (Marking(k, u)' <=> Marking(k, u)) /\ (Passed(k, u)' <=> Passed(k, u))
      BY <1>1 DEF Marking, Passed
    <3>4. \A r \in Ssid : Holds(r, u)' =>
            Holds(r, u) /\ (u \in status' \/ \E k \in Login : Marking(k, u)')
      BY <1>1, <3>2, <3>3 DEF Turn
    <3>5. \A h \in Gateway : Unmarking(h, u)' => Unmarking(h, u) /\ u \in status'
      BY <1>1, <3>1 DEF Turn
    <3>6. QED
      BY <1>1, <3>3, <3>4, <3>5, TurnKept
  <2>5. CASE v = u
    <3>1. ~Closing(c)
      <4>1. ASSUME NEW h \in Gateway, task[h].at \in {"status", "remove"}, task[h].conn = c
            PROVE  FALSE
        <5>1. home[c] = h
          BY <4>1, TaskForm DEF Places, Handled
        <5>2. task[h] = Idle
          BY <1>1, <5>1
        <5>3. QED
          BY <4>1, <5>2, TaskForm
      <4>2. QED
        BY <4>1 DEF Closing
    <3>2. Holds(s, u)
      BY <1>3, <2>1, <2>5, <3>1 DEF Live, Holds
    <3>3. /\ \A r \in Ssid : Holds(r, u) => r = s
          /\ \A l \in Login : ~Passed(l, u)
          /\ \A h \in Gateway : ~Unmarking(h, u)
      BY <2>1, <3>2 DEF Turn
    <3>4. \A l \in Login : ~Marking(l, u)
      <4>1. ASSUME NEW l \in Login, Marking(l, u) PROVE FALSE
        <5>1. login[l] # Idle /\ login[l].ssid \in Ssid /\ login[l].ssid \notin known
              /\ Holds(login[l].ssid, u)
          BY <4>1, LoginForm DEF Marking, Marked, Granted, Owners, Holds
        <5>2. QED
          BY <2>1, <3>3, <5>1
      <4>2. QED
        BY <4>1
    <3>5. u \in status
      BY <2>1, <3>2, <3>4 DEF Turn
    <3>6. /\ \A r \in Ssid : ~Holds(r, u)'
          /\ \A l \in Login : ~Passed(l, u)'
          /\ \A h \in Gateway : Unmarking(h, u)' => h = g
      BY <1>1, <2>2, <2>3, <3>3, NoneIsNobody DEF Passed, Holds
    <3>7. QED
      BY <1>1, <3>5, <3>6 DEF Turn
  <2>6. QED
    BY <2>4, <2>5
<1>4. QED
  BY <1>2, <1>3

-------------------------------------------------------------------------------
(* Live                                                                      *)

LEMMA LiveKept ==
  ASSUME NEW u \in User, Live(u),
         \A c \in Conn : client'[c] # NoClient /\ ~Closing(c)' =>
           /\ client[c] # NoClient /\ ~Closing(c) /\ client'[c] = client[c]
           /\ session'[client[c].ssid] = session[client[c].ssid],
         \A g \in Gateway : task'[g].at = "insert" =>
           /\ task'[g] = task[g]
           /\ session'[task[g].ssid] = session[task[g].ssid]
  PROVE  Live(u)'
<1>1. \A c \in Conn : client'[c] # NoClient /\ client'[c].uid = u /\ ~Closing(c)' =>
        session'[client'[c].ssid] = u
  BY DEF Live
<1>2. \A g \in Gateway : task'[g].at = "insert" /\ task'[g].uid = u => session'[task'[g].ssid] = u
  BY DEF Live
<1>3. QED
  BY <1>1, <1>2 DEF Live

\* The sessions of connections and of their handlers are known to a client.
LEMMA KnownSessions ==
  ASSUME TypeOK, Places
  PROVE  /\ \A c \in Conn : client[c] # NoClient => client[c].ssid \in known
         /\ \A g \in Gateway : task[g] # Idle => task[g].ssid \in known
<1>1. \A c \in Conn : client[c] # NoClient => client[c].ssid \in known
  BY DEF Places, Registered, TypeOK
<1>2. ASSUME NEW g \in Gateway, task[g] # Idle PROVE task[g].ssid \in known
  <2>1. task[g].conn \in Conn /\ task[g].ssid \in shown[task[g].conn]
    BY <1>2, TaskForm DEF Places, Handled
  <2>2. QED
    BY <2>1 DEF TypeOK
<1>3. QED
  BY <1>1, <1>2

LEMMA LoginLive ==
  ASSUME TypeOK, Owners, Places, NEW u \in User, Live(u), NEW l \in Login,
         LoginStep(l) \/ LoginDies(l) \/ \E v \in User : Call(l, v)
  PROVE  Live(u)'
<1>1. UNCHANGED <<registry, task>>
  BY DEF LoginStep, CheckMark, AppendSession, AppendStatus, AnswerLogin, LoginDies, Call
<1>2. \A s \in known : session'[s] = session[s]
  <2>1. CASE AppendSession(l)
    <3>1. login[l].ssid \notin known
      BY <2>1, LoginForm DEF AppendSession, Owners
    <3>2. QED
      BY <2>1, <3>1 DEF AppendSession, TypeOK
  <2>2. CASE ~AppendSession(l)
    BY <2>2 DEF LoginStep, CheckMark, AppendStatus, AnswerLogin, LoginDies, Call, redis
  <2>3. QED
    BY <2>1, <2>2
<1>3. \A c \in Conn : Closing(c)' <=> Closing(c)
  BY <1>1 DEF Closing
<1>4. \A g \in Gateway : task[g].at = "insert" => task[g].ssid \in known
  BY KnownSessions, TaskForm
<1>5. \A c \in Conn : client[c] # NoClient => client[c].ssid \in known
  BY KnownSessions
<1>6. QED
  BY <1>1, <1>2, <1>3, <1>4, <1>5, LiveKept DEF registry

LEMMA NetworkLive ==
  ASSUME NEW u \in User, Live(u), UNCHANGED <<redis, registry, task>>
  PROVE  Live(u)'
BY DEF Live, Closing, redis, registry

LEMMA OnMessageLive ==
  ASSUME TypeOK, NEW u \in User, Live(u),
         NEW g \in Gateway, NEW c \in Conn, NEW s \in Ssid, OnMessage(g, c, s)
  PROVE  Live(u)'
<1>1. UNCHANGED <<redis, registry>> /\ task[g] = Idle
  BY DEF OnMessage
<1>2. CASE session[s] = None
  BY <1>1, <1>2, NetworkLive DEF OnMessage
<1>3. CASE session[s] # None
  <2>1. \A h \in Gateway : task'[h] =
          IF h = g THEN [at |-> "insert", conn |-> c, uid |-> session[s], ssid |-> s] ELSE task[h]
    BY <1>3 DEF OnMessage, Accept, TypeOK
  <2>2. \A d \in Conn : Closing(d)' <=> Closing(d)
    BY <1>1, <2>1 DEF Closing, Idle
  <2>3. \A h \in Gateway : task'[h].at = "insert" /\ task'[h].uid = u =>
          session'[task'[h].ssid] = u
    BY <1>1, <2>1 DEF Live, redis
  <2>4. \A d \in Conn : client'[d] # NoClient /\ client'[d].uid = u /\ ~Closing(d)' =>
          session'[client'[d].ssid] = u
    BY <1>1, <2>2 DEF Live, redis, registry
  <2>5. QED
    BY <2>3, <2>4 DEF Live
<1>4. QED
  BY <1>2, <1>3

LEMMA InsertLive ==
  ASSUME TypeOK, NEW u \in User, Live(u), NEW g \in Gateway, Insert(g)
  PROVE  Live(u)'
<1> DEFINE t == task[g]
<1>1. t # Idle /\ t.at = "insert" /\ t.conn \in Conn /\ UNCHANGED redis
  BY InsertEffect DEF Insert
<1>2. /\ \A d \in Conn : client'[d] =
           IF d = t.conn /\ client[d] = NoClient
           THEN [uid |-> t.uid, ssid |-> t.ssid] ELSE client[d]
      /\ \A h \in Gateway : task'[h] = IF h = g THEN Idle ELSE task[h]
  BY InsertEffect
<1>3. Idle.at = "idle"
  BY DEF Idle
<1>4. \A d \in Conn : Closing(d)' <=> Closing(d)
  BY <1>1, <1>2, <1>3 DEF Closing
<1>5. \A h \in Gateway : task'[h].at = "insert" /\ task'[h].uid = u => session'[task'[h].ssid] = u
  BY <1>1, <1>2, <1>3 DEF Live, redis
<1>6. ASSUME NEW d \in Conn, client'[d] # NoClient, client'[d].uid = u, ~Closing(d)'
      PROVE  session'[client'[d].ssid] = u
  <2>1. CASE d = t.conn /\ client[d] = NoClient
    <3>1. t.uid = u /\ client'[d].ssid = t.ssid
      BY <1>2, <1>6, <2>1
    <3>2. QED
      BY <1>1, <3>1 DEF Live, redis
  <2>2. CASE ~(d = t.conn /\ client[d] = NoClient)
    BY <1>1, <1>2, <1>4, <1>6, <2>2 DEF Live, redis
  <2>3. QED
    BY <2>1, <2>2
<1>7. QED
  BY <1>5, <1>6 DEF Live

LEMMA RemoveStatusLive ==
  ASSUME TypeOK, NEW u \in User, Live(u), NEW g \in Gateway, RemoveStatus(g)
  PROVE  Live(u)'
<1>1. task[g].at = "status" /\ task[g] # Idle /\ UNCHANGED <<session, registry>>
  BY TaskForm DEF RemoveStatus
<1>2. \A h \in Gateway : task'[h] =
        IF h = g THEN [at |-> "remove", conn |-> task[g].conn, uid |-> task[g].uid,
                       ssid |-> task[g].ssid] ELSE task[h]
  BY <1>1, TaskForm DEF RemoveStatus, TypeOK
<1>3. \A d \in Conn : Closing(d)' <=> Closing(d)
  BY <1>1, <1>2 DEF Closing
<1>4. QED
  BY <1>1, <1>2, <1>3, LiveKept DEF registry

LEMMA RemoveLive ==
  ASSUME TypeOK, NEW u \in User, Live(u), NEW g \in Gateway, Remove(g)
  PROVE  Live(u)'
<1>1. UNCHANGED redis
  BY DEF Remove
<1>2. /\ \A d \in Conn : client'[d] = IF d = task[g].conn THEN NoClient ELSE client[d]
      /\ \A h \in Gateway : task'[h] = IF h = g THEN Idle ELSE task[h]
  BY RemoveEffect
<1>3. \A d \in Conn : d # task[g].conn /\ Closing(d) => Closing(d)'
  BY <1>2 DEF Closing
<1>4. \A h \in Gateway : task'[h].at = "insert" => task'[h] = task[h]
  BY <1>2 DEF Idle
<1>5. QED
  BY <1>1, <1>2, <1>3, <1>4, LiveKept DEF redis

LEMMA CrashLive ==
  ASSUME TypeOK, Places, NEW u \in User, Live(u), NEW g \in Gateway, Crash(g)
  PROVE  Live(u)'
<1>1. UNCHANGED redis
  BY DEF Crash
<1>2. /\ \A d \in Conn : client'[d] = IF home[d] = g THEN NoClient ELSE client[d]
      /\ \A h \in Gateway : task'[h] = IF h = g THEN Idle ELSE task[h]
  BY CrashEffect
<1>3. ASSUME NEW d \in Conn, home[d] # g, Closing(d) PROVE Closing(d)'
  <2>1. PICK h \in Gateway : task[h].at \in {"status", "remove"} /\ task[h].conn = d
    BY <1>3 DEF Closing
  <2>2. home[d] = h
    BY <2>1, TaskForm DEF Places, Handled
  <2>3. QED
    BY <1>2, <1>3, <2>1, <2>2 DEF Closing
<1>4. \A h \in Gateway : task'[h].at = "insert" => task'[h] = task[h]
  BY <1>2 DEF Idle
<1>5. QED
  BY <1>1, <1>2, <1>3, <1>4, LiveKept DEF redis

\* A closing takes the session of its own connection, and of no other.
LEMMA OnCloseLive ==
  ASSUME TypeOK, Places, NEW u \in User, Orderly(u), Live(u),
         NEW g \in Gateway, NEW c \in Conn, OnClose(g, c)
  PROVE  Live(u)'
<1>1. task[g] = Idle /\ home[c] = g /\ UNCHANGED registry
  BY DEF OnClose
<1>2. CASE client[c] = NoClient
  BY <1>1, <1>2, NetworkLive DEF OnClose, redis
<1>3. CASE client[c] # NoClient
  <2> DEFINE s == client[c].ssid
  <2>1. s \in Ssid /\ s \in shown[c] /\ owner[s] = client[c].uid
    BY <1>3, ClientForm DEF Places, Registered
  <2>2. /\ \A r \in Ssid : session'[r] = IF r = s THEN None ELSE session[r]
        /\ \A h \in Gateway : h # g => task'[h] = task[h]
        /\ task'[g].at = "status" /\ task'[g].conn = c
    BY <1>3 DEF OnClose, TypeOK
  <2>3. ASSUME NEW d \in Conn, client'[d] # NoClient, client'[d].uid = u, ~Closing(d)'
        PROVE  session'[client'[d].ssid] = u
    <3>1. d # c
      BY <2>2, <2>3 DEF Closing
    <3>2. ~Closing(d)
      BY <1>1, <2>2, <2>3 DEF Closing, Idle
    <3>3. client[d] # NoClient /\ client[d].uid = u /\ client'[d] = client[d]
      BY <1>1, <2>3 DEF registry
    <3>4. client[d].ssid \in Ssid /\ client[d].ssid \in shown[d] /\ owner[client[d].ssid] = u
      BY <3>3, ClientForm DEF Places, Registered
    <3>5. client[d].ssid # s
      BY <2>1, <3>1, <3>4 DEF Orderly
    <3>6. QED
      BY <2>2, <3>2, <3>3, <3>4, <3>5 DEF Live
  <2>4. ASSUME NEW h \in Gateway, task'[h].at = "insert", task'[h].uid = u
        PROVE  session'[task'[h].ssid] = u
    <3>1. h # g /\ task'[h] = task[h]
      BY <2>2, <2>4
    <3>2. task[h] # Idle /\ task[h].conn \in Conn /\ task[h].ssid \in Ssid
      BY <2>4, <3>1, TaskForm
    <3>3. /\ home[task[h].conn] = h /\ task[h].ssid \in shown[task[h].conn]
          /\ owner[task[h].ssid] = u
      BY <2>4, <3>1, <3>2 DEF Places, Handled
    <3>4. task[h].ssid # s
      BY <1>1, <2>1, <3>1, <3>2, <3>3 DEF Orderly
    <3>5. QED
      BY <2>2, <2>4, <3>1, <3>2, <3>4 DEF Live
  <2>5. QED
    BY <2>3, <2>4 DEF Live
<1>4. QED
  BY <1>2, <1>3

-------------------------------------------------------------------------------
(* Backed                                                                    *)

\* A step that takes no session of u's connections, nor an entry or a closing of u.
LEMMA BackedKept ==
  ASSUME TypeOK, Grows, NEW u \in User, Backed(u),
         \A g \in Gateway : uidConn'[g][u] = uidConn[g][u] \/ uidConn'[g][u] = None,
         \A c \in Conn : \A s \in shown[c] : session[s] = u => session'[s] = u,
         \A g \in Gateway : Leaving(g, u) => Leaving(g, u)' \/ uidConn'[g][u] = None
  PROVE  Backed(u)'
<1> SUFFICES ASSUME NEW g \in Gateway, uidConn'[g][u] # None
             PROVE  home'[uidConn'[g][u]] = g /\ Shows(uidConn[g][u], u, g)'
  BY DEF Backed
<1> DEFINE e == uidConn[g][u]
<1>1. uidConn'[g][u] = e /\ e # None /\ e \in Conn
  BY DEF TypeOK
<1>2. home[e] = g /\ Shows(e, u, g)
  BY <1>1 DEF Backed
<1>3. home'[e] = g
  BY <1>1, <1>2 DEF Grows
<1>4. PICK s \in shown[e] : owner[s] = u /\ (session[s] = u \/ Leaving(g, u))
  BY <1>2 DEF Shows
<1>5. s \in shown'[e] /\ owner'[s] = u
  BY <1>1, <1>4 DEF Grows
<1>6. session'[s] = u \/ Leaving(g, u)'
  BY <1>1, <1>4
<1>7. QED
  BY <1>1, <1>3, <1>5, <1>6 DEF Shows

LEMMA InsertBacked ==
  ASSUME TypeOK, Places, Grows, NEW u \in User, Live(u), Backed(u),
         NEW g \in Gateway, Insert(g)
  PROVE  Backed(u)'
<1> DEFINE t == task[g]
<1>1. t # Idle /\ t.at = "insert" /\ t.conn \in Conn /\ t.uid \in User /\ t.ssid \in Ssid
      /\ UNCHANGED <<home, shown, owner, session>>
  BY InsertEffect DEF Insert, history, redis
<1>2. /\ \A h \in Gateway : uidConn'[h][u] =
           IF h = g /\ u = t.uid /\ uidConn[h][u] = None THEN t.conn ELSE uidConn[h][u]
      /\ \A h \in Gateway : task'[h] = IF h = g THEN Idle ELSE task[h]
  BY InsertEffect
<1>3. \A h \in Gateway : Leaving(h, u) => h # g /\ Leaving(h, u)'
  BY <1>1, <1>2 DEF Leaving
<1>4. CASE ~(u = t.uid /\ uidConn[g][u] = None)
  <2>1. \A h \in Gateway : uidConn'[h][u] = uidConn[h][u]
    BY <1>2, <1>4
  <2>2. QED
    BY <1>1, <1>3, <2>1, BackedKept
<1>5. CASE u = t.uid /\ uidConn[g][u] = None
  <2>1. /\ uidConn'[g][u] = t.conn
        /\ \A h \in Gateway : h # g => uidConn'[h][u] = uidConn[h][u]
    BY <1>2, <1>5
  <2>2. /\ home[t.conn] = g /\ t.ssid \in shown[t.conn] /\ owner[t.ssid] = u
        /\ session[t.ssid] = u
    BY <1>1, <1>5 DEF Places, Handled, Live
  <2>3. home'[uidConn'[g][u]] = g /\ Shows(uidConn[g][u], u, g)'
    <3>1. t.ssid \in shown'[t.conn] /\ owner'[t.ssid] = u /\ session'[t.ssid] = u
      BY <1>1, <2>2
    <3>2. Shows(uidConn[g][u], u, g)'
      BY <2>1, <3>1 DEF Shows
    <3>3. QED
      BY <1>1, <2>1, <2>2, <3>2
  <2>4. ASSUME NEW h \in Gateway, h # g, uidConn'[h][u] # None
        PROVE  home'[uidConn'[h][u]] = h /\ Shows(uidConn[h][u], u, h)'
    <3> DEFINE e == uidConn[h][u]
    <3>1. uidConn'[h][u] = e /\ e # None
      BY <2>1, <2>4
    <3>2. home[e] = h /\ Shows(e, u, h)
      BY <3>1 DEF Backed
    <3>3. PICK s \in shown[e] : owner[s] = u /\ (session[s] = u \/ Leaving(h, u))
      BY <3>2 DEF Shows
    <3>4. s \in shown'[e] /\ owner'[s] = u /\ (session'[s] = u \/ Leaving(h, u)')
      BY <1>1, <1>3, <3>3
    <3>5. Shows(uidConn[h][u], u, h)'
      BY <3>1, <3>4 DEF Shows
    <3>6. home'[uidConn'[h][u]] = h
      BY <1>1, <3>1, <3>2
    <3>7. QED
      BY <3>5, <3>6
  <2>5. QED
    BY <2>1, <2>3, <2>4 DEF Backed
<1>6. QED
  BY <1>4, <1>5

\* The only closing that takes a session of u is of the connection that shows it, and
\* the entry of u goes with it.
LEMMA OnCloseBacked ==
  ASSUME TypeOK, Places, Grows, NEW u \in User, Orderly(u), Backed(u),
         NEW g \in Gateway, NEW c \in Conn, OnClose(g, c)
  PROVE  Backed(u)'
<1>1. task[g] = Idle /\ home[c] = g /\ UNCHANGED <<home, registry, history>>
  BY DEF OnClose
<1>2. CASE client[c] = NoClient
  <2>1. UNCHANGED <<session, task>>
    BY <1>2 DEF OnClose
  <2>2. \A h \in Gateway : Leaving(h, u) => Leaving(h, u)'
    BY <2>1 DEF Leaving
  <2>3. QED
    BY <1>1, <2>1, <2>2, BackedKept DEF registry
<1>3. CASE client[c] # NoClient
  <2> DEFINE r == client[c].ssid
  <2>1. r \in Ssid /\ r \in shown[c] /\ owner[r] = client[c].uid
    BY <1>3, ClientForm DEF Places, Registered
  <2>2. /\ \A s \in Ssid : session'[s] = IF s = r THEN None ELSE session[s]
        /\ \A h \in Gateway : h # g => task'[h] = task[h]
        /\ task'[g].at = "status" /\ task'[g].uid = client[c].uid
    BY <1>3 DEF OnClose, TypeOK
  <2>3. SUFFICES ASSUME NEW h \in Gateway, uidConn'[h][u] # None
                 PROVE  home'[uidConn'[h][u]] = h /\ Shows(uidConn[h][u], u, h)'
    BY DEF Backed
  <2> DEFINE e == uidConn[h][u]
  <2>4. uidConn'[h][u] = e /\ e \in Conn /\ home[e] = h /\ Shows(e, u, h)
    BY <1>1, <2>3 DEF Backed, TypeOK, registry
  <2>5. PICK s \in shown[e] : owner[s] = u /\ (session[s] = u \/ Leaving(h, u))
    BY <2>4 DEF Shows
  <2>6. s \in Ssid
    BY <2>4, <2>5 DEF TypeOK
  <2>7. session'[s] = u \/ Leaving(h, u)'
    <3>1. CASE Leaving(h, u)
      <4>1. h # g
        BY <1>1, <3>1 DEF Leaving, Idle
      <4>2. QED
        BY <2>2, <3>1, <4>1 DEF Leaving
    <3>2. CASE session[s] = u /\ s # r
      BY <2>2, <2>6, <3>2
    <3>3. CASE s = r
      <4>1. c = e
        BY <2>1, <2>4, <2>5, <3>3 DEF Orderly
      <4>2. h = g /\ client[c].uid = u
        BY <1>1, <2>1, <2>4, <2>5, <3>3, <4>1
      <4>3. QED
        BY <2>2, <4>2 DEF Leaving
    <3>4. QED
      BY <2>5, <3>1, <3>2, <3>3
  <2>8. QED
    BY <1>1, <2>4, <2>5, <2>7 DEF Shows, history
<1>4. QED
  BY <1>2, <1>3

LEMMA LoginBacked ==
  ASSUME TypeOK, Owners, Grows, NEW u \in User, Backed(u), NEW l \in Login,
         LoginStep(l) \/ LoginDies(l) \/ \E v \in User : Call(l, v)
  PROVE  Backed(u)'
<1>1. UNCHANGED <<registry, task>>
  BY DEF LoginStep, CheckMark, AppendSession, AppendStatus, AnswerLogin, LoginDies, Call
<1>2. \A g \in Gateway : Leaving(g, u)' <=> Leaving(g, u)
  BY <1>1 DEF Leaving
<1>3. \A c \in Conn : \A s \in shown[c] : session'[s] = session[s]
  <2>1. CASE AppendSession(l)
    <3>1. \A c \in Conn : \A s \in shown[c] : s # login[l].ssid /\ s \in Ssid
      BY <2>1, OwnersKept
    <3>2. QED
      BY <2>1, <3>1 DEF AppendSession, TypeOK
  <2>2. CASE ~AppendSession(l)
    BY <2>2 DEF LoginStep, CheckMark, AppendStatus, AnswerLogin, LoginDies, Call, redis
  <2>3. QED
    BY <2>1, <2>2
<1>4. QED
  BY <1>1, <1>2, <1>3, BackedKept DEF registry

\* Steps that leave the sessions and the registry alone, and end no closing.
LEMMA BystanderBacked ==
  ASSUME TypeOK, Grows, NEW u \in User, Backed(u), UNCHANGED <<session, registry>>,
         \A g \in Gateway : Leaving(g, u) => Leaving(g, u)'
  PROVE  Backed(u)'
BY BackedKept DEF registry

LEMMA RemoveBacked ==
  ASSUME TypeOK, Grows, NEW u \in User, Backed(u), NEW g \in Gateway, Remove(g)
  PROVE  Backed(u)'
<1>1. /\ \A h \in Gateway : uidConn'[h][u] =
           IF h = g /\ u = task[g].uid THEN None ELSE uidConn[h][u]
      /\ \A h \in Gateway : task'[h] = IF h = g THEN Idle ELSE task[h]
  BY RemoveEffect
<1>2. \A h \in Gateway : Leaving(h, u) => Leaving(h, u)' \/ uidConn'[h][u] = None
  BY <1>1 DEF Leaving
<1>3. UNCHANGED session
  BY DEF Remove, redis
<1>4. QED
  BY <1>1, <1>2, <1>3, BackedKept

LEMMA CrashBacked ==
  ASSUME TypeOK, Grows, NEW u \in User, Backed(u), NEW g \in Gateway, Crash(g)
  PROVE  Backed(u)'
<1>1. /\ \A h \in Gateway : uidConn'[h][u] = IF h = g THEN None ELSE uidConn[h][u]
      /\ \A h \in Gateway : task'[h] = IF h = g THEN Idle ELSE task[h]
  BY CrashEffect
<1>2. \A h \in Gateway : Leaving(h, u) => Leaving(h, u)' \/ uidConn'[h][u] = None
  BY <1>1 DEF Leaving
<1>3. UNCHANGED session
  BY DEF Crash, redis
<1>4. QED
  BY <1>1, <1>2, <1>3, BackedKept

-------------------------------------------------------------------------------
(* Reached                                                                   *)

LEMMA ReachedKept ==
  ASSUME TypeOK, Places, Grows, UNCHANGED registry, NEW u \in User, Reached(u)
  PROVE  Reached(u)'
<1> SUFFICES ASSUME NEW c \in Conn, client'[c] # NoClient, client'[c].uid = u
             PROVE  uidConn'[home'[c]][u] = c
  BY DEF Reached
<1>1. client[c] # NoClient /\ client[c].uid = u
  BY DEF registry
<1>2. home[c] \in Gateway /\ home'[c] = home[c]
  BY <1>1 DEF Places, Registered, Grows
<1>3. QED
  BY <1>1, <1>2 DEF Reached, registry

\* An entry that is there already is of the same connection.
LEMMA InsertReached ==
  ASSUME TypeOK, Owners, Places, NEW u \in User,
         Orderly(u), Turn(u), Live(u), Backed(u), Reached(u), NEW g \in Gateway, Insert(g)
  PROVE  Reached(u)'
<1> DEFINE t == task[g]
<1>1. t # Idle /\ t.at = "insert" /\ t.conn \in Conn /\ t.uid \in User /\ t.ssid \in Ssid
      /\ UNCHANGED home
  BY InsertEffect DEF Insert
<1>2. \A d \in Conn : client'[d] =
        IF d = t.conn /\ client[d] = NoClient THEN [uid |-> t.uid, ssid |-> t.ssid] ELSE client[d]
  BY InsertEffect
<1>3. \A h \in Gateway, v \in User : uidConn'[h][v] =
        IF h = g /\ v = t.uid /\ uidConn[h][v] = None THEN t.conn ELSE uidConn[h][v]
  BY InsertEffect
<1>4. home[t.conn] = g /\ t.ssid \in shown[t.conn] /\ owner[t.ssid] = t.uid
  BY <1>1 DEF Places, Handled
<1>5. SUFFICES ASSUME NEW d \in Conn, client'[d] # NoClient, client'[d].uid = u
               PROVE  uidConn'[home[d]][u] = d
  BY <1>1 DEF Reached
<1>6. CASE client[d] # NoClient
  <2>1. client[d].uid = u /\ home[d] \in Gateway
    BY <1>2, <1>5, <1>6 DEF Places, Registered
  <2>2. uidConn[home[d]][u] = d
    BY <1>6, <2>1 DEF Reached
  <2>3. QED
    BY <1>3, <2>1, <2>2, NoneIsNobody
<1>7. CASE client[d] = NoClient
  <2>1. d = t.conn /\ t.uid = u
    BY <1>2, <1>5, <1>7
  <2>2. session[t.ssid] = u
    BY <1>1, <2>1 DEF Live
  <2>3. ASSUME uidConn[g][u] # None PROVE uidConn[g][u] = d
    <3> DEFINE e == uidConn[g][u]
    <3>1. e \in Conn /\ Shows(e, u, g)
      BY <2>3 DEF Backed, TypeOK
    <3>2. ~Leaving(g, u)
      BY <1>1 DEF Leaving
    <3>3. PICK s \in shown[e] : owner[s] = u /\ session[s] = u
      BY <3>1, <3>2 DEF Shows
    <3>4. s \in known /\ t.ssid \in known
      BY <1>1, <1>4, <3>1, <3>3 DEF TypeOK
    <3>5. s \in Ssid /\ Holds(s, u) /\ Holds(t.ssid, u)
      BY <2>2, <3>3, <3>4 DEF TypeOK, Holds
    <3>6. s = t.ssid
      BY <1>1, <3>5 DEF Turn
    <3>7. QED
      BY <1>1, <1>4, <2>1, <3>1, <3>3, <3>6 DEF Orderly
  <2>4. QED
    BY <1>3, <1>4, <2>1, <2>3
<1>8. QED
  BY <1>6, <1>7

LEMMA RemoveReached ==
  ASSUME TypeOK, Places, NEW u \in User, Reached(u), NEW g \in Gateway, Remove(g)
  PROVE  Reached(u)'
<1> DEFINE t == task[g]
<1>1. t # Idle /\ t.at = "remove" /\ t.conn \in Conn /\ UNCHANGED home
  BY RemoveEffect DEF Remove
<1>2. home[t.conn] = g /\ client[t.conn] = [uid |-> t.uid, ssid |-> t.ssid] /\ client[t.conn] # NoClient
  BY <1>1, RemoveEffect, RealClient DEF Places, Handled
<1>3. SUFFICES ASSUME NEW d \in Conn, client'[d] # NoClient, client'[d].uid = u
               PROVE  uidConn'[home[d]][u] = d
  BY <1>1 DEF Reached
<1>4. d # t.conn /\ client[d] # NoClient /\ client[d].uid = u
  BY <1>3, RemoveEffect
<1>5. home[d] \in Gateway
  BY <1>4 DEF Places, Registered
<1>6. uidConn[home[d]][u] = d
  BY <1>4 DEF Reached
<1>7. ~(home[d] = g /\ u = t.uid)
  BY <1>1, <1>2, <1>4, <1>6 DEF Reached
<1>8. QED
  BY <1>5, <1>6, <1>7, RemoveEffect

LEMMA CrashReached ==
  ASSUME TypeOK, Places, NEW u \in User, Reached(u), NEW g \in Gateway, Crash(g)
  PROVE  Reached(u)'
<1>1. UNCHANGED home
  BY DEF Crash
<1>2. SUFFICES ASSUME NEW d \in Conn, client'[d] # NoClient, client'[d].uid = u
               PROVE  uidConn'[home[d]][u] = d
  BY <1>1 DEF Reached
<1>3. home[d] # g /\ client[d] # NoClient /\ client[d].uid = u
  BY <1>2, CrashEffect
<1>4. home[d] \in Gateway
  BY <1>3 DEF Places, Registered
<1>5. QED
  BY <1>3, <1>4, CrashEffect DEF Reached

-------------------------------------------------------------------------------
(* Marks                                                                     *)

\* A step that takes no session and no closing's place, and marks nobody.
LEMMA MarkedKept ==
  ASSUME TypeOK, Marked, UNCHANGED <<redis, stranded, crashes>>,
         \A l \in Login : Granted(l)' => Granted(l) /\ login'[l] = login[l],
         \A g \in Gateway, u \in User : Unmarking(g, u) => Unmarking(g, u)'
  PROVE  Marked'
<1>1. \A l \in Login : Granted(l)' => session'[login'[l].ssid] = login'[l].uid
  BY DEF Marked, redis
<1>2. \A u \in User : Settled(u) \subseteq Settled(u)'
  BY DEF Settled, SessionsOf, Granted, redis
<1>3. ASSUME crashes' = 0, NEW u \in status'
      PROVE  Settled(u)' # {} \/ \E g \in Gateway : Unmarking(g, u)'
  <2>1. u \in User /\ u \in status /\ crashes = 0
    BY <1>3 DEF TypeOK, redis
  <2>2. Settled(u) # {} \/ \E g \in Gateway : Unmarking(g, u)
    BY <2>1 DEF Marked, MarkSettled
  <2>3. QED
    BY <1>2, <2>1, <2>2
<1>4. QED
  BY <1>1, <1>3 DEF Marked, MarkSettled

LEMMA LoginMarked ==
  ASSUME TypeOK, Owners, Marked, NEW l \in Login,
         LoginStep(l) \/ LoginDies(l) \/ \E u \in User : Call(l, u)
  PROVE  Marked'
<1>1. \A g \in Gateway, u \in User : Unmarking(g, u)' <=> Unmarking(g, u)
  BY DEF LoginStep, CheckMark, AppendSession, AppendStatus, AnswerLogin, LoginDies, Call, Unmarking
<1>2. ASSUME NEW u \in User, Call(l, u) PROVE Marked'
  <2>1. \A k \in Login : Granted(k)' => Granted(k) /\ login'[k] = login[k]
    BY <1>2 DEF Call, TypeOK, Granted
  <2>2. QED
    BY <1>1, <1>2, <2>1, MarkedKept DEF Call
<1>3. CASE CheckMark(l)
  <2>1. \A k \in Login : Granted(k)' => Granted(k) /\ login'[k] = login[k]
    <3>1. \A k \in Login : k # l => login'[k] = login[k]
      BY <1>3 DEF CheckMark, TypeOK
    <3>2. login'[l].at \in {"idle", "session"}
      BY <1>3, LoginForm DEF CheckMark, TypeOK, Idle
    <3>3. QED
      BY <3>1, <3>2 DEF Granted
  <2>2. QED
    BY <1>1, <1>3, <2>1, MarkedKept DEF CheckMark, history
<1>4. CASE AnswerLogin(l)
  <2>1. \A k \in Login : Granted(k)' => Granted(k) /\ login'[k] = login[k]
    BY <1>4 DEF AnswerLogin, TypeOK, Granted, Idle
  <2>2. QED
    BY <1>1, <1>4, <2>1, MarkedKept DEF AnswerLogin, history
<1>5. CASE AppendStatus(l)
  <2>1. login[l].at = "status" /\ login[l] # Idle /\ UNCHANGED <<session, stranded, crashes>>
        /\ login[l].uid \in User /\ login[l].ssid \in Ssid
        /\ status' = status \cup {login[l].uid}
    BY <1>5, LoginForm DEF AppendStatus, history
  <2>2. /\ \A k \in Login : k # l => login'[k] = login[k]
        /\ login'[l].ssid = login[l].ssid /\ login'[l].uid = login[l].uid
    BY <1>5 DEF AppendStatus, TypeOK
  <2>3. \A k \in Login : Granted(k)' => session'[login'[k].ssid] = login'[k].uid
    BY <2>1, <2>2 DEF Marked, Granted
  <2>4. \A k \in Login : login'[k].at = "status" => k # l /\ login'[k] = login[k]
    <3>1. login'[l].at = "answer"
      BY <1>5, <2>1, LoginForm DEF AppendStatus, TypeOK
    <3>2. QED
      BY <2>2, <3>1
  <2>5. \A u \in User : Settled(u) \subseteq Settled(u)'
    BY <2>1, <2>4 DEF Settled, SessionsOf
  <2>6. ASSUME NEW k \in Login, login'[k].at = "status" PROVE login'[k].ssid # login[l].ssid
    <3>1. k # l /\ login'[k] = login[k] /\ login[k] # Idle
      BY <2>4, <2>6, LoginForm
    <3>2. QED
      BY <2>1, <3>1 DEF Owners
  <2>7. session[login[l].ssid] = login[l].uid /\ login[l].ssid \notin stranded
    BY <2>1 DEF Marked, Granted, Owners
  <2>8. \A u \in User : u = login[l].uid => login[l].ssid \in Settled(u)'
    BY <2>1, <2>6, <2>7 DEF Settled, SessionsOf
  <2>9. ASSUME crashes' = 0, NEW u \in status'
        PROVE  Settled(u)' # {} \/ \E g \in Gateway : Unmarking(g, u)'
    <3>1. CASE u = login[l].uid
      BY <2>1, <2>8, <3>1
    <3>2. CASE u # login[l].uid
      <4>1. u \in User /\ u \in status /\ crashes = 0
        BY <2>1, <2>9, <3>2 DEF TypeOK
      <4>2. Settled(u) # {} \/ \E g \in Gateway : Unmarking(g, u)
        BY <4>1 DEF Marked, MarkSettled
      <4>3. QED
        BY <1>1, <2>5, <4>1, <4>2
    <3>3. QED
      BY <3>1, <3>2
  <2>10. QED
    BY <2>3, <2>9 DEF Marked, MarkSettled
<1>6. CASE AppendSession(l)
  <2>1. login[l].at = "session" /\ login[l] # Idle /\ UNCHANGED <<status, stranded, crashes>>
        /\ login[l].uid \in User /\ login[l].ssid \in Ssid
    BY <1>6, LoginForm DEF AppendSession
  <2>2. /\ \A k \in Login : k # l => login'[k] = login[k]
        /\ login'[l].ssid = login[l].ssid /\ login'[l].uid = login[l].uid
    BY <1>6 DEF AppendSession, TypeOK
  <2>3. \A s \in Ssid : session'[s] = IF s = login[l].ssid THEN login[l].uid ELSE session[s]
    BY <1>6 DEF AppendSession, TypeOK
  <2>4. session[login[l].ssid] = None
    BY <2>1 DEF Owners, Asking
  <2>5. ASSUME NEW k \in Login, Granted(k)' PROVE session'[login'[k].ssid] = login'[k].uid
    <3>1. CASE k = l
      BY <2>1, <2>2, <2>3, <3>1
    <3>2. CASE k # l
      <4>1. Granted(k) /\ login'[k] = login[k]
        BY <2>2, <2>5, <3>2 DEF Granted
      <4>2. login[k] # Idle /\ login[k].ssid \in Ssid
        BY <4>1, LoginForm DEF Granted
      <4>3. login[k].ssid # login[l].ssid
        BY <2>1, <3>2, <4>2 DEF Owners
      <4>4. QED
        BY <2>3, <4>1, <4>2, <4>3 DEF Marked
    <3>3. QED
      BY <3>1, <3>2
  <2>6. \A u \in User : Settled(u) \subseteq Settled(u)'
    <3> SUFFICES ASSUME NEW u \in User, NEW r \in Settled(u) PROVE r \in Settled(u)'
      OBVIOUS
    <3>1. r \in Ssid /\ r \notin stranded /\ session[r] = u /\ r # login[l].ssid
      BY <2>4, NoneIsNobody DEF Settled, SessionsOf
    <3>2. \A k \in Login : login'[k].at = "status" => login'[k].ssid # r
      BY <2>2, <3>1 DEF Settled
    <3>3. session'[r] = u
      BY <2>3, <3>1
    <3>4. QED
      BY <2>1, <3>1, <3>2, <3>3 DEF Settled, SessionsOf
  <2>7. ASSUME crashes' = 0, NEW u \in status'
        PROVE  Settled(u)' # {} \/ \E g \in Gateway : Unmarking(g, u)'
    <3>1. u \in User /\ u \in status /\ crashes = 0
      BY <2>1, <2>7 DEF TypeOK
    <3>2. Settled(u) # {} \/ \E g \in Gateway : Unmarking(g, u)
      BY <3>1 DEF Marked, MarkSettled
    <3>3. QED
      BY <1>1, <2>6, <3>1, <3>2
  <2>8. QED
    BY <2>5, <2>7 DEF Marked, MarkSettled
<1>7. CASE LoginDies(l)
  <2>1. UNCHANGED <<redis, crashes>> /\ login[l] # Idle
    BY <1>7 DEF LoginDies
  <2>2. \A k \in Login : Granted(k)' => Granted(k) /\ login'[k] = login[k]
    BY <1>7 DEF LoginDies, TypeOK, Granted, Idle
  <2>3. \A k \in Login : login'[k].at = "status" => login'[k] = login[k]
    BY <2>2 DEF Granted
  <2>4. \A k \in Login : Granted(k)' => session'[login'[k].ssid] = login'[k].uid
    BY <2>1, <2>2 DEF Marked, redis
  <2>5. \A u \in User : Settled(u) \subseteq Settled(u)'
    <3> SUFFICES ASSUME NEW u \in User, NEW r \in Settled(u) PROVE r \in Settled(u)'
      OBVIOUS
    <3>1. /\ r \in Ssid /\ r \notin stranded /\ session[r] = u
          /\ \A k \in Login : login[k].at = "status" => login[k].ssid # r
      BY DEF Settled, SessionsOf
    <3>2. r \notin stranded'
      BY <1>7, <3>1 DEF LoginDies
    <3>3. \A k \in Login : login'[k].at = "status" => login'[k].ssid # r
      BY <2>3, <3>1
    <3>4. QED
      BY <2>1, <3>1, <3>2, <3>3 DEF Settled, SessionsOf, redis
  <2>6. ASSUME crashes' = 0, NEW u \in status'
        PROVE  Settled(u)' # {} \/ \E g \in Gateway : Unmarking(g, u)'
    <3>1. u \in User /\ u \in status /\ crashes = 0
      BY <2>1, <2>6 DEF TypeOK, redis
    <3>2. Settled(u) # {} \/ \E g \in Gateway : Unmarking(g, u)
      BY <3>1 DEF Marked, MarkSettled
    <3>3. QED
      BY <1>1, <2>5, <3>1, <3>2
  <2>7. QED
    BY <2>4, <2>6 DEF Marked, MarkSettled
<1>8. QED
  BY <1>2, <1>3, <1>4, <1>5, <1>6, <1>7 DEF LoginStep

LEMMA BystanderMarked ==
  ASSUME TypeOK, Marked, UNCHANGED <<redis, login, stranded, crashes>>,
         \A g \in Gateway, u \in User : Unmarking(g, u) => Unmarking(g, u)'
  PROVE  Marked'
BY MarkedKept DEF Granted

LEMMA OnCloseMarked ==
  ASSUME TypeOK, Owners, Places, Marked, NEW g \in Gateway, NEW c \in Conn, OnClose(g, c)
  PROVE  Marked'
<1>1. task[g] = Idle /\ UNCHANGED <<status, login, stranded, crashes>>
  BY DEF OnClose, history
<1>2. CASE client[c] = NoClient
  BY <1>1, <1>2, BystanderMarked DEF OnClose, redis, Unmarking
<1>3. CASE client[c] # NoClient
  <2> DEFINE s == client[c].ssid
             v == client[c].uid
  <2>1. s \in Ssid /\ v \in User /\ s \in known /\ owner[s] = v
    BY <1>3, ClientForm DEF Places, Registered, TypeOK
  <2>2. /\ \A r \in Ssid : session'[r] = IF r = s THEN None ELSE session[r]
        /\ \A h \in Gateway : h # g => task'[h] = task[h]
        /\ task'[g].at = "status" /\ task'[g].uid = v
    BY <1>3 DEF OnClose, TypeOK
  <2>3. ASSUME NEW l \in Login, Granted(l)' PROVE session'[login'[l].ssid] = login'[l].uid
    <3>1. login'[l] = login[l] /\ Granted(l)
      BY <1>1, <2>3 DEF Granted
    <3>2. login[l] # Idle /\ login[l].ssid \in Ssid
      BY <3>1, LoginForm DEF Granted
    <3>3. login[l].ssid # s
      BY <2>1, <3>2 DEF Owners
    <3>4. QED
      BY <2>2, <3>1, <3>2, <3>3 DEF Marked
  <2>4. ASSUME NEW u \in User, u # v, NEW r \in Settled(u) PROVE r \in Settled(u)'
    <3>1. r \in Ssid /\ r \notin stranded /\ session[r] = u
      BY DEF Settled, SessionsOf
    <3>2. owner[r] = u
      BY <3>1, NoneIsNobody DEF Owners
    <3>3. session'[r] = u
      BY <2>1, <2>2, <2>4, <3>1, <3>2
    <3>4. QED
      BY <1>1, <3>1, <3>3 DEF Settled, SessionsOf
  <2>5. \A h \in Gateway, u \in User : Unmarking(h, u) => Unmarking(h, u)'
    BY <1>1, <2>2 DEF Unmarking, Idle
  <2>6. ASSUME crashes' = 0, NEW u \in status'
        PROVE  Settled(u)' # {} \/ \E h \in Gateway : Unmarking(h, u)'
    <3>1. CASE u = v
      BY <2>2, <3>1 DEF Unmarking
    <3>2. CASE u # v
      <4>1. u \in User /\ u \in status /\ crashes = 0
        BY <1>1, <2>6 DEF TypeOK
      <4>2. Settled(u) # {} \/ \E h \in Gateway : Unmarking(h, u)
        BY <4>1 DEF Marked, MarkSettled
      <4>3. QED
        BY <2>4, <2>5, <3>2, <4>1, <4>2
    <3>3. QED
      BY <3>1, <3>2
  <2>7. QED
    BY <2>3, <2>6 DEF Marked, MarkSettled
<1>4. QED
  BY <1>2, <1>3

LEMMA RemoveStatusMarked ==
  ASSUME TypeOK, Marked, NEW g \in Gateway, RemoveStatus(g)
  PROVE  Marked'
<1>1. UNCHANGED <<session, login, stranded, crashes>>
      /\ status' = status \ {task[g].uid}
  BY DEF RemoveStatus, history
<1>2. \A l \in Login : Granted(l)' => session'[login'[l].ssid] = login'[l].uid
  BY <1>1 DEF Marked, Granted
<1>3. \A h \in Gateway, u \in User : Unmarking(h, u) /\ u # task[g].uid => Unmarking(h, u)'
  BY DEF RemoveStatus, TypeOK, Unmarking
<1>4. \A u \in User : Settled(u)' = Settled(u)
  BY <1>1 DEF Settled, SessionsOf
<1>5. status \subseteq User
  BY DEF TypeOK
<1>6. MarkSettled'
  BY <1>1, <1>3, <1>4, <1>5 DEF Marked, MarkSettled
<1>7. QED
  BY <1>2, <1>6 DEF Marked

LEMMA CrashMarked ==
  ASSUME TypeOK, Marked, NEW g \in Gateway, Crash(g)
  PROVE  Marked'
<1>1. crashes' # 0
  BY DEF Crash, TypeOK
<1>2. \A l \in Login : Granted(l)' => session'[login'[l].ssid] = login'[l].uid
  BY DEF Marked, Granted, Crash, redis
<1>3. QED
  BY <1>1, <1>2 DEF Marked, MarkSettled

-------------------------------------------------------------------------------
(* The inductive invariant                                                   *)

LEMMA InitIInv == Init => IInv
<1> SUFFICES ASSUME Init PROVE IInv
  OBVIOUS
<1> USE NoneIsNobody
<1>1. Idle.at = "idle" /\ \A l \in Login : login[l] = Idle
  BY DEF Init, Idle
<1>2. TypeOK
  BY GatewayConstants DEF Init, TypeOK, GatewayConstants
<1>3. Owners
  BY <1>1 DEF Init, Owners, Asking, Granted
<1>4. Places
  BY FS_EmptySet DEF Init, Places, Registered, Handled
<1>5. Named
  BY DEF Init, Named
<1>6. ASSUME NEW u \in User PROVE Turn(u) /\ Live(u) /\ Backed(u) /\ Reached(u)
  <2>1. \A s \in Ssid : session[s] # u
    BY DEF Init
  <2>2. \A g \in Gateway : task[g].at = "idle"
    BY <1>1 DEF Init
  <2>3. Turn(u)
    BY <1>1, <2>1, <2>2 DEF Turn, Passed, Unmarking, Holds
  <2>4. Live(u) /\ Backed(u) /\ Reached(u)
    BY <2>2 DEF Init, Live, Backed, Reached
  <2>5. QED
    BY <2>3, <2>4
<1>7. Marked
  BY <1>1 DEF Init, Marked, Granted, MarkSettled
<1>8. QED
  BY <1>2, <1>3, <1>4, <1>5, <1>6, <1>7 DEF IInv, Turns

\* Each action by itself.
LEMMA LoginKeeps ==
  ASSUME IInv, Grows, NEW l \in Login, LoginStep(l) \/ LoginDies(l) \/ \E u \in User : Call(l, u)
  PROVE  IInv'
<1> USE DEF IInv
<1>1. UNCHANGED <<registry, task>>
  BY DEF LoginStep, CheckMark, AppendSession, AppendStatus, AnswerLogin, LoginDies, Call
<1>2. TypeOK' /\ Owners'
  BY CallTyped, CheckMarkTyped, AppendSessionTyped, AppendStatusTyped, AnswerLoginTyped,
     LoginDiesTyped DEF LoginStep
<1>3. Places' /\ Named' /\ Marked'
  BY <1>1, LoginPlaced, NamedKept, LoginMarked
<1>4. ASSUME NEW u \in User, Orderly(u)'
      PROVE  Turn(u)' /\ Live(u)' /\ Backed(u)' /\ Reached(u)'
  <2>1. Turn(u) /\ Live(u) /\ Backed(u) /\ Reached(u)
    BY <1>4, WasOrderly DEF Turns
  <2>2. Turn(u)'
    BY <1>4, <2>1, CallTurn, CheckMarkTurn, AppendSessionTurn, AppendStatusTurn,
       AnswerLoginTurn, LoginDiesTurn DEF LoginStep
  <2>3. Live(u)' /\ Backed(u)' /\ Reached(u)'
    BY <1>1, <2>1, LoginLive, LoginBacked, ReachedKept
  <2>4. QED
    BY <2>2, <2>3
<1>5. QED
  BY <1>2, <1>3, <1>4 DEF Turns

LEMMA NetworkKeeps ==
  ASSUME IInv, Grows, NEW c \in Conn, Lose(c) \/ \E g \in Gateway : Open(c, g)
  PROVE  IInv'
<1> USE DEF IInv
<1>1. UNCHANGED <<redis, login, registry, task, stranded, crashes>>
  BY DEF Lose, Open, history
<1>2. \A g \in Gateway, u \in User : Unmarking(g, u)' <=> Unmarking(g, u)
  BY <1>1 DEF Unmarking
<1>3. TypeOK' /\ Owners' /\ Places' /\ Named' /\ Marked'
  BY <1>1, <1>2, NetworkTyped, NetworkPlaced, NamedKept, BystanderMarked
<1>4. ASSUME NEW u \in User, Orderly(u)'
      PROVE  Turn(u)' /\ Live(u)' /\ Backed(u)' /\ Reached(u)'
  <2>1. Orderly(u) /\ Turn(u) /\ Live(u) /\ Backed(u) /\ Reached(u)
    BY <1>4, WasOrderly DEF Turns
  <2>2. Turn(u)'
    BY <1>1, <1>2, <2>1, BystanderTurn
  <2>3. Live(u)'
    BY <1>1, <2>1, NetworkLive
  <2>4. Backed(u)'
    BY <1>1, <2>1, BystanderBacked DEF Leaving, redis
  <2>5. Reached(u)'
    BY <1>1, <2>1, ReachedKept
  <2>6. QED
    BY <2>2, <2>3, <2>4, <2>5
<1>5. QED
  BY <1>3, <1>4 DEF Turns

LEMMA OnMessageKeeps ==
  ASSUME IInv, Grows, NEW g \in Gateway, NEW c \in Conn, NEW s \in Ssid, OnMessage(g, c, s)
  PROVE  IInv'
<1> USE DEF IInv
<1>1. UNCHANGED <<redis, login, registry, stranded, crashes>>
  BY DEF OnMessage
<1>2. \A h \in Gateway, u \in User : Unmarking(h, u)' <=> Unmarking(h, u)
  <2>1. UNCHANGED task \/ Accept(g, c, s)
    BY DEF OnMessage
  <2>2. task[g].at # "status"
    BY DEF OnMessage, Idle
  <2>3. CASE UNCHANGED task
    BY <2>3 DEF Unmarking
  <2>4. CASE Accept(g, c, s)
    <3>1. task'[g].at = "insert" /\ \A h \in Gateway : h # g => task'[h] = task[h]
      BY <2>4 DEF Accept, TypeOK
    <3>2. QED
      BY <2>2, <3>1 DEF Unmarking
  <2>5. QED
    BY <2>1, <2>3, <2>4
<1>3. \A h \in Gateway, u \in User : Leaving(h, u) => Leaving(h, u)'
  <2>1. \A h \in Gateway : h # g => task'[h] = task[h]
    BY DEF OnMessage, Accept, TypeOK
  <2>2. task[g].at = "idle"
    BY DEF OnMessage, Idle
  <2>3. QED
    BY <2>1, <2>2 DEF Leaving
<1>4. TypeOK' /\ Owners' /\ Places' /\ Named' /\ Marked'
  BY <1>1, <1>2, OnMessageTyped, OnMessagePlaced, NamedKept, BystanderMarked
<1>5. ASSUME NEW u \in User, Orderly(u)'
      PROVE  Turn(u)' /\ Live(u)' /\ Backed(u)' /\ Reached(u)'
  <2>1. Orderly(u) /\ Turn(u) /\ Live(u) /\ Backed(u) /\ Reached(u)
    BY <1>5, WasOrderly DEF Turns
  <2>2. Turn(u)'
    BY <1>1, <1>2, <2>1, BystanderTurn
  <2>3. Live(u)'
    BY <2>1, OnMessageLive
  <2>4. Backed(u)'
    BY <1>1, <1>3, <2>1, BystanderBacked DEF redis
  <2>5. Reached(u)'
    BY <1>1, <2>1, ReachedKept
  <2>6. QED
    BY <2>2, <2>3, <2>4, <2>5
<1>6. QED
  BY <1>4, <1>5 DEF Turns

LEMMA InsertKeeps ==
  ASSUME IInv, Grows, NEW g \in Gateway, Insert(g)
  PROVE  IInv'
<1> USE DEF IInv
<1>1. UNCHANGED <<redis, login, stranded, crashes>>
  BY DEF Insert, history
<1>2. \A h \in Gateway, u \in User : Unmarking(h, u)' <=> Unmarking(h, u)
  <2>1. task[g].at = "insert" /\ Idle.at = "idle"
        /\ \A h \in Gateway : task'[h] = IF h = g THEN Idle ELSE task[h]
    BY InsertEffect DEF Idle
  <2>2. QED
    BY <2>1 DEF Unmarking
<1>3. TypeOK' /\ Owners' /\ Places' /\ Named' /\ Marked'
  BY <1>1, <1>2, InsertTyped, InsertPlaced, InsertNamed, BystanderMarked
<1>4. ASSUME NEW u \in User, Orderly(u)'
      PROVE  Turn(u)' /\ Live(u)' /\ Backed(u)' /\ Reached(u)'
  <2>1. Orderly(u) /\ Turn(u) /\ Live(u) /\ Backed(u) /\ Reached(u)
    BY <1>4, WasOrderly DEF Turns
  <2>2. Turn(u)'
    BY <1>1, <1>2, <2>1, BystanderTurn
  <2>3. Live(u)'
    BY <2>1, InsertLive
  <2>4. Backed(u)'
    BY <2>1, InsertBacked
  <2>5. Reached(u)'
    BY <2>1, InsertReached
  <2>6. QED
    BY <2>2, <2>3, <2>4, <2>5
<1>5. QED
  BY <1>3, <1>4 DEF Turns

LEMMA OnCloseKeeps ==
  ASSUME IInv, Grows, NEW g \in Gateway, NEW c \in Conn, OnClose(g, c)
  PROVE  IInv'
<1> USE DEF IInv
<1>1. UNCHANGED registry
  BY DEF OnClose
<1>2. TypeOK' /\ Owners' /\ Places' /\ Named' /\ Marked'
  BY <1>1, OnCloseTyped, OnClosePlaced, NamedKept, OnCloseMarked
<1>3. ASSUME NEW u \in User, Orderly(u)'
      PROVE  Turn(u)' /\ Live(u)' /\ Backed(u)' /\ Reached(u)'
  <2>1. Orderly(u) /\ Turn(u) /\ Live(u) /\ Backed(u) /\ Reached(u)
    BY <1>3, WasOrderly DEF Turns
  <2>2. Turn(u)'
    BY <2>1, OnCloseTurn
  <2>3. Live(u)'
    BY <2>1, OnCloseLive
  <2>4. Backed(u)'
    BY <2>1, OnCloseBacked
  <2>5. Reached(u)'
    BY <1>1, <2>1, ReachedKept
  <2>6. QED
    BY <2>2, <2>3, <2>4, <2>5
<1>4. QED
  BY <1>2, <1>3 DEF Turns

LEMMA RemoveStatusKeeps ==
  ASSUME IInv, Grows, NEW g \in Gateway, RemoveStatus(g)
  PROVE  IInv'
<1> USE DEF IInv
<1>1. UNCHANGED <<session, registry>>
  BY DEF RemoveStatus
<1>2. \A h \in Gateway, u \in User : Leaving(h, u) => Leaving(h, u)'
  BY DEF RemoveStatus, Leaving, TypeOK
<1>3. TypeOK' /\ Owners' /\ Places' /\ Named' /\ Marked'
  BY <1>1, RemoveStatusTyped, RemoveStatusPlaced, NamedKept, RemoveStatusMarked
<1>4. ASSUME NEW u \in User, Orderly(u)'
      PROVE  Turn(u)' /\ Live(u)' /\ Backed(u)' /\ Reached(u)'
  <2>1. Orderly(u) /\ Turn(u) /\ Live(u) /\ Backed(u) /\ Reached(u)
    BY <1>4, WasOrderly DEF Turns
  <2>2. Turn(u)'
    BY <2>1, RemoveStatusTurn
  <2>3. Live(u)'
    BY <2>1, RemoveStatusLive
  <2>4. Backed(u)'
    BY <1>1, <1>2, <2>1, BystanderBacked
  <2>5. Reached(u)'
    BY <1>1, <2>1, ReachedKept
  <2>6. QED
    BY <2>2, <2>3, <2>4, <2>5
<1>5. QED
  BY <1>3, <1>4 DEF Turns

LEMMA RemoveKeeps ==
  ASSUME IInv, Grows, NEW g \in Gateway, Remove(g)
  PROVE  IInv'
<1> USE DEF IInv
<1>1. UNCHANGED <<redis, login, stranded, crashes>>
  BY DEF Remove, history
<1>2. \A h \in Gateway, u \in User : Unmarking(h, u)' <=> Unmarking(h, u)
  BY RemoveEffect DEF Unmarking, Idle
<1>3. TypeOK' /\ Owners' /\ Places' /\ Named' /\ Marked'
  BY <1>1, <1>2, RemoveTyped, RemovePlaced, RemoveNamed, BystanderMarked
<1>4. ASSUME NEW u \in User, Orderly(u)'
      PROVE  Turn(u)' /\ Live(u)' /\ Backed(u)' /\ Reached(u)'
  <2>1. Orderly(u) /\ Turn(u) /\ Live(u) /\ Backed(u) /\ Reached(u)
    BY <1>4, WasOrderly DEF Turns
  <2>2. Turn(u)'
    BY <1>1, <1>2, <2>1, BystanderTurn
  <2>3. Live(u)'
    BY <2>1, RemoveLive
  <2>4. Backed(u)'
    BY <2>1, RemoveBacked
  <2>5. Reached(u)'
    BY <2>1, RemoveReached
  <2>6. QED
    BY <2>2, <2>3, <2>4, <2>5
<1>5. QED
  BY <1>3, <1>4 DEF Turns

LEMMA CrashKeeps ==
  ASSUME IInv, Grows, NEW g \in Gateway, Crash(g)
  PROVE  IInv'
<1> USE DEF IInv
<1>1. UNCHANGED <<redis, login, stranded>>
  BY DEF Crash
<1>2. \A h \in Gateway, u \in User : Unmarking(h, u)' => Unmarking(h, u)
  BY CrashEffect DEF Unmarking, Idle
<1>3. TypeOK' /\ Owners' /\ Places' /\ Named' /\ Marked'
  BY CrashTyped, CrashPlaced, CrashNamed, CrashMarked
<1>4. ASSUME NEW u \in User, Orderly(u)'
      PROVE  Turn(u)' /\ Live(u)' /\ Backed(u)' /\ Reached(u)'
  <2>1. Orderly(u) /\ Turn(u) /\ Live(u) /\ Backed(u) /\ Reached(u)
    BY <1>4, WasOrderly DEF Turns
  <2>2. Turn(u)'
    BY <1>1, <1>2, <2>1, BystanderTurn
  <2>3. Live(u)'
    BY <2>1, CrashLive
  <2>4. Backed(u)'
    BY <2>1, CrashBacked
  <2>5. Reached(u)'
    BY <2>1, CrashReached
  <2>6. QED
    BY <2>2, <2>3, <2>4, <2>5
<1>5. QED
  BY <1>3, <1>4 DEF Turns

LEMMA StutterKeeps ==
  ASSUME IInv, UNCHANGED vars
  PROVE  IInv'
<1> USE DEF IInv, vars, redis, registry, history
<1>1. TypeOK'
  BY DEF TypeOK
<1>2. Owners'
  BY DEF Owners, Asking, Granted
<1>3. Places' /\ Named'
  BY DEF Places, Registered, Handled, Named, Names, Single
<1>4. Turns'
  BY DEF Turns, Orderly, Turn, Live, Backed, Reached, Passed, Marking, Holds, Unmarking,
     Closing, Shows, Leaving
<1>5. Marked'
  BY DEF Marked, MarkSettled, Settled, SessionsOf, Granted, Unmarking
<1>6. QED
  BY <1>1, <1>2, <1>3, <1>4, <1>5

\* IInv is an invariant.
THEOREM Inductive == Spec => []IInv
<1>1. ASSUME IInv, [Next]_vars PROVE IInv'
  <2>1. CASE Next
    <3>1. Grows
      BY <1>1, <2>1, StepGrows DEF IInv
    <3>2. QED
      BY <1>1, <2>1, <3>1, LoginKeeps, NetworkKeeps, OnMessageKeeps, InsertKeeps, OnCloseKeeps,
         RemoveStatusKeeps, RemoveKeeps, CrashKeeps DEF Next
  <2>2. CASE UNCHANGED vars
    BY <1>1, <2>2, StutterKeeps
  <2>3. QED
    BY <1>1, <2>1, <2>2
<1>2. QED
  BY InitIInv, <1>1, PTL DEF Spec

-------------------------------------------------------------------------------
(* What follows                                                              *)

\* Every variable keeps its type, and every session id a client has got has an owner.
THEOREM TypeCorrect == Spec => []TypeOK
<1>1. IInv => TypeOK
  BY DEF IInv
<1>2. QED
  BY <1>1, Inductive, PTL

LEMMA AtMostOne ==
  ASSUME NEW S, \A x, y \in S : x = y
  PROVE  Cardinality(S) <= 1
<1>1. CASE S = {}
  BY <1>1, FS_EmptySet
<1>2. ASSUME NEW x \in S PROVE Cardinality(S) <= 1
  <2>1. S = {x}
    OBVIOUS
  <2>2. QED
    BY <2>1, FS_Singleton
<1>3. QED
  BY <1>1, <1>2

LEMMA CountedSingle ==
  ASSUME Places, NEW g \in Gateway, NoReauth(g)
  PROVE  Single(g)
<1> SUFFICES ASSUME NEW c \in Conn, home[c] = g, NEW s \in shown[c], NEW t \in shown[c], s # t
             PROVE  FALSE
  BY DEF Single
<1>1. IsFiniteSet(shown[c]) /\ Cardinality(shown[c]) <= 1
  BY DEF Places, NoReauth
<1>2. {s, t} \subseteq shown[c]
  OBVIOUS
<1>3. IsFiniteSet({s}) /\ Cardinality({s}) = 1
  BY FS_Singleton
<1>4. Cardinality({s} \cup {t}) = Cardinality({s}) + 1
  BY <1>3, FS_AddElement
<1>5. {s, t} = {s} \cup {t}
  OBVIOUS
<1>6. Cardinality({s, t}) <= Cardinality(shown[c]) /\ Cardinality(shown[c]) \in Nat
  BY <1>1, <1>2, FS_Subset, FS_CardinalityType
<1>7. QED
  BY <1>1, <1>3, <1>4, <1>5, <1>6

\* An orderly user never has two sessions, counting those whose id he can have been told,
\* also when logins die half-way.
THEOREM OneSession == Spec => []OneSessionPerUser
<1>1. ASSUME IInv PROVE OneSessionPerUser
  <2> SUFFICES ASSUME NEW u \in User, Orderly(u)
               PROVE  Cardinality(SessionsOf(u)) <= 1
    BY DEF OneSessionPerUser
  <2>1. \A s, t \in SessionsOf(u) : s = t
    BY <1>1 DEF IInv, Turns, Turn, SessionsOf, Holds
  <2>2. QED
    BY <2>1, AtMostOne
<1>2. QED
  BY <1>1, Inductive, PTL

\* As long as no gateway dies, a login mark has a session or a closing behind it.
THEOREM MarksAreCovered == Spec => []MarkHasSession
<1>1. IInv => MarkHasSession
  BY DEF IInv, Marked, MarkSettled, MarkHasSession, Settled, Unmarking
<1>2. QED
  BY <1>1, Inductive, PTL

\* On a gateway none of whose connections was authenticated with two session ids, a push
\* is sent to a registered connection of its user.
THEOREM PushesGoToOwners == Spec => []PushGoesToOwner
<1>1. ASSUME IInv PROVE PushGoesToOwner
  BY <1>1, CountedSingle DEF IInv, PushGoesToOwner, Named, Names
<1>2. QED
  BY <1>1, Inductive, PTL

\* A gateway whose connections are all gone, none of which was authenticated with two
\* session ids, has an empty registry.
THEOREM RegistriesDrain == Spec => []RegistryDrains
<1>1. ASSUME IInv PROVE RegistryDrains
  <2> SUFFICES ASSUME NEW g \in Gateway, NoReauth(g), \A c \in Conn : home[c] = g => wire[c] = "gone"
               PROVE  /\ \A u \in User : uidConn[g][u] = None
                      /\ \A c \in Conn : home[c] = g => client[c] = NoClient
    BY DEF RegistryDrains
  <2>1. \A c \in Conn : home[c] = g => client[c] = NoClient
    BY <1>1 DEF IInv, Places, Registered
  <2>2. ASSUME NEW u \in User, uidConn[g][u] # None PROVE FALSE
    <3>1. uidConn[g][u] \in Conn /\ Single(g)
      BY <1>1, <2>2, CountedSingle DEF IInv, TypeOK
    <3>2. Names(g, u, uidConn[g][u])
      BY <1>1, <2>2, <3>1 DEF IInv, Named
    <3>3. QED
      BY <2>1, <3>1, <3>2 DEF Names
  <2>3. QED
    BY <2>1, <2>2
<1>2. QED
  BY <1>1, Inductive, PTL

\* An orderly user with an authenticated connection has a session and can be reached,
\* whatever other users do on the same gateway.
THEOREM ConnectedAreServed == Spec => []ConnectedIsServed
<1>1. ASSUME IInv PROVE ConnectedIsServed
  <2> SUFFICES ASSUME NEW c \in Conn, Authenticated(c), Orderly(client[c].uid)
               PROVE  Served(c)
    BY DEF ConnectedIsServed
  <2> DEFINE u == client[c].uid
  <2>1. client[c] # NoClient /\ u \in User /\ home[c] \in Gateway
    BY <1>1, ClientForm DEF IInv, Authenticated, Places, Registered
  <2>2. Live(u) /\ Reached(u)
    BY <1>1, <2>1 DEF IInv, Turns
  <2>3. ~Closing(c)
    BY <1>1, TaskForm DEF IInv, Authenticated, Busy, Closing
  <2>4. QED
    BY <2>1, <2>2, <2>3 DEF Live, Reached, Served
<1>2. QED
  BY <1>1, Inductive, PTL
===============================================================================
