---------------------------- MODULE GatewaySession ----------------------------
(***************************************************************************)
(* Being logged in and being reachable: UserLogin of the User service, the *)
(* Redis keys of Session and Status (common/data_redis.hpp), and the       *)
(* websocket side of the gateways with their Connection registry           *)
(* (gateway/source/connection.hpp, gateway_server.hpp).                    *)
(*                                                                         *)
(* Redis is shared; every gateway has its own registry and one thread that *)
(* runs its websocket handlers one after the other.  The handlers call     *)
(* Redis several times, and the other gateways and the User service run in *)
(* between.  The keys have no expiry.                                      *)
(***************************************************************************)
EXTENDS Naturals, FiniteSets

CONSTANTS
  User,
  Ssid,       \* login session ids of the User service's generator
  Login,      \* UserLogin handlers that run at the same time
  Gateway,
  Conn,       \* websocket connections
  MaxCrash    \* bound: gateways that die, in all

\* None, below, is nobody and nothing.
ASSUME GatewayConstants ==
  /\ MaxCrash \in Nat
  /\ "none" \notin User \cup Conn \cup Gateway

VARIABLES
  session,    \* session[s]: the user stored under the Redis key s, or None
  status,     \* users with a login mark in Redis
  login,      \* login[l]: the UserLogin handler l
  given,      \* session ids generated so far
  known,      \* session ids a client has got in an answer
  wire,       \* wire[c]: "new", "open", "lost" (onClose is due), "gone"
  home,       \* home[c]: the gateway c is connected to, or None
  uidConn,    \* uidConn[g]: _uid_connections of gateway g
  client,     \* client[c]: the entry of c in _conn_clients, or NoClient
  task,       \* task[g]: the websocket handler g is in the middle of
  owner,      \* history: owner[s], the user UserLogin made s for, or None
  shown,      \* history: shown[c], the session ids c was authenticated with
  raced,      \* history: users of whom two UserLogin handlers ran at once
  stranded,   \* history: session ids whose login died before it set the mark
  crashes     \* history: gateway deaths so far

redis == <<session, status>>
registry == <<uidConn, client>>
history == <<owner, shown, raced, stranded, crashes>>
vars == <<redis, login, given, known, wire, home, registry, task, history>>

None == "none"
NoClient == [uid |-> None, ssid |-> None]
Idle == [at |-> "idle"]

TypeOK ==
  /\ session \in [Ssid -> User \cup {None}]
  /\ status \subseteq User
  /\ login \in [Login -> {Idle} \cup
                 [at : {"exists", "session", "status", "answer"}, uid : User, ssid : Ssid]]
  /\ given \subseteq Ssid
  /\ known \subseteq given
  /\ wire \in [Conn -> {"new", "open", "lost", "gone"}]
  /\ home \in [Conn -> Gateway \cup {None}]
  /\ uidConn \in [Gateway -> [User -> Conn \cup {None}]]
  /\ client \in [Conn -> {NoClient} \cup [uid : User, ssid : Ssid]]
  /\ task \in [Gateway -> {Idle} \cup
                [at : {"insert", "status", "remove"}, conn : Conn, uid : User, ssid : Ssid]]
  /\ owner \in [Ssid -> User \cup {None}]
  /\ shown \in [Conn -> SUBSET known]
  /\ raced \subseteq User
  /\ stranded \subseteq given \ known
  /\ crashes \in 0 .. MaxCrash
  /\ \A s \in known : owner[s] # None

Init ==
  /\ session = [s \in Ssid |-> None]
  /\ status = {}
  /\ login = [l \in Login |-> Idle]
  /\ given = {}
  /\ known = {}
  /\ wire = [c \in Conn |-> "new"]
  /\ home = [c \in Conn |-> None]
  /\ uidConn = [g \in Gateway |-> [u \in User |-> None]]
  /\ client = [c \in Conn |-> NoClient]
  /\ task = [g \in Gateway |-> Idle]
  /\ owner = [s \in Ssid |-> None]
  /\ shown = [c \in Conn |-> {}]
  /\ raced = {}
  /\ stranded = {}
  /\ crashes = 0

-------------------------------------------------------------------------------
(* UserLogin (and PhoneLogin, which ends in the same way)                    *)

\* Name and password are right; a session id is taken from the generator where
\* the code takes it, after the look at the mark, but is chosen here.
Call(l, u) ==
  /\ login[l] = Idle
  /\ \E s \in Ssid \ given :
       /\ login' = [login EXCEPT ![l] = [at |-> "exists", uid |-> u, ssid |-> s]]
       /\ given' = given \cup {s}
  /\ raced' = IF \E k \in Login : login[k] # Idle /\ login[k].uid = u
              THEN raced \cup {u} ELSE raced
  /\ UNCHANGED <<redis, known, wire, home, registry, task, owner, shown, stranded, crashes>>

\* Mutant: the mark is not looked at.
CheckMarkNever(l) ==
  /\ login[l].at = "exists"
  /\ login' = [login EXCEPT ![l].at = "session"]
  /\ UNCHANGED <<redis, given, known, wire, home, registry, task, history>>

\* Somebody with a login mark is refused.
CheckMark(l) ==
  /\ login[l].at = "exists"
  /\ login' = [login EXCEPT ![l] =
       IF login[l].uid \in status THEN Idle ELSE [@ EXCEPT !.at = "session"]]
  /\ UNCHANGED <<redis, given, known, wire, home, registry, task, history>>

AppendSession(l) ==
  /\ login[l].at = "session"
  /\ session' = [session EXCEPT ![login[l].ssid] = login[l].uid]
  /\ owner' = [owner EXCEPT ![login[l].ssid] = login[l].uid]
  /\ login' = [login EXCEPT ![l].at = "status"]
  /\ UNCHANGED <<status, given, known, wire, home, registry, task, shown, raced, stranded, crashes>>

AppendStatus(l) ==
  /\ login[l].at = "status"
  /\ status' = status \cup {login[l].uid}
  /\ login' = [login EXCEPT ![l].at = "answer"]
  /\ UNCHANGED <<session, given, known, wire, home, registry, task, history>>

AnswerLogin(l) ==
  /\ login[l].at = "answer"
  /\ known' = known \cup {login[l].ssid}
  /\ login' = [login EXCEPT ![l] = Idle]
  /\ UNCHANGED <<redis, given, wire, home, registry, task, history>>

\* A Redis call of the handler throws, which nothing catches, or its process dies for
\* another reason.  What is in Redis stays; the client gets no session id.
LoginDies(l) ==
  /\ login[l] # Idle
  /\ login' = [login EXCEPT ![l] = Idle]
  /\ stranded' = IF login[l].at = "status" THEN stranded \cup {login[l].ssid} ELSE stranded
  /\ UNCHANGED <<redis, given, known, wire, home, registry, task, owner, shown, raced, crashes>>

-------------------------------------------------------------------------------
(* Clients and the network                                                   *)

\* onOpen only writes to the log.
Open(c, g) ==
  /\ wire[c] = "new"
  /\ wire' = [wire EXCEPT ![c] = "open"]
  /\ home' = [home EXCEPT ![c] = g]
  /\ UNCHANGED <<redis, login, given, known, registry, task, history>>

\* The client closes the connection or the network loses it; the gateway notices
\* now or much later.
Lose(c) ==
  /\ wire[c] = "open"
  /\ wire' = [wire EXCEPT ![c] = "lost"]
  /\ UNCHANGED <<redis, login, given, known, home, registry, task, history>>

-------------------------------------------------------------------------------
(* The websocket handlers of gateway g                                       *)

Busy(c) == \E g \in Gateway : task[g] # Idle /\ task[g].conn = c

Accept(g, c, s) ==
  /\ task' = [task EXCEPT ![g] = [at |-> "insert", conn |-> c, uid |-> session[s], ssid |-> s]]
  /\ shown' = [shown EXCEPT ![c] = @ \cup {s}]

\* onMessage: a message on c carries the session id s, which may be in use on other
\* connections, and c may be authenticated already; the gateway takes every message
\* for the first one.
OnMessage(g, c, s) ==
  /\ task[g] = Idle
  /\ wire[c] \in {"open", "lost"} /\ home[c] = g
  /\ s \in known
  /\ IF session[s] = None
     THEN /\ wire' = [wire EXCEPT ![c] = "lost"]
          /\ UNCHANGED <<task, shown>>
     ELSE /\ Accept(g, c, s)
          /\ UNCHANGED wire
  /\ UNCHANGED <<redis, login, given, known, home, registry, owner, raced, stranded, crashes>>

\* Mutants: one of the two entries is forgotten; only the connection's entry is
\* erased.
InsertNoUser(g) ==
  /\ task[g].at = "insert"
  /\ LET t == task[g] IN
       client' = [client EXCEPT ![t.conn] =
         IF @ = NoClient THEN [uid |-> t.uid, ssid |-> t.ssid] ELSE @]
  /\ task' = [task EXCEPT ![g] = Idle]
  /\ UNCHANGED <<redis, login, given, known, wire, home, uidConn, history>>

InsertNoClient(g) ==
  /\ task[g].at = "insert"
  /\ LET t == task[g] IN
       uidConn' = [uidConn EXCEPT ![g][t.uid] = IF @ = None THEN t.conn ELSE @]
  /\ task' = [task EXCEPT ![g] = Idle]
  /\ UNCHANGED <<redis, login, given, known, wire, home, client, history>>

RemoveClientOnly(g) ==
  /\ task[g].at = "remove"
  /\ LET t == task[g] IN
       /\ client' = [client EXCEPT ![t.conn] = NoClient]
       /\ wire' = [wire EXCEPT ![t.conn] = "gone"]
  /\ task' = [task EXCEPT ![g] = Idle]
  /\ UNCHANGED <<redis, login, given, known, home, uidConn, history>>

\* Connection::insert: unordered_map::insert leaves an entry that is there alone.
Insert(g) ==
  /\ task[g].at = "insert"
  /\ LET t == task[g] IN
       /\ uidConn' = [uidConn EXCEPT ![g][t.uid] = IF @ = None THEN t.conn ELSE @]
       /\ client' = [client EXCEPT ![t.conn] =
            IF @ = NoClient THEN [uid |-> t.uid, ssid |-> t.ssid] ELSE @]
  /\ task' = [task EXCEPT ![g] = Idle]
  /\ UNCHANGED <<redis, login, given, known, wire, home, history>>

\* onClose: a connection the registry does not know needs nothing; for the others
\* the session goes first ...
OnClose(g, c) ==
  /\ task[g] = Idle
  /\ wire[c] = "lost" /\ home[c] = g
  /\ IF client[c] = NoClient
     THEN /\ wire' = [wire EXCEPT ![c] = "gone"]
          /\ UNCHANGED <<session, task>>
     ELSE /\ session' = [session EXCEPT ![client[c].ssid] = None]
          /\ task' = [task EXCEPT ![g] = [at |-> "status", conn |-> c,
                        uid |-> client[c].uid, ssid |-> client[c].ssid]]
          /\ UNCHANGED wire
  /\ UNCHANGED <<status, login, given, known, home, registry, history>>

\* Mutant of RemoveStatus: the mark stays.
RemoveStatusNot(g) ==
  /\ task[g].at = "status"
  /\ task' = [task EXCEPT ![g].at = "remove"]
  /\ UNCHANGED <<redis, login, given, known, wire, home, registry, history>>

\* ... then the login mark ...
RemoveStatus(g) ==
  /\ task[g].at = "status"
  /\ status' = status \ {task[g].uid}
  /\ task' = [task EXCEPT ![g].at = "remove"]
  /\ UNCHANGED <<session, login, given, known, wire, home, registry, history>>

\* ... then, in Connection::remove, both entries: the user's whichever connection
\* it names.
Remove(g) ==
  /\ task[g].at = "remove"
  /\ LET t == task[g] IN
       /\ uidConn' = [uidConn EXCEPT ![g][t.uid] = None]
       /\ client' = [client EXCEPT ![t.conn] = NoClient]
       /\ wire' = [wire EXCEPT ![t.conn] = "gone"]
  /\ task' = [task EXCEPT ![g] = Idle]
  /\ UNCHANGED <<redis, login, given, known, home, history>>

\* The process dies with its connections and its registry; Redis stays.
Crash(g) ==
  /\ crashes < MaxCrash
  /\ crashes' = crashes + 1
  /\ wire' = [c \in Conn |-> IF home[c] = g THEN "gone" ELSE wire[c]]
  /\ client' = [c \in Conn |-> IF home[c] = g THEN NoClient ELSE client[c]]
  /\ uidConn' = [uidConn EXCEPT ![g] = [u \in User |-> None]]
  /\ task' = [task EXCEPT ![g] = Idle]
  /\ UNCHANGED <<redis, login, given, known, home, owner, shown, raced, stranded>>

-------------------------------------------------------------------------------
LoginStep(l) == CheckMark(l) \/ AppendSession(l) \/ AppendStatus(l) \/ AnswerLogin(l)

Next ==
  \/ \E l \in Login : LoginStep(l) \/ LoginDies(l) \/ \E u \in User : Call(l, u)
  \/ \E c \in Conn : Lose(c)
  \/ \E g \in Gateway, c \in Conn : Open(c, g) \/ OnClose(g, c)
  \/ \E g \in Gateway, c \in Conn, s \in Ssid : OnMessage(g, c, s)
  \/ \E g \in Gateway : Insert(g) \/ RemoveStatus(g) \/ Remove(g) \/ Crash(g)

Spec == Init /\ [][Next]_vars

-------------------------------------------------------------------------------
(* Properties                                                                *)

\* The sessions of u that a client has been told of, or may yet be.
SessionsOf(u) == {s \in Ssid \ stranded : session[s] = u}
Authenticated(c) == wire[c] = "open" /\ client[c] # NoClient /\ ~Busy(c)

\* The user logs in once at a time and shows a session id on one connection only.
Orderly(u) ==
  /\ u \notin raced
  /\ \A c, d \in Conn : \A s \in shown[c] \cap shown[d] : c = d \/ owner[s] # u

\* No connection of g was authenticated with two session ids.
NoReauth(g) == \A c \in Conn : home[c] = g => Cardinality(shown[c]) <= 1

\* "用户已在其他地方登录": an orderly user never has two sessions, whatever the others
\* do and whenever a gateway or a login dies.  (Two logins at once both pass CheckMark,
\* and the close of one of two connections takes the mark from the other.  A login that
\* dies before the mark leaves one more session behind, the stranded one, but its id
\* was never sent to anybody.)
OneSessionPerUser == \A u \in User : Orderly(u) => Cardinality(SessionsOf(u)) <= 1

\* A login mark without a session would lock its user out for good: the mark goes
\* when a connection of a session goes.  So a mark is covered by a session, or by
\* an onClose that is about to remove it.  (A gateway that dies between the two
\* removals of onClose does leave a mark behind; and the session behind the mark of a
\* login that dies before its answer is one nobody can show.)
MarkHasSession ==
  crashes = 0 =>
    \A u \in status :
      \/ SessionsOf(u) # {}
      \/ \E g \in Gateway : task[g].at = "status" /\ task[g].uid = u

\* A push for u is sent on a connection that authenticated as u and that the
\* registry still holds, however sessions, reconnections and closings interleave.
PushGoesToOwner ==
  \A g \in Gateway, u \in User :
    NoReauth(g) /\ uidConn[g][u] # None =>
      LET c == uidConn[g][u] IN client[c] # NoClient /\ client[c].uid = u /\ home[c] = g

\* When the last connection of a gateway is gone, its registry is empty: closed
\* connections are neither kept nor sent to ("移除长连接管理数据").  (A second
\* authentication on a connection, with another user's session, leaves that user's
\* entry behind.)
RegistryDrains ==
  \A g \in Gateway :
    NoReauth(g) /\ (\A c \in Conn : home[c] = g => wire[c] = "gone") =>
      /\ \A u \in User : uidConn[g][u] = None
      /\ \A c \in Conn : home[c] = g => client[c] = NoClient

Served(c) ==
  /\ session[client[c].ssid] = client[c].uid
  /\ uidConn[home[c]][client[c].uid] = c

\* An orderly user who is authenticated on an open connection is reachable over it
\* and has a session that answers requests, whatever the other users do.
ConnectedIsServed ==
  \A c \in Conn :
    Authenticated(c) /\ Orderly(client[c].uid) => Served(c)
===============================================================================
