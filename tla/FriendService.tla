----------------------------- MODULE FriendService -----------------------------
(***************************************************************************)
(* Friend applications, friendships and chats: the Friend service          *)
(* (friend/source/friend_server.hpp) on its MySQL tables relation,         *)
(* friend_apply, chat_session and chat_session_member.                     *)
(*                                                                         *)
(* A worker is one running handler.  Each call on a table is a transaction *)
(* of its own, so other handlers run between two of them, one of them may  *)
(* fail while the earlier ones stay committed, and the process may die in  *)
(* between.  No table has a unique key on a pair of users.                 *)
(***************************************************************************)
EXTENDS Integers, FiniteSets

CONSTANTS
  User,
  Session,    \* the chat ids uuid() hands out, one per new chat
  Worker,     \* handlers that run at the same time
  MaxCall,    \* bound: requests, in all
  MaxFault    \* bound: failed transactions and crashes, in all

ASSUME FriendConstants == MaxCall \in Nat /\ MaxFault \in Nat /\ IsFiniteSet(User)

VARIABLES
  relation,   \* relation[u][p]: rows of relation with user_id u, peer_id p
  apply,      \* apply[u][p]: rows of friend_apply in which u asks p
  kind,       \* kind[s]: chat_session_type of s, "none" without a row
  members,    \* members[s]: users with a row in chat_session_member for s
  call,       \* call[w]: the request w works on and the table call it is at
  used,       \* chat ids given out
  calls,      \* requests so far
  faults,     \* failed transactions and crashes so far
  asked,      \* history: <<u, p>> such that u asked p
  agreed,     \* history: <<u, p>> such that p sent an agreement to u's request
  crossed,    \* history: pairs one of whom asked while the other's request was open
  torn,       \* history: pairs who lost their chat of two without ending their friendship
  overlap     \* history: TRUE once two handlers have run at the same time

tables == <<relation, apply, kind, members>>
history == <<asked, agreed, crossed, torn>>
vars == <<tables, call, used, calls, faults, history, overlap>>

Pair == {q \in User \X User : q[1] # q[2]}
Rows == [User -> [User -> Nat]]
Idle == [op |-> "idle"]
Calls ==
  {Idle}
  \cup [op : {"add"}, u : User, p : User, at : {"relation", "apply", "insert"}]
  \cup [op : {"agree"}, u : User, p : User, s : Session,
        at : {"apply", "remove", "relation", "session", "members"}]
  \cup [op : {"refuse"}, u : User, p : User, at : {"apply", "remove"}]
  \cup [op : {"unfriend"}, u : User, p : User, at : {"relation", "session"}]
  \cup [op : {"create"}, s : Session, list : SUBSET User, at : {"session", "members", "del"}]
  \cup [op : {"kick"}, s : Session, u : User, at : {"members", "del"}]

TypeOK ==
  /\ relation \in Rows
  /\ apply \in Rows
  /\ kind \in [Session -> {"none", "single", "group"}]
  /\ members \in [Session -> SUBSET User]
  /\ call \in [Worker -> Calls]
  /\ used \subseteq Session
  /\ calls \in 0 .. MaxCall
  /\ faults \in 0 .. MaxFault
  /\ {asked, agreed, crossed, torn} \subseteq SUBSET (User \X User)
  /\ overlap \in BOOLEAN

NoRows == [u \in User |-> [p \in User |-> 0]]

Init ==
  /\ relation = NoRows
  /\ apply = NoRows
  /\ kind = [s \in Session |-> "none"]
  /\ members = [s \in Session |-> {}]
  /\ call = [w \in Worker |-> Idle]
  /\ used = {}
  /\ calls = 0
  /\ faults = 0
  /\ asked = {} /\ agreed = {} /\ crossed = {} /\ torn = {}
  /\ overlap = FALSE

-------------------------------------------------------------------------------
(* The table classes (common/mysql_*.hpp)                                    *)

\* Mutant: the condition on chat_session_type is missing.
SingleChatsAnyKind(u, p) ==
  {s \in Session : kind[s] # "none" /\ {u, p} \subseteq members[s]}

\* The chats of two that SingleChatSession finds for u and p.
SingleChats(u, p) ==
  {s \in Session : kind[s] = "single" /\ {u, p} \subseteq members[s]}

\* Mutants: only one row is written, or erased.
InsertOneRelation(u, p) == relation' = [relation EXCEPT ![u][p] = @ + 1]
RemoveOneRelation(u, p) == relation' = [relation EXCEPT ![u][p] = 0]

\* RelationTable::insert and remove: both directions in one transaction.
InsertRelation(u, p) ==
  relation' = [relation EXCEPT ![u][p] = @ + 1, ![p][u] = @ + 1]
RemoveRelation(u, p) ==
  relation' = [relation EXCEPT ![u][p] = 0, ![p][u] = 0]

\* Mutant: the rows of the members stay.
RemoveSessionOnly(s) ==
  /\ kind' = [kind EXCEPT ![s] = "none"]
  /\ UNCHANGED members

\* ChatSessionTable::remove: the row of the chat and those of its members.
RemoveSession(s) ==
  /\ kind' = [kind EXCEPT ![s] = "none"]
  /\ members' = [members EXCEPT ![s] = {}]

-------------------------------------------------------------------------------
(* How a handler goes on after a transaction                                 *)

At(w, op, at) == call[w] # Idle /\ call[w].op = op /\ call[w].at = at
Goto(w, at) == call' = [call EXCEPT ![w].at = at]
Answer(w) == call' = [call EXCEPT ![w] = Idle]
Fault == faults < MaxFault /\ faults' = faults + 1
Kept == UNCHANGED <<used, calls, history, overlap>>

\* A request reaches an idle worker.
Start(w, request) ==
  /\ call[w] = Idle /\ calls < MaxCall
  /\ calls' = calls + 1
  /\ call' = [call EXCEPT ![w] = request]
  /\ overlap' = (overlap \/ \E v \in Worker \ {w} : call[v] # Idle)

\* exists(): a query that fails counts as "no such row".
Exists(w, rows, then, else) ==
  /\ \/ rows > 0 /\ then /\ UNCHANGED faults
     \/ rows = 0 /\ else /\ UNCHANGED faults
     \/ Fault /\ else
  /\ UNCHANGED tables

\* insert(), append(), remove(): the transaction commits and the handler goes on,
\* or fails, possibly after the commit, and the handler answers with an error.
Transact(w, effect, then) ==
  \/ effect /\ then /\ UNCHANGED faults
  \/ (effect \/ UNCHANGED tables) /\ Fault /\ Answer(w)

-------------------------------------------------------------------------------
(* FriendAdd: u asks p                                                       *)

CallFriendAdd(w, u, p) ==
  /\ Start(w, [op |-> "add", u |-> u, p |-> p, at |-> "relation"])
  /\ UNCHANGED <<tables, used, faults, history>>

FriendAdd(w) ==
  /\ call[w].op = "add"
  /\ LET u == call[w].u
         p == call[w].p
     IN  \/ /\ At(w, "add", "relation")
            /\ Exists(w, relation[u][p], Answer(w), Goto(w, "apply"))
            /\ UNCHANGED history
         \/ /\ At(w, "add", "apply")
            /\ Exists(w, apply[u][p], Answer(w), Goto(w, "insert"))
            /\ UNCHANGED history
         \/ /\ At(w, "add", "insert")
            /\ Transact(w, apply' = [apply EXCEPT ![u][p] = @ + 1]
                             /\ UNCHANGED <<relation, kind, members>>, Answer(w))
            /\ asked' = asked \cup {<<u, p>>}
            /\ crossed' = IF apply[p][u] > 0 THEN crossed \cup {<<u, p>>, <<p, u>>} ELSE crossed
            /\ UNCHANGED <<agreed, torn>>
  /\ UNCHANGED <<used, calls, overlap>>

-------------------------------------------------------------------------------
(* FriendAddProcess: p answers u's request                                   *)

CallFriendAddProcess(w, u, p) ==
  /\ \/ \E s \in Session \ used :
          /\ Start(w, [op |-> "agree", u |-> u, p |-> p, s |-> s, at |-> "apply"])
          /\ used' = used \cup {s}
          /\ agreed' = agreed \cup {<<u, p>>}
     \/ /\ Start(w, [op |-> "refuse", u |-> u, p |-> p, at |-> "apply"])
        /\ UNCHANGED <<used, agreed>>
  /\ UNCHANGED <<tables, faults, asked, crossed, torn>>

\* Mutant: the result of exists() is not looked at.
TakeApplyUnseen(w) ==
  /\ call[w].op \in {"agree", "refuse"}
  /\ call[w].at \in {"apply", "remove"}
  /\ Transact(w, apply' = [apply EXCEPT ![call[w].u][call[w].p] = 0]
                   /\ UNCHANGED <<relation, kind, members>>,
              IF call[w].op = "agree" THEN Goto(w, "relation") ELSE Answer(w))
  /\ Kept

\* The application is looked up and erased, whatever the answer is.
TakeApply(w) ==
  /\ call[w].op \in {"agree", "refuse"}
  /\ LET u == call[w].u
         p == call[w].p
     IN  \/ /\ call[w].at = "apply"
            /\ Exists(w, apply[u][p], Goto(w, "remove"), Answer(w))
         \/ /\ call[w].at = "remove"
            /\ Transact(w, apply' = [apply EXCEPT ![u][p] = 0]
                             /\ UNCHANGED <<relation, kind, members>>,
                        IF call[w].op = "agree" THEN Goto(w, "relation") ELSE Answer(w))
  /\ Kept

\* An agreement makes the friendship, then the chat, then its two members.
MakeFriends(w) ==
  /\ call[w].op = "agree"
  /\ LET u == call[w].u
         p == call[w].p
         s == call[w].s
     IN  \/ /\ At(w, "agree", "relation")
            /\ Transact(w, InsertRelation(p, u) /\ UNCHANGED <<apply, kind, members>>,
                        Goto(w, "session"))
         \/ /\ At(w, "agree", "session")
            /\ Transact(w, kind' = [kind EXCEPT ![s] = "single"]
                             /\ UNCHANGED <<relation, apply, members>>,
                        Goto(w, "members"))
         \/ /\ At(w, "agree", "members")
            /\ Transact(w, members' = [members EXCEPT ![s] = {u, p}]
                             /\ UNCHANGED <<relation, apply, kind>>, Answer(w))
  /\ Kept

-------------------------------------------------------------------------------
(* FriendRemove: u and p are friends no more                                 *)

CallFriendRemove(w, u, p) ==
  /\ Start(w, [op |-> "unfriend", u |-> u, p |-> p, at |-> "relation"])
  /\ UNCHANGED <<tables, used, faults, history>>

\* The chat of two s goes, or loses u, while its two may still be friends.
Tear(s) == torn' = torn \cup {q \in Pair : {q[1], q[2]} \subseteq members[s]}

\* ChatSessionTable::remove takes the first chat that query_one finds (its assertion
\* that there is one is compiled out, friend/CMakeLists.txt), and reads through a null
\* pointer if it finds none: every running handler dies with the process.  Of a user
\* and himself it finds any chat of two that he is in.
FriendRemove(w) ==
  /\ call[w].op = "unfriend"
  /\ LET u == call[w].u
         p == call[w].p
     IN  \/ /\ At(w, "unfriend", "relation")
            /\ Transact(w, RemoveRelation(u, p) /\ UNCHANGED <<apply, kind, members>>,
                        Goto(w, "session"))
            /\ UNCHANGED torn
         \/ /\ At(w, "unfriend", "session")
            /\ \E s \in SingleChats(u, p) :
                 /\ Transact(w, RemoveSession(s) /\ UNCHANGED <<relation, apply>>, Answer(w))
                 /\ IF u = p THEN Tear(s) ELSE UNCHANGED torn
         \/ /\ At(w, "unfriend", "session")
            /\ SingleChats(u, p) = {}
            /\ call' = [v \in Worker |-> Idle]
            /\ UNCHANGED <<tables, faults, torn>>
  /\ UNCHANGED <<used, calls, asked, agreed, crossed, overlap>>

-------------------------------------------------------------------------------
(* ChatSessionCreate and RemoveChatSessionMember                             *)

CallChatSessionCreate(w, list) ==
  /\ \E s \in Session \ used :
       /\ Start(w, [op |-> "create", s |-> s, list |-> list, at |-> "session"])
       /\ used' = used \cup {s}
  /\ UNCHANGED <<tables, faults, history>>

\* Deleting the Redis key session_members:<id> is a step of its own, at which the
\* service may die; what it does is the subject of SessionMemberCache.
ChatSessionCreate(w) ==
  /\ call[w].op = "create"
  /\ LET s == call[w].s IN
       \/ /\ At(w, "create", "session")
          /\ Transact(w, kind' = [kind EXCEPT ![s] = "group"]
                           /\ UNCHANGED <<relation, apply, members>>, Goto(w, "members"))
       \/ /\ At(w, "create", "members")
          /\ \/ /\ members' = [members EXCEPT ![s] = call[w].list]
                /\ UNCHANGED faults
             \/ UNCHANGED members /\ Fault
          /\ Goto(w, "del")
          /\ UNCHANGED <<relation, apply, kind>>
       \/ /\ At(w, "create", "del")
          /\ Answer(w)
          /\ UNCHANGED <<tables, faults>>
  /\ Kept

CallRemoveChatSessionMember(w, s, u) ==
  /\ kind[s] # "none"
  /\ Start(w, [op |-> "kick", s |-> s, u |-> u, at |-> "members"])
  /\ UNCHANGED <<tables, used, faults, history>>

\* Any chat will do, one of two included, and any caller.
RemoveChatSessionMember(w) ==
  /\ call[w].op = "kick"
  /\ LET s == call[w].s IN
       \/ /\ At(w, "kick", "members")
          /\ Transact(w, members' = [members EXCEPT ![s] = @ \ {call[w].u}]
                           /\ UNCHANGED <<relation, apply, kind>>, Goto(w, "del"))
          /\ IF kind[s] = "single" /\ call[w].u \in members[s] THEN Tear(s) ELSE UNCHANGED torn
       \/ /\ At(w, "kick", "del")
          /\ Answer(w)
          /\ UNCHANGED <<tables, faults, torn>>
  /\ UNCHANGED <<used, calls, asked, agreed, crossed, overlap>>

-------------------------------------------------------------------------------
\* The process dies with its handlers and starts again; docker restarts it.
Crash ==
  /\ \E w \in Worker : call[w] # Idle
  /\ call' = [w \in Worker |-> Idle]
  /\ Fault
  /\ UNCHANGED <<tables, used, calls, history, overlap>>

\* Nobody checks that the peer is somebody else.
Request(w) ==
  \/ \E u, p \in User :
       \/ CallFriendAdd(w, u, p)
       \/ CallFriendAddProcess(w, u, p)
       \/ CallFriendRemove(w, u, p)
  \/ \E list \in SUBSET User \ {{}} : CallChatSessionCreate(w, list)
  \/ \E s \in Session, u \in User : CallRemoveChatSessionMember(w, s, u)

Handler(w) ==
  \/ FriendAdd(w) \/ TakeApply(w) \/ MakeFriends(w) \/ FriendRemove(w)
  \/ ChatSessionCreate(w) \/ RemoveChatSessionMember(w)

Next == Crash \/ \E w \in Worker : Request(w) \/ Handler(w)

Spec == Init /\ [][Next]_vars

-------------------------------------------------------------------------------
(* Properties                                                                *)

\* Friendship is mutual at every moment, also between two transactions of a
\* handler, after a failed one and after a crash.
RelationSymmetric == \A u, p \in User : relation[u][p] = relation[p][u]

\* The rows of the members never outlive the row of their chat, however the
\* handlers that make and dissolve chats interleave.
MembersHaveSession == \A s \in Session : kind[s] = "none" => members[s] = {}

\* Two users are friends, or share a chat of two, only if one of them asked and
\* the other agreed.
Consent ==
  \A q \in Pair :
    relation[q[1]][q[2]] > 0 \/ SingleChats(q[1], q[2]) # {} =>
      \E a \in {q, <<q[2], q[1]>>} : a \in asked \cap agreed

\* Ending a friendship leaves the groups of the two alone: a group stays, and
\* loses a member only to RemoveChatSessionMember.
GroupsSurvive ==
  [][\A s \in Session : kind[s] = "group" =>
       /\ kind'[s] = "group"
       /\ \A u \in members[s] \ members'[s] :
            \E w \in Worker : At(w, "kick", "members") /\ call[w].s = s /\ call[w].u = u]_vars

Quiet == \A w \in Worker : call[w] = Idle

\* Friends have one chat of two, and only friends have one, as long as requests have
\* run one at a time and nothing has failed, except for two whose requests crossed and
\* two whose chat was torn: one of them taken out of it, or "unfriended" himself.  Each
\* exception is one the code leaves open: no table has a unique key on a pair, a
\* friendship and its chat are written in separate transactions, and no handler
\* compares the peer with the caller.
FriendsShareOneChat ==
  Quiet /\ ~overlap /\ faults = 0 =>
    \A q \in Pair \ (crossed \cup torn) :
      relation[q[1]][q[2]] = Cardinality(SingleChats(q[1], q[2]))
===============================================================================
