-------------------------- MODULE FriendServiceProofs --------------------------
(***************************************************************************)
(* The tables of the Friend service, for any users, chats and handlers and *)
(* any number of faults: types, mutual friendship, no members without a    *)
(* chat, groups left alone, no friendship without consent, one chat of two *)
(* for two friends.                                                        *)
(*                                                                         *)
(* RelationSymmetric is inductive given the types.  The properties of the  *)
(* chats are not: they need to know who may write a chat that is being     *)
(* made.  Ownership says that each new chat id belongs to one handler,     *)
(* that the chat has no row before this handler inserts it, and no member  *)
(* before it appends them.  Consent needs, beyond that, what a handler has *)
(* looked up before it got where it is (ConsentInv).                       *)
(*                                                                         *)
(* FriendsShareOneChat speaks of quiet moments.  Its invariant (ShareInv)  *)
(* says at every moment what the tables hold of two users and what the one *)
(* handler at work has made sure of (Ledger), under a condition that, once *)
(* lost, never returns (Calm).                                             *)
(***************************************************************************)
EXTENDS FriendService, FiniteSetTheorems, TLAPS

AddCalls == [op : {"add"}, u : User, p : User, at : {"relation", "apply", "insert"}]
AgreeCalls ==
  [op : {"agree"}, u : User, p : User, s : Session,
   at : {"apply", "remove", "relation", "session", "members"}]
RefuseCalls == [op : {"refuse"}, u : User, p : User, at : {"apply", "remove"}]
UnfriendCalls == [op : {"unfriend"}, u : User, p : User, at : {"relation", "session"}]
CreateCalls ==
  [op : {"create"}, s : Session, list : SUBSET User, at : {"session", "members", "del"}]
KickCalls == [op : {"kick"}, s : Session, u : User, at : {"members", "del"}]

\* What a call can be, by its op.
LEMMA CallShapes ==
  ASSUME TypeOK, NEW w \in Worker
  PROVE  /\ call[w].op = "add" => call[w] \in AddCalls
         /\ call[w].op = "agree" => call[w] \in AgreeCalls
         /\ call[w].op = "refuse" => call[w] \in RefuseCalls
         /\ call[w].op = "unfriend" => call[w] \in UnfriendCalls
         /\ call[w].op = "create" => call[w] \in CreateCalls
         /\ call[w].op = "kick" => call[w] \in KickCalls
<1>1. call[w] \in Calls
  BY DEF TypeOK
<1> QED
  BY <1>1 DEF Calls, Idle, AddCalls, AgreeCalls, RefuseCalls, UnfriendCalls, CreateCalls, KickCalls

LEMMA CallsSplit ==
  Calls = {Idle} \cup AddCalls \cup AgreeCalls \cup RefuseCalls
            \cup UnfriendCalls \cup CreateCalls \cup KickCalls
BY DEF Calls, AddCalls, AgreeCalls, RefuseCalls, UnfriendCalls, CreateCalls, KickCalls

\* A handler that goes on or answers leaves a well-formed call.
LEMMA AnswerType ==
  ASSUME TypeOK, NEW w \in Worker, Answer(w)
  PROVE  call' \in [Worker -> Calls]
BY DEF TypeOK, Answer, Calls

LEMMA GotoType ==
  ASSUME TypeOK, NEW w \in Worker, NEW at,
         \/ call[w].op = "add" /\ at \in {"relation", "apply", "insert"}
         \/ call[w].op = "agree" /\ at \in {"apply", "remove", "relation", "session", "members"}
         \/ call[w].op = "refuse" /\ at \in {"apply", "remove"}
         \/ call[w].op = "unfriend" /\ at \in {"relation", "session"}
         \/ call[w].op = "create" /\ at \in {"session", "members", "del"}
         \/ call[w].op = "kick" /\ at \in {"members", "del"},
         Goto(w, at)
  PROVE  call' \in [Worker -> Calls]
<1> DEFINE c == [call[w] EXCEPT !.at = at]
<1>1. c \in Calls
  <2>1. CASE call[w].op = "add" /\ at \in {"relation", "apply", "insert"}
    <3>1. c \in AddCalls
      BY <2>1, CallShapes DEF AddCalls
    <3> QED
      BY <3>1, CallsSplit
  <2>2. CASE call[w].op = "agree" /\ at \in {"apply", "remove", "relation", "session", "members"}
    <3>1. c \in AgreeCalls
      BY <2>2, CallShapes DEF AgreeCalls
    <3> QED
      BY <3>1, CallsSplit
  <2>3. CASE call[w].op = "refuse" /\ at \in {"apply", "remove"}
    <3>1. c \in RefuseCalls
      BY <2>3, CallShapes DEF RefuseCalls
    <3> QED
      BY <3>1, CallsSplit
  <2>4. CASE call[w].op = "unfriend" /\ at \in {"relation", "session"}
    <3>1. c \in UnfriendCalls
      BY <2>4, CallShapes DEF UnfriendCalls
    <3> QED
      BY <3>1, CallsSplit
  <2>5. CASE call[w].op = "create" /\ at \in {"session", "members", "del"}
    <3>1. c \in CreateCalls
      BY <2>5, CallShapes DEF CreateCalls
    <3> QED
      BY <3>1, CallsSplit
  <2>6. CASE call[w].op = "kick" /\ at \in {"members", "del"}
    <3>1. c \in KickCalls
      BY <2>6, CallShapes DEF KickCalls
    <3> QED
      BY <3>1, CallsSplit
  <2> QED
    BY <2>1, <2>2, <2>3, <2>4, <2>5, <2>6
<1> HIDE DEF c
<1>2. call' = [call EXCEPT ![w] = c]
  BY DEF Goto, c
<1> QED
  BY <1>1, <1>2 DEF TypeOK

LEMMA StartType ==
  ASSUME TypeOK, NEW w \in Worker, NEW c \in Calls, Start(w, c)
  PROVE  call' \in [Worker -> Calls] /\ overlap' \in BOOLEAN /\ calls' \in 0 .. MaxCall
<1>1. calls' \in 0 .. MaxCall
  BY FriendConstants DEF TypeOK, Start
<1> QED
  BY <1>1 DEF TypeOK, Start

-------------------------------------------------------------------------------
(* Types                                                                     *)

LEMMA InitType == Init => TypeOK
<1> SUFFICES ASSUME Init PROVE TypeOK
  OBVIOUS
<1>1. NoRows \in Rows
  BY DEF NoRows, Rows
<1>2. call \in [Worker -> Calls]
  <2>1. Idle \in Calls
    BY DEF Calls
  <2> QED
    BY <2>1 DEF Init
<1>3. kind \in [Session -> {"none", "single", "group"}] /\ members \in [Session -> SUBSET User]
  BY DEF Init
<1>4. used \subseteq Session /\ {asked, agreed, crossed, torn} \subseteq SUBSET (User \X User)
  BY DEF Init
<1>5. faults \in 0 .. MaxFault /\ calls \in 0 .. MaxCall
  BY FriendConstants DEF Init
<1>6. overlap \in BOOLEAN
  BY DEF Init
<1> QED
  BY <1>1, <1>2, <1>3, <1>4, <1>5, <1>6 DEF Init, TypeOK

\* Writing one cell, and two, of a table of rows.
LEMMA CellType ==
  ASSUME NEW t \in Rows, NEW u \in User, NEW p \in User, NEW n \in Nat
  PROVE  [t EXCEPT ![u][p] = n] \in Rows
<1>1. t[u] \in [User -> Nat]
  BY DEF Rows
<1>2. [t[u] EXCEPT ![p] = n] \in [User -> Nat]
  BY <1>1
<1> QED
  BY <1>2 DEF Rows

LEMMA InsertRelationType ==
  ASSUME TypeOK, NEW u \in User, NEW p \in User, InsertRelation(u, p)
  PROVE  relation' \in Rows
<1>1. relation \in Rows /\ relation[u][p] + 1 \in Nat /\ relation[p][u] + 1 \in Nat
  BY DEF TypeOK, Rows
<1> DEFINE t == [relation EXCEPT ![u][p] = relation[u][p] + 1]
<1>2. t \in Rows
  BY <1>1, CellType
<1>3. [t EXCEPT ![p][u] = relation[p][u] + 1] \in Rows
  BY <1>1, <1>2, CellType
<1> QED
  BY <1>3 DEF InsertRelation

LEMMA RemoveRelationType ==
  ASSUME TypeOK, NEW u \in User, NEW p \in User, RemoveRelation(u, p)
  PROVE  relation' \in Rows
<1> DEFINE t == [relation EXCEPT ![u][p] = 0]
<1>1. t \in Rows
  BY CellType DEF TypeOK
<1>2. [t EXCEPT ![p][u] = 0] \in Rows
  BY <1>1, CellType
<1> QED
  BY <1>2 DEF RemoveRelation

\* The part of TypeOK that a handler can disturb.
TablesOK ==
  /\ relation \in Rows
  /\ apply \in Rows
  /\ kind \in [Session -> {"none", "single", "group"}]
  /\ members \in [Session -> SUBSET User]

LEMMA FaultType == ASSUME TypeOK, Fault PROVE faults' \in 0 .. MaxFault
BY FriendConstants DEF TypeOK, Fault

LEMMA TearType == ASSUME TypeOK, NEW s, Tear(s) PROVE torn' \subseteq User \X User
BY DEF TypeOK, Tear, Pair

\* A handler that writes only tables, its own call, the fault counter and torn.
LEMMA HandlerType ==
  ASSUME TypeOK, TablesOK', call' \in [Worker -> Calls], Fault \/ UNCHANGED faults,
         torn' \subseteq User \X User,
         UNCHANGED <<used, calls, asked, agreed, crossed, overlap>>
  PROVE  TypeOK'
<1>1. faults' \in 0 .. MaxFault
  BY FaultType DEF TypeOK
<1> QED
  BY <1>1 DEF TypeOK, TablesOK

LEMMA KeptType ==
  ASSUME TypeOK, TablesOK', call' \in [Worker -> Calls], Fault \/ UNCHANGED faults, Kept
  PROVE  TypeOK'
<1>1. torn' \subseteq User \X User
  BY DEF Kept, history, TypeOK
<1> QED
  BY <1>1, HandlerType DEF Kept, history

LEMMA FriendAddType == ASSUME TypeOK, NEW w \in Worker, FriendAdd(w) PROVE TypeOK'
<1> DEFINE u == call[w].u
           p == call[w].p
<1>1. u \in User /\ p \in User /\ call[w].op = "add"
  BY CallShapes DEF FriendAdd, AddCalls
<1>2. call' \in [Worker -> Calls]
  <2>1. CASE At(w, "add", "relation")
    BY <1>1, <2>1, AnswerType, GotoType DEF FriendAdd, At, Exists
  <2>2. CASE At(w, "add", "apply")
    BY <1>1, <2>2, AnswerType, GotoType DEF FriendAdd, At, Exists
  <2>3. CASE At(w, "add", "insert")
    BY <1>1, <2>3, AnswerType DEF FriendAdd, At, Transact
  <2> QED
    BY <2>1, <2>2, <2>3 DEF FriendAdd
<1>3. Fault \/ UNCHANGED faults
  BY DEF FriendAdd, Exists, Transact
<1>4. faults' \in 0 .. MaxFault
  BY <1>3, FaultType DEF TypeOK
<1>5. TablesOK'
  <2>1. CASE UNCHANGED tables
    BY <2>1 DEF TypeOK, TablesOK, tables
  <2>2. CASE apply' = [apply EXCEPT ![u][p] = @ + 1] /\ UNCHANGED <<relation, kind, members>>
    BY <1>1, <2>2 DEF TypeOK, TablesOK, Rows
  <2> QED
    BY <2>1, <2>2 DEF FriendAdd, Exists, Transact
<1>6. {asked', agreed', crossed', torn'} \subseteq SUBSET (User \X User)
  BY <1>1 DEF TypeOK, FriendAdd, history
<1> QED
  BY <1>2, <1>4, <1>5, <1>6 DEF TypeOK, TablesOK, FriendAdd

LEMMA TakeApplyType == ASSUME TypeOK, NEW w \in Worker, TakeApply(w) PROVE TypeOK'
<1> DEFINE u == call[w].u
           p == call[w].p
<1>1. u \in User /\ p \in User /\ call[w].op \in {"agree", "refuse"}
  BY CallShapes DEF TakeApply, AgreeCalls, RefuseCalls
<1>2. call' \in [Worker -> Calls]
  <2>1. CASE call[w].at = "apply"
    BY <1>1, <2>1, AnswerType, GotoType DEF TakeApply, Exists
  <2>2. CASE call[w].at = "remove" /\ Goto(w, "relation") /\ call[w].op = "agree"
    BY <2>2, GotoType
  <2>3. CASE Answer(w)
    BY <2>3, AnswerType
  <2> QED
    BY <1>1, <2>1, <2>2, <2>3 DEF TakeApply, Transact
<1>3. Fault \/ UNCHANGED faults
  BY DEF TakeApply, Exists, Transact
<1>4. TablesOK'
  <2>1. CASE UNCHANGED tables
    BY <2>1 DEF TypeOK, TablesOK, tables
  <2>2. CASE apply' = [apply EXCEPT ![u][p] = 0] /\ UNCHANGED <<relation, kind, members>>
    BY <1>1, <2>2 DEF TypeOK, TablesOK, Rows
  <2> QED
    BY <2>1, <2>2 DEF TakeApply, Exists, Transact
<1> QED
  BY <1>2, <1>3, <1>4, KeptType DEF TakeApply

LEMMA MakeFriendsType == ASSUME TypeOK, NEW w \in Worker, MakeFriends(w) PROVE TypeOK'
<1> DEFINE u == call[w].u
           p == call[w].p
           s == call[w].s
<1>1. u \in User /\ p \in User /\ s \in Session /\ call[w].op = "agree"
  BY CallShapes DEF MakeFriends, AgreeCalls
<1>2. call' \in [Worker -> Calls]
  BY <1>1, AnswerType, GotoType DEF MakeFriends, Transact
<1>3. Fault \/ UNCHANGED faults
  BY DEF MakeFriends, Transact
<1>4. TablesOK'
  <2>1. CASE UNCHANGED tables
    BY <2>1 DEF TypeOK, TablesOK, tables
  <2>2. CASE InsertRelation(p, u) /\ UNCHANGED <<apply, kind, members>>
    BY <1>1, <2>2, InsertRelationType DEF TypeOK, TablesOK
  <2>3. CASE kind' = [kind EXCEPT ![s] = "single"] /\ UNCHANGED <<relation, apply, members>>
    BY <1>1, <2>3 DEF TypeOK, TablesOK
  <2>4. CASE members' = [members EXCEPT ![s] = {u, p}] /\ UNCHANGED <<relation, apply, kind>>
    BY <1>1, <2>4 DEF TypeOK, TablesOK
  <2> QED
    BY <2>1, <2>2, <2>3, <2>4 DEF MakeFriends, Transact
<1> QED
  BY <1>2, <1>3, <1>4, KeptType DEF MakeFriends

LEMMA FriendRemoveType == ASSUME TypeOK, NEW w \in Worker, FriendRemove(w) PROVE TypeOK'
<1> DEFINE u == call[w].u
           p == call[w].p
<1>1. u \in User /\ p \in User /\ call[w].op = "unfriend"
  BY CallShapes DEF FriendRemove, UnfriendCalls
<1>2. call' \in [Worker -> Calls]
  <2>1. CASE Answer(w)
    BY <2>1, AnswerType
  <2>2. CASE Goto(w, "session")
    BY <1>1, <2>2, GotoType
  <2>3. CASE call' = [v \in Worker |-> Idle]
    BY <2>3 DEF Calls
  <2> QED
    BY <2>1, <2>2, <2>3 DEF FriendRemove, Transact
<1>3. Fault \/ UNCHANGED faults
  BY DEF FriendRemove, Transact
<1>4. TablesOK'
  <2>1. CASE UNCHANGED tables
    BY <2>1 DEF TypeOK, TablesOK, tables
  <2>2. CASE RemoveRelation(u, p) /\ UNCHANGED <<apply, kind, members>>
    BY <1>1, <2>2, RemoveRelationType DEF TypeOK, TablesOK
  <2>3. ASSUME NEW s \in Session, RemoveSession(s), UNCHANGED <<relation, apply>>
        PROVE  TablesOK'
    BY <2>3 DEF TypeOK, TablesOK, RemoveSession
  <2> QED
    BY <2>1, <2>2, <2>3 DEF FriendRemove, Transact, SingleChats
<1>5. torn' \subseteq User \X User
  <2>1. UNCHANGED torn \/ \E s \in Session : Tear(s)
    BY DEF FriendRemove, SingleChats
  <2> QED
    BY <2>1, TearType DEF TypeOK
<1> QED
  BY <1>2, <1>3, <1>4, <1>5, HandlerType DEF FriendRemove

LEMMA CreateType == ASSUME TypeOK, NEW w \in Worker, ChatSessionCreate(w) PROVE TypeOK'
<1> DEFINE s == call[w].s
<1>1. s \in Session /\ call[w].list \in SUBSET User /\ call[w].op = "create"
  BY CallShapes DEF ChatSessionCreate, CreateCalls
<1>2. call' \in [Worker -> Calls]
  BY <1>1, AnswerType, GotoType DEF ChatSessionCreate, Transact
<1>3. Fault \/ UNCHANGED faults
  BY DEF ChatSessionCreate, Transact
<1>4. TablesOK'
  <2>1. CASE UNCHANGED tables
    BY <2>1 DEF TypeOK, TablesOK, tables
  <2>2. CASE kind' = [kind EXCEPT ![s] = "group"] /\ UNCHANGED <<relation, apply, members>>
    BY <1>1, <2>2 DEF TypeOK, TablesOK
  <2>3. CASE members' = [members EXCEPT ![s] = call[w].list] /\ UNCHANGED <<relation, apply, kind>>
    BY <1>1, <2>3 DEF TypeOK, TablesOK
  <2> QED
    BY <2>1, <2>2, <2>3 DEF ChatSessionCreate, Transact, tables
<1> QED
  BY <1>2, <1>3, <1>4, KeptType DEF ChatSessionCreate

LEMMA KickType == ASSUME TypeOK, NEW w \in Worker, RemoveChatSessionMember(w) PROVE TypeOK'
<1> DEFINE s == call[w].s
<1>1. s \in Session /\ call[w].op = "kick"
  BY CallShapes DEF RemoveChatSessionMember, KickCalls
<1>2. call' \in [Worker -> Calls]
  BY <1>1, AnswerType, GotoType DEF RemoveChatSessionMember, Transact
<1>3. Fault \/ UNCHANGED faults
  BY DEF RemoveChatSessionMember, Transact
<1>4. TablesOK'
  <2>1. CASE UNCHANGED tables
    BY <2>1 DEF TypeOK, TablesOK, tables
  <2>2. CASE members' = [members EXCEPT ![s] = @ \ {call[w].u}] /\ UNCHANGED <<relation, apply, kind>>
    BY <1>1, <2>2 DEF TypeOK, TablesOK
  <2> QED
    BY <2>1, <2>2 DEF RemoveChatSessionMember, Transact
<1>5. torn' \subseteq User \X User
  <2>1. UNCHANGED torn \/ Tear(s)
    BY DEF RemoveChatSessionMember
  <2> QED
    BY <2>1, TearType DEF TypeOK
<1> QED
  BY <1>2, <1>3, <1>4, <1>5, HandlerType DEF RemoveChatSessionMember

LEMMA RequestType == ASSUME TypeOK, NEW w \in Worker, Request(w) PROVE TypeOK'
<1>1. ASSUME NEW u \in User, NEW p \in User, CallFriendAdd(w, u, p) PROVE TypeOK'
  <2>1. [op |-> "add", u |-> u, p |-> p, at |-> "relation"] \in Calls
    BY CallsSplit DEF AddCalls
  <2> QED
    BY <1>1, <2>1, StartType DEF CallFriendAdd, TypeOK, tables, history
<1>2. ASSUME NEW u \in User, NEW p \in User, CallFriendAddProcess(w, u, p) PROVE TypeOK'
  <2>1. ASSUME NEW s \in Session
        PROVE  [op |-> "agree", u |-> u, p |-> p, s |-> s, at |-> "apply"] \in Calls
    BY CallsSplit DEF AgreeCalls
  <2>2. [op |-> "refuse", u |-> u, p |-> p, at |-> "apply"] \in Calls
    BY CallsSplit DEF RefuseCalls
  <2>3. call' \in [Worker -> Calls] /\ overlap' \in BOOLEAN /\ calls' \in 0 .. MaxCall
    BY <1>2, <2>1, <2>2, StartType DEF CallFriendAddProcess
  <2>4. used' \subseteq Session
    <3>1. UNCHANGED used \/ \E s \in Session : used' = used \cup {s}
      BY <1>2 DEF CallFriendAddProcess
    <3> QED
      BY <3>1 DEF TypeOK
  <2>5. agreed' \subseteq User \X User
    <3>1. UNCHANGED agreed \/ agreed' = agreed \cup {<<u, p>>}
      BY <1>2 DEF CallFriendAddProcess
    <3>2. <<u, p>> \in User \X User /\ agreed \subseteq User \X User
      BY DEF TypeOK
    <3> QED
      BY <3>1, <3>2
  <2> QED
    BY <1>2, <2>3, <2>4, <2>5 DEF CallFriendAddProcess, TypeOK, tables
<1>3. ASSUME NEW u \in User, NEW p \in User, CallFriendRemove(w, u, p) PROVE TypeOK'
  <2>1. [op |-> "unfriend", u |-> u, p |-> p, at |-> "relation"] \in Calls
    BY CallsSplit DEF UnfriendCalls
  <2> QED
    BY <1>3, <2>1, StartType DEF CallFriendRemove, TypeOK, tables, history
<1>4. ASSUME NEW list \in SUBSET User, CallChatSessionCreate(w, list) PROVE TypeOK'
  <2>1. ASSUME NEW s \in Session
        PROVE  [op |-> "create", s |-> s, list |-> list, at |-> "session"] \in Calls
    BY CallsSplit DEF CreateCalls
  <2>2. call' \in [Worker -> Calls] /\ overlap' \in BOOLEAN /\ calls' \in 0 .. MaxCall
    BY <1>4, <2>1, StartType DEF CallChatSessionCreate
  <2> QED
    BY <1>4, <2>2 DEF CallChatSessionCreate, TypeOK, tables, history
<1>5. ASSUME NEW s \in Session, NEW u \in User, CallRemoveChatSessionMember(w, s, u)
      PROVE  TypeOK'
  <2>1. [op |-> "kick", s |-> s, u |-> u, at |-> "members"] \in Calls
    BY CallsSplit DEF KickCalls
  <2> QED
    BY <1>5, <2>1, StartType DEF CallRemoveChatSessionMember, TypeOK, tables, history
<1> QED
  BY <1>1, <1>2, <1>3, <1>4, <1>5 DEF Request

LEMMA CrashType == ASSUME TypeOK, Crash PROVE TypeOK'
<1>1. call' \in [Worker -> Calls]
  BY DEF Crash, Calls
<1>2. faults' \in 0 .. MaxFault
  BY FaultType DEF Crash
<1> QED
  BY <1>1, <1>2 DEF Crash, TypeOK, tables, history

LEMMA StepType == TypeOK /\ [Next]_vars => TypeOK'
<1> SUFFICES ASSUME TypeOK, [Next]_vars PROVE TypeOK'
  OBVIOUS
<1>1. CASE UNCHANGED vars
  BY <1>1 DEF TypeOK, vars, tables, history
<1>2. CASE Crash
  BY <1>2, CrashType
<1>3. ASSUME NEW w \in Worker, Request(w) PROVE TypeOK'
  BY <1>3, RequestType
<1>4. ASSUME NEW w \in Worker, Handler(w) PROVE TypeOK'
  BY <1>4, FriendAddType, TakeApplyType, MakeFriendsType, FriendRemoveType, CreateType, KickType
     DEF Handler
<1> QED
  BY <1>1, <1>2, <1>3, <1>4 DEF Next

\* The tables, the calls of the handlers and the counters keep their types: no row
\* count turns negative, and no handler reaches a step its request does not have.
THEOREM TypeCorrect == Spec => []TypeOK
BY InitType, StepType, PTL DEF Spec

-------------------------------------------------------------------------------
(* Mutual friendship                                                         *)

LEMMA InsertSymmetric ==
  ASSUME TypeOK, RelationSymmetric, NEW u \in User, NEW p \in User,
         InsertRelation(u, p)
  PROVE  RelationSymmetric'
<1> SUFFICES ASSUME NEW x \in User, NEW y \in User, x # y
             PROVE  relation'[x][y] = relation'[y][x]
  BY DEF RelationSymmetric
<1> DEFINE cell(a, b) == IF <<a, b>> \in {<<u, p>>, <<p, u>>} THEN relation[a][b] + 1 ELSE relation[a][b]
<1>1. \A a, b \in User : a # b => relation'[a][b] = cell(a, b)
  BY DEF TypeOK, Rows, InsertRelation
<1>2. cell(x, y) = cell(y, x)
  BY DEF RelationSymmetric
<1> QED
  BY <1>1, <1>2

LEMMA RemoveSymmetric ==
  ASSUME TypeOK, RelationSymmetric, NEW u \in User, NEW p \in User,
         RemoveRelation(u, p)
  PROVE  RelationSymmetric'
<1> SUFFICES ASSUME NEW x \in User, NEW y \in User, x # y
             PROVE  relation'[x][y] = relation'[y][x]
  BY DEF RelationSymmetric
<1> DEFINE cell(a, b) == IF <<a, b>> \in {<<u, p>>, <<p, u>>} THEN 0 ELSE relation[a][b]
<1>1. \A a, b \in User : a # b => relation'[a][b] = cell(a, b)
  BY DEF TypeOK, Rows, RemoveRelation
<1>2. cell(x, y) = cell(y, x)
  BY DEF RelationSymmetric
<1> QED
  BY <1>1, <1>2

\* Only two transactions write relation, each both directions at once.
LEMMA RelationWriters ==
  ASSUME [Next]_vars
  PROVE  \/ UNCHANGED relation
         \/ \E w \in Worker : /\ MakeFriends(w)
                             /\ InsertRelation(call[w].p, call[w].u)
         \/ \E w \in Worker : /\ FriendRemove(w)
                             /\ RemoveRelation(call[w].u, call[w].p)
<1>1. CASE UNCHANGED vars \/ Crash
  BY <1>1 DEF vars, tables, Crash
<1>2. ASSUME NEW w \in Worker, Request(w) PROVE UNCHANGED relation
  BY <1>2 DEF Request, CallFriendAdd, CallFriendAddProcess, CallFriendRemove,
              CallChatSessionCreate, CallRemoveChatSessionMember, tables
<1>3. ASSUME NEW w \in Worker, FriendAdd(w) PROVE UNCHANGED relation
  BY <1>3 DEF FriendAdd, Exists, Transact, tables
<1>4. ASSUME NEW w \in Worker, TakeApply(w) PROVE UNCHANGED relation
  BY <1>4 DEF TakeApply, Exists, Transact, tables
<1>5. ASSUME NEW w \in Worker, MakeFriends(w)
      PROVE  UNCHANGED relation \/ InsertRelation(call[w].p, call[w].u)
  BY <1>5 DEF MakeFriends, Transact, tables
<1>6. ASSUME NEW w \in Worker, FriendRemove(w)
      PROVE  UNCHANGED relation \/ RemoveRelation(call[w].u, call[w].p)
  BY <1>6 DEF FriendRemove, Transact, tables
<1>7. ASSUME NEW w \in Worker, ChatSessionCreate(w) PROVE UNCHANGED relation
  BY <1>7 DEF ChatSessionCreate, Transact, tables
<1>8. ASSUME NEW w \in Worker, RemoveChatSessionMember(w) PROVE UNCHANGED relation
  BY <1>8 DEF RemoveChatSessionMember, Transact, tables
<1> QED
  BY <1>1, <1>2, <1>3, <1>4, <1>5, <1>6, <1>7, <1>8 DEF Next, Handler

\* Friendship is mutual in every reachable state: between two transactions of a
\* handler, after a failed one and after a crash (RelationTable::insert, remove).
THEOREM FriendshipIsMutual == Spec => []RelationSymmetric
<1>1. Init => RelationSymmetric
  BY DEF Init, NoRows, RelationSymmetric
<1>2. TypeOK /\ RelationSymmetric /\ [Next]_vars => RelationSymmetric'
  <2> SUFFICES ASSUME TypeOK, RelationSymmetric, [Next]_vars PROVE RelationSymmetric'
    OBVIOUS
  <2>1. CASE UNCHANGED relation
    BY <2>1 DEF RelationSymmetric
  <2>2. ASSUME NEW w \in Worker, MakeFriends(w), InsertRelation(call[w].p, call[w].u)
        PROVE  RelationSymmetric'
    <3>1. call[w].u \in User /\ call[w].p \in User
      BY <2>2, CallShapes DEF MakeFriends, AgreeCalls
    <3> QED
      BY <2>2, <3>1, InsertSymmetric
  <2>3. ASSUME NEW w \in Worker, FriendRemove(w), RemoveRelation(call[w].u, call[w].p)
        PROVE  RelationSymmetric'
    <3>1. call[w].u \in User /\ call[w].p \in User
      BY <2>3, CallShapes DEF FriendRemove, UnfriendCalls
    <3> QED
      BY <2>3, <3>1, RemoveSymmetric
  <2> QED
    BY <2>1, <2>2, <2>3, RelationWriters
<1> QED
  BY <1>1, <1>2, TypeCorrect, PTL DEF Spec

-------------------------------------------------------------------------------
(* Who writes a chat                                                         *)

Making(w) == call[w] # Idle /\ call[w].op \in {"agree", "create"}
KindMade(w) == IF call[w].op = "agree" THEN "single" ELSE "group"

IdsTaken == \A w \in Worker : Making(w) => call[w].s \in used
OneMaker ==
  \A w, v \in Worker : Making(w) /\ Making(v) /\ call[w].s = call[v].s => w = v
UnusedEmpty == \A s \in Session \ used : kind[s] = "none" /\ members[s] = {}
NotYetMade ==
  \A w \in Worker :
    Making(w) /\ call[w].at \in {"apply", "remove", "relation", "session"} =>
      kind[call[w].s] = "none" /\ members[call[w].s] = {}
NotYetFilled ==
  \A w \in Worker :
    Making(w) /\ call[w].at = "members" =>
      kind[call[w].s] = KindMade(w) /\ members[call[w].s] = {}

\* The inductive invariant behind MembersHaveSession and GroupsSurvive.
Ownership == IdsTaken /\ OneMaker /\ UnusedEmpty /\ NotYetMade /\ NotYetFilled

\* The transactions that write a chat or its members.
InsertsChat(w) ==
  /\ Making(w) /\ call[w].at = "session"
  /\ kind' = [kind EXCEPT ![call[w].s] = KindMade(w)]
  /\ UNCHANGED members
AppendsMembers(w) ==
  /\ Making(w) /\ call[w].at = "members"
  /\ \E list \in SUBSET User :
       /\ call[w].op = "agree" => list = {call[w].u, call[w].p}
       /\ members' = [members EXCEPT ![call[w].s] = list]
  /\ UNCHANGED kind
DissolvesChat(w) ==
  /\ call[w].op = "unfriend"
  /\ \E s \in Session : kind[s] = "single" /\ members[s] # {} /\ RemoveSession(s)
Kicks(w) ==
  /\ At(w, "kick", "members")
  /\ members' = [members EXCEPT ![call[w].s] = @ \ {call[w].u}]
  /\ UNCHANGED kind
ChatStep(w) ==
  \/ UNCHANGED <<kind, members>>
  \/ InsertsChat(w) \/ AppendsMembers(w) \/ DissolvesChat(w) \/ Kicks(w)

LEMMA HandlerChats ==
  ASSUME TypeOK, NEW w \in Worker, Handler(w)
  PROVE  ChatStep(w)
<1>1. CASE FriendAdd(w)
  BY <1>1 DEF FriendAdd, Exists, Transact, tables, ChatStep
<1>2. CASE TakeApply(w)
  BY <1>2 DEF TakeApply, Exists, Transact, tables, ChatStep
<1>3. CASE MakeFriends(w)
  <2>1. /\ call[w].op = "agree" /\ call[w] # Idle
        /\ call[w].u \in User /\ call[w].p \in User
    BY <1>3, CallShapes DEF MakeFriends, AgreeCalls, At
  <2>2. CASE At(w, "agree", "relation")
    BY <1>3, <2>2 DEF MakeFriends, At, Transact, tables, ChatStep
  <2>3. CASE At(w, "agree", "session")
    BY <1>3, <2>1, <2>3 DEF MakeFriends, At, Transact, tables, ChatStep, InsertsChat, Making, KindMade
  <2>4. CASE At(w, "agree", "members")
    <3>1. \/ UNCHANGED <<kind, members>>
          \/ members' = [members EXCEPT ![call[w].s] = {call[w].u, call[w].p}] /\ UNCHANGED kind
      BY <1>3, <2>4 DEF MakeFriends, At, Transact, tables
    <3>2. {call[w].u, call[w].p} \in SUBSET User
      BY <2>1
    <3> QED
      BY <3>1, <3>2, <2>1, <2>4 DEF At, ChatStep, AppendsMembers, Making
  <2> QED
    BY <1>3, <2>2, <2>3, <2>4 DEF MakeFriends
<1>4. CASE FriendRemove(w)
  <2>1. CASE \E s \in SingleChats(call[w].u, call[w].p) : RemoveSession(s)
    BY <1>4, <2>1 DEF FriendRemove, SingleChats, ChatStep, DissolvesChat
  <2>2. CASE UNCHANGED <<kind, members>>
    BY <2>2 DEF ChatStep
  <2> QED
    BY <1>4, <2>1, <2>2 DEF FriendRemove, Transact, tables
<1>5. CASE ChatSessionCreate(w)
  <2>1. call[w].op = "create" /\ call[w] # Idle /\ call[w].list \in SUBSET User
    BY <1>5, CallShapes DEF ChatSessionCreate, CreateCalls, At
  <2>2. CASE At(w, "create", "session")
    BY <1>5, <2>1, <2>2 DEF ChatSessionCreate, At, Transact, tables, ChatStep, InsertsChat, Making, KindMade
  <2>3. CASE At(w, "create", "members")
    BY <1>5, <2>1, <2>3 DEF ChatSessionCreate, At, ChatStep, AppendsMembers, Making
  <2>4. CASE At(w, "create", "del")
    BY <1>5, <2>4 DEF ChatSessionCreate, At, tables, ChatStep
  <2> QED
    BY <1>5, <2>2, <2>3, <2>4 DEF ChatSessionCreate
<1>6. CASE RemoveChatSessionMember(w)
  BY <1>6 DEF RemoveChatSessionMember, Transact, tables, ChatStep, Kicks
<1> QED
  BY <1>1, <1>2, <1>3, <1>4, <1>5, <1>6 DEF Handler

LEMMA ChatWriters ==
  ASSUME TypeOK, [Next]_vars
  PROVE  UNCHANGED <<kind, members>> \/ \E w \in Worker : ChatStep(w)
<1>1. CASE UNCHANGED vars \/ Crash
  BY <1>1 DEF vars, tables, Crash
<1>2. ASSUME NEW w \in Worker, Request(w) PROVE UNCHANGED <<kind, members>>
  BY <1>2 DEF Request, CallFriendAdd, CallFriendAddProcess, CallFriendRemove,
              CallChatSessionCreate, CallRemoveChatSessionMember, tables
<1> QED
  BY <1>1, <1>2, HandlerChats DEF Next

\* Given Ownership, a step that writes a chat takes the members with the chat, and
\* leaves a group alone.
LEMMA ChatStepSafe ==
  ASSUME TypeOK, Ownership, MembersHaveSession, NEW w \in Worker, ChatStep(w)
  PROVE  /\ MembersHaveSession'
         /\ \A s \in Session : kind[s] = "group" =>
              /\ kind'[s] = "group"
              /\ \A u \in members[s] \ members'[s] :
                   At(w, "kick", "members") /\ call[w].s = s /\ call[w].u = u
<1>1. CASE UNCHANGED <<kind, members>>
  BY <1>1 DEF MembersHaveSession
<1>2. CASE InsertsChat(w)
  <2>1. kind[call[w].s] = "none" /\ members[call[w].s] = {}
    BY <1>2 DEF Ownership, NotYetMade, InsertsChat
  <2> QED
    BY <1>2, <2>1 DEF TypeOK, MembersHaveSession, InsertsChat, KindMade
<1>3. CASE AppendsMembers(w)
  <2>1. kind[call[w].s] # "none" /\ members[call[w].s] = {}
    BY <1>3 DEF Ownership, NotYetFilled, AppendsMembers, KindMade
  <2> QED
    BY <1>3, <2>1 DEF TypeOK, MembersHaveSession, AppendsMembers
<1>4. CASE DissolvesChat(w)
  BY <1>4 DEF TypeOK, MembersHaveSession, DissolvesChat, RemoveSession
<1>5. CASE Kicks(w)
  BY <1>5 DEF TypeOK, MembersHaveSession, Kicks
<1> QED
  BY <1>1, <1>2, <1>3, <1>4, <1>5 DEF ChatStep

\* How the handler at w leaves its chat: it has answered, or died, or went on.
Ended(w) == call'[w] = Idle
GoesTo(w, at) ==
  /\ call'[w].op = call[w].op
  /\ call'[w].at = at
  /\ Making(w) => call'[w].s = call[w].s
OwnStep(w) ==
  \/ Ended(w)
  \/ /\ \E at \in {"apply", "insert", "remove", "relation", "session"} : GoesTo(w, at)
     /\ UNCHANGED <<kind, members>>
     /\ Making(w) => call[w].at \in {"apply", "remove", "relation"}
  \/ InsertsChat(w) /\ GoesTo(w, "members")
  \/ GoesTo(w, "del")

LEMMA GotoGoes ==
  ASSUME TypeOK, NEW w \in Worker, NEW at, Goto(w, at), call[w].op # "idle"
  PROVE  GoesTo(w, at)
<1>1. call' = [call EXCEPT ![w] = [call[w] EXCEPT !.at = at]]
  BY DEF Goto
<1>2. call'[w] = [call[w] EXCEPT !.at = at]
  BY <1>1 DEF TypeOK
<1> QED
  BY <1>2, CallShapes DEF GoesTo, Making, AddCalls, AgreeCalls, RefuseCalls, UnfriendCalls,
                          CreateCalls, KickCalls

LEMMA AnswerEnds ==
  ASSUME TypeOK, NEW w \in Worker, Answer(w)
  PROVE  Ended(w)
BY DEF TypeOK, Answer, Ended

\* A handler changes no other handler's call, but for the death of the process.
LEMMA HandlerCalls ==
  ASSUME TypeOK, NEW w \in Worker, Handler(w)
  PROVE  \/ call' = [v \in Worker |-> Idle]
         \/ \A v \in Worker \ {w} : call'[v] = call[v]
<1>1. CASE Answer(w)
  BY <1>1 DEF TypeOK, Answer
<1>2. ASSUME NEW at, Goto(w, at) PROVE \A v \in Worker \ {w} : call'[v] = call[v]
  BY <1>2 DEF TypeOK, Goto
<1> QED
  BY <1>1, <1>2 DEF Handler, FriendAdd, TakeApply, MakeFriends, FriendRemove,
                    ChatSessionCreate, RemoveChatSessionMember, Exists, Transact

LEMMA HandlerOwn ==
  ASSUME TypeOK, NEW w \in Worker, Handler(w)
  PROVE  OwnStep(w) /\ UNCHANGED used
<1>1. CASE FriendAdd(w)
  <2>1. UNCHANGED used /\ call[w].op = "add" /\ ~Making(w)
    BY <1>1 DEF FriendAdd, Making
  <2>2. CASE Answer(w)
    BY <2>1, <2>2, AnswerEnds DEF OwnStep
  <2>3. CASE (Goto(w, "apply") \/ Goto(w, "insert")) /\ UNCHANGED tables
    BY <2>1, <2>3, GotoGoes DEF OwnStep, tables
  <2> QED
    BY <1>1, <2>1, <2>2, <2>3 DEF FriendAdd, Exists, Transact
<1>2. CASE TakeApply(w)
  BY <1>2, AnswerEnds, GotoGoes DEF TakeApply, Exists, Transact, tables, Kept, OwnStep, Making
<1>3. CASE MakeFriends(w)
  <2>1. call[w].op = "agree" /\ call[w] # Idle /\ UNCHANGED used
    BY <1>3 DEF MakeFriends, At, Kept
  <2>2. CASE At(w, "agree", "relation")
    BY <1>3, <2>1, <2>2, AnswerEnds, GotoGoes DEF MakeFriends, At, Transact, OwnStep
  <2>3. CASE At(w, "agree", "session")
    BY <1>3, <2>1, <2>3, AnswerEnds, GotoGoes
       DEF MakeFriends, At, Transact, OwnStep, InsertsChat, Making, KindMade
  <2>4. CASE At(w, "agree", "members")
    BY <1>3, <2>1, <2>4, AnswerEnds DEF MakeFriends, At, Transact, OwnStep
  <2> QED
    BY <1>3, <2>1, <2>2, <2>3, <2>4 DEF MakeFriends
<1>4. CASE FriendRemove(w)
  <2>1. UNCHANGED used /\ call[w].op = "unfriend"
    BY <1>4 DEF FriendRemove, Kept
  <2>2. CASE Answer(w)
    BY <2>1, <2>2, AnswerEnds DEF OwnStep
  <2>3. CASE call' = [v \in Worker |-> Idle]
    BY <2>1, <2>3 DEF OwnStep, Ended
  <2>4. CASE Goto(w, "session") /\ UNCHANGED <<kind, members>>
    BY <2>1, <2>4, GotoGoes DEF OwnStep, Making
  <2> QED
    BY <1>4, <2>1, <2>2, <2>3, <2>4 DEF FriendRemove, Transact
<1>5. CASE ChatSessionCreate(w)
  <2>1. call[w].op = "create" /\ call[w] # Idle /\ UNCHANGED used
    BY <1>5 DEF ChatSessionCreate, At, Kept
  <2>2. CASE At(w, "create", "session")
    BY <1>5, <2>1, <2>2, AnswerEnds, GotoGoes
       DEF ChatSessionCreate, At, Transact, OwnStep, InsertsChat, Making, KindMade
  <2>3. CASE At(w, "create", "members")
    BY <1>5, <2>1, <2>3, GotoGoes DEF ChatSessionCreate, At, OwnStep
  <2>4. CASE At(w, "create", "del")
    BY <1>5, <2>1, <2>4, AnswerEnds DEF ChatSessionCreate, At, OwnStep
  <2> QED
    BY <1>5, <2>1, <2>2, <2>3, <2>4 DEF ChatSessionCreate
<1>6. CASE RemoveChatSessionMember(w)
  BY <1>6, AnswerEnds, GotoGoes
     DEF RemoveChatSessionMember, At, Transact, Kept, OwnStep
<1> QED
  BY <1>1, <1>2, <1>3, <1>4, <1>5, <1>6 DEF Handler

\* Of the chats that are not w's own, ChatStep writes only those with members.
LEMMA OthersUntouched ==
  ASSUME TypeOK, NEW w \in Worker, ChatStep(w), NEW s \in Session,
         members[s] = {}, ~(Making(w) /\ call[w].s = s)
  PROVE  kind'[s] = kind[s] /\ members'[s] = {}
BY DEF TypeOK, ChatStep, InsertsChat, AppendsMembers, DissolvesChat, RemoveSession, Kicks

LEMMA HandlerOwnership ==
  ASSUME TypeOK, Ownership, NEW w \in Worker, Handler(w)
  PROVE  Ownership'
<1>1. OwnStep(w) /\ UNCHANGED used /\ ChatStep(w)
  BY HandlerOwn, HandlerChats
<1>2. CASE call' = [v \in Worker |-> Idle]
  <2>1. \A v \in Worker : ~Making(v)'
    BY <1>2 DEF Making
  <2>2. UnusedEmpty'
    BY <1>1, OthersUntouched DEF Ownership, UnusedEmpty, IdsTaken
  <2> QED
    BY <2>1, <2>2 DEF Ownership, IdsTaken, OneMaker, NotYetMade, NotYetFilled
<1>3. CASE \A v \in Worker \ {w} : call'[v] = call[v]
  <2>1. \A v \in Worker : Making(v)' => Making(v) /\ call'[v].s = call[v].s
    BY <1>1, <1>3 DEF Making, OwnStep, Ended, GoesTo, InsertsChat, Idle
  <2>2. IdsTaken' /\ OneMaker'
    BY <1>1, <2>1 DEF Ownership, IdsTaken, OneMaker
  <2>3. UnusedEmpty'
    BY <1>1, OthersUntouched DEF Ownership, UnusedEmpty, IdsTaken
  <2>4. ASSUME NEW v \in Worker \ {w}, Making(v), members[call[v].s] = {}
        PROVE  kind'[call[v].s] = kind[call[v].s] /\ members'[call[v].s] = {}
    <3>1. call[v].s \in Session
      BY <2>4, CallShapes DEF Making, AgreeCalls, CreateCalls
    <3>2. ~(Making(w) /\ call[w].s = call[v].s)
      BY <2>4 DEF Ownership, OneMaker
    <3> QED
      BY <1>1, <2>4, <3>1, <3>2, OthersUntouched
  <2>5. NotYetMade'
    <3> SUFFICES ASSUME NEW v \in Worker, Making(v)',
                        call'[v].at \in {"apply", "remove", "relation", "session"}
                 PROVE  kind'[call'[v].s] = "none" /\ members'[call'[v].s] = {}
      BY DEF NotYetMade
    <3>1. CASE v # w
      BY <1>3, <2>1, <2>4, <3>1 DEF Ownership, NotYetMade
    <3>2. CASE v = w
      <4>1. UNCHANGED <<kind, members>> /\ call[w].at \in {"apply", "remove", "relation"}
        BY <1>1, <2>1, <3>2 DEF OwnStep, Ended, GoesTo, Making, Idle
      <4> QED
        BY <2>1, <3>2, <4>1 DEF Ownership, NotYetMade
    <3> QED
      BY <3>1, <3>2
  <2>6. NotYetFilled'
    <3> SUFFICES ASSUME NEW v \in Worker, Making(v)', call'[v].at = "members"
                 PROVE  kind'[call'[v].s] = KindMade(v)' /\ members'[call'[v].s] = {}
      BY DEF NotYetFilled
    <3>1. CASE v # w
      BY <1>3, <2>1, <2>4, <3>1 DEF Ownership, NotYetFilled, KindMade
    <3>2. CASE v = w
      <4>1. InsertsChat(w) /\ GoesTo(w, "members")
        BY <1>1, <3>2 DEF OwnStep, Ended, GoesTo, Making, Idle
      <4>2. call[w].s \in Session
        BY <4>1, CallShapes DEF InsertsChat, Making, AgreeCalls, CreateCalls
      <4>3. members[call[w].s] = {}
        BY <4>1 DEF Ownership, NotYetMade, InsertsChat
      <4>4. kind'[call[w].s] = KindMade(w) /\ members'[call[w].s] = {}
        BY <4>1, <4>2, <4>3 DEF TypeOK, InsertsChat
      <4> QED
        BY <2>1, <3>2, <4>1, <4>4 DEF GoesTo, KindMade
    <3> QED
      BY <3>1, <3>2
  <2> QED
    BY <2>2, <2>3, <2>5, <2>6 DEF Ownership
<1> QED
  BY <1>2, <1>3, HandlerCalls

\* A new request that makes a chat takes an id nobody has; the others make none.
LEMMA StartCall ==
  ASSUME TypeOK, NEW w \in Worker, NEW c, Start(w, c)
  PROVE  call'[w] = c /\ \A v \in Worker \ {w} : call'[v] = call[v]
BY DEF Start, TypeOK

TakesNewId(w) ==
  /\ call'[w].s \in Session \ used
  /\ call'[w].s \in used'
  /\ call'[w].at \in {"apply", "session"}

LEMMA RequestNew ==
  ASSUME TypeOK, NEW w \in Worker, Request(w)
  PROVE  /\ UNCHANGED <<kind, members>>
         /\ used \subseteq used'
         /\ \A v \in Worker \ {w} : call'[v] = call[v]
         /\ Making(w)' => TakesNewId(w)
<1> DEFINE P == /\ UNCHANGED <<kind, members>>
                /\ used \subseteq used'
                /\ \A v \in Worker \ {w} : call'[v] = call[v]
                /\ Making(w)' => TakesNewId(w)
<1>1. ASSUME NEW u \in User, NEW p \in User, CallFriendAdd(w, u, p) PROVE P
  <2> DEFINE c == [op |-> "add", u |-> u, p |-> p, at |-> "relation"]
  <2>1. Start(w, c) /\ UNCHANGED <<kind, members, used>>
    BY <1>1 DEF CallFriendAdd, tables
  <2> QED
    BY <2>1, StartCall DEF Making
<1>2. ASSUME NEW u \in User, NEW p \in User, CallFriendRemove(w, u, p) PROVE P
  <2> DEFINE c == [op |-> "unfriend", u |-> u, p |-> p, at |-> "relation"]
  <2>1. Start(w, c) /\ UNCHANGED <<kind, members, used>>
    BY <1>2 DEF CallFriendRemove, tables
  <2> QED
    BY <2>1, StartCall DEF Making
<1>3. ASSUME NEW s \in Session, NEW u \in User, CallRemoveChatSessionMember(w, s, u) PROVE P
  <2> DEFINE c == [op |-> "kick", s |-> s, u |-> u, at |-> "members"]
  <2>1. Start(w, c) /\ UNCHANGED <<kind, members, used>>
    BY <1>3 DEF CallRemoveChatSessionMember, tables
  <2> QED
    BY <2>1, StartCall DEF Making
<1>4. ASSUME NEW u \in User, NEW p \in User, CallFriendAddProcess(w, u, p) PROVE P
  <2>1. UNCHANGED <<kind, members>>
    BY <1>4 DEF CallFriendAddProcess, tables
  <2>2. CASE \E s \in Session \ used :
               /\ Start(w, [op |-> "agree", u |-> u, p |-> p, s |-> s, at |-> "apply"])
               /\ used' = used \cup {s}
    <3>1. PICK s \in Session \ used :
                 /\ Start(w, [op |-> "agree", u |-> u, p |-> p, s |-> s, at |-> "apply"])
                 /\ used' = used \cup {s}
      BY <2>2
    <3> QED
      BY <2>1, <3>1, StartCall DEF TakesNewId
  <2>3. CASE /\ Start(w, [op |-> "refuse", u |-> u, p |-> p, at |-> "apply"])
             /\ UNCHANGED used
    BY <2>1, <2>3, StartCall DEF Making
  <2> QED
    BY <1>4, <2>2, <2>3 DEF CallFriendAddProcess
<1>5. ASSUME NEW list \in SUBSET User, CallChatSessionCreate(w, list) PROVE P
  <2>1. PICK s \in Session \ used :
               /\ Start(w, [op |-> "create", s |-> s, list |-> list, at |-> "session"])
               /\ used' = used \cup {s}
    BY <1>5 DEF CallChatSessionCreate
  <2> QED
    BY <1>5, <2>1, StartCall DEF CallChatSessionCreate, tables, TakesNewId
<1> HIDE DEF P
<1>6. P
  BY <1>1, <1>2, <1>3, <1>4, <1>5 DEF Request
<1> QED
  BY <1>6 DEF P

LEMMA RequestOwnership ==
  ASSUME TypeOK, Ownership, NEW w \in Worker, Request(w)
  PROVE  Ownership'
<1>1. \A v \in Worker \ {w} : call'[v] = call[v]
  BY RequestNew
<1>2. \A v \in Worker \ {w} : Making(v)' = Making(v)
  BY <1>1 DEF Making
<1>3. IdsTaken'
  BY <1>1, RequestNew DEF TakesNewId, Ownership, IdsTaken, Making
<1>4. OneMaker'
  BY <1>1, RequestNew DEF TakesNewId, Ownership, OneMaker, IdsTaken, Making
<1>5. UnusedEmpty'
  BY RequestNew DEF Ownership, UnusedEmpty
<1>6. NotYetMade'
  BY <1>1, RequestNew DEF TakesNewId, Ownership, NotYetMade, UnusedEmpty, Making
<1>7. NotYetFilled'
  BY <1>1, RequestNew DEF TakesNewId, Ownership, NotYetFilled, Making, KindMade
<1> QED
  BY <1>3, <1>4, <1>5, <1>6, <1>7 DEF Ownership

ChatInv == Ownership /\ MembersHaveSession

LEMMA ChatInvInit == Init => ChatInv
BY DEF Init, ChatInv, Ownership, IdsTaken, OneMaker, UnusedEmpty, NotYetMade, NotYetFilled,
       Making, MembersHaveSession

LEMMA ChatInvStep == TypeOK /\ ChatInv /\ [Next]_vars => ChatInv'
<1> SUFFICES ASSUME TypeOK, ChatInv, [Next]_vars PROVE ChatInv'
  OBVIOUS
<1>1. Ownership'
  <2>1. CASE UNCHANGED vars
    BY <2>1 DEF ChatInv, Ownership, IdsTaken, OneMaker, UnusedEmpty, NotYetMade, NotYetFilled,
                Making, KindMade, vars, tables
  <2>2. CASE Crash
    <3>1. \A w \in Worker : ~Making(w)'
      BY <2>2 DEF Crash, Making
    <3> QED
      BY <2>2, <3>1 DEF ChatInv, Ownership, IdsTaken, OneMaker, UnusedEmpty, NotYetMade,
                        NotYetFilled, Crash, tables
  <2> QED
    BY <2>1, <2>2, HandlerOwnership, RequestOwnership DEF ChatInv, Next
<1>2. MembersHaveSession'
  BY ChatWriters, ChatStepSafe DEF ChatInv, MembersHaveSession
<1> QED
  BY <1>1, <1>2 DEF ChatInv

LEMMA ChatInvHolds == Spec => []ChatInv
BY ChatInvInit, ChatInvStep, TypeCorrect, PTL DEF Spec

\* No member row is left without its chat (ChatSessionTable::remove, insert and
\* ChatSessionMemberTable::append by other handlers in between).
THEOREM NoOrphanMembers == Spec => []MembersHaveSession
BY ChatInvHolds, PTL DEF ChatInv

\* A group stays, and loses a member only to RemoveChatSessionMember: the erase of
\* FriendRemove takes only chats of two.
THEOREM GroupsAreLeftAlone == Spec => GroupsSurvive
<1> DEFINE A == \A s \in Session : kind[s] = "group" =>
                  /\ kind'[s] = "group"
                  /\ \A u \in members[s] \ members'[s] :
                       \E w \in Worker : At(w, "kick", "members") /\ call[w].s = s /\ call[w].u = u
<1>1. TypeOK /\ ChatInv /\ [Next]_vars => [A]_vars
  BY ChatWriters, ChatStepSafe DEF ChatInv
<1> QED
  BY <1>1, TypeCorrect, ChatInvHolds, PTL DEF Spec, GroupsSurvive

-------------------------------------------------------------------------------
(* Consent: nobody becomes a friend without having asked or agreed           *)

Agreed(u, p) == \E a \in {<<u, p>>, <<p, u>>} : a \in asked \cap agreed

AppliesAsked == \A u, p \in User : apply[u][p] > 0 => <<u, p>> \in asked
AgreementsSent ==
  \A w \in Worker : call[w].op = "agree" =>
    /\ <<call[w].u, call[w].p>> \in agreed
    /\ call[w].at # "apply" => <<call[w].u, call[w].p>> \in asked
FriendsAgreed == \A u, p \in User : u # p /\ relation[u][p] > 0 => Agreed(u, p)
ChatsAgreed ==
  \A s \in Session : kind[s] = "single" =>
    \A u, p \in members[s] : u # p => Agreed(u, p)

\* What a handler with an agreement has read stays true: asked and agreed grow.
ConsentInv == AppliesAsked /\ AgreementsSent /\ FriendsAgreed /\ ChatsAgreed

LEMMA HistoryGrows ==
  ASSUME [Next]_vars
  PROVE  asked \subseteq asked' /\ agreed \subseteq agreed'
<1>1. CASE UNCHANGED vars \/ Crash
  BY <1>1 DEF vars, history, Crash
<1>2. ASSUME NEW w \in Worker, Request(w) PROVE asked \subseteq asked' /\ agreed \subseteq agreed'
  BY <1>2 DEF Request, CallFriendAdd, CallFriendAddProcess, CallFriendRemove,
              CallChatSessionCreate, CallRemoveChatSessionMember, history
<1>3. ASSUME NEW w \in Worker, Handler(w) PROVE asked \subseteq asked' /\ agreed \subseteq agreed'
  BY <1>3 DEF Handler, FriendAdd, TakeApply, MakeFriends, FriendRemove, ChatSessionCreate,
              RemoveChatSessionMember, Kept, history
<1> QED
  BY <1>1, <1>2, <1>3 DEF Next

LEMMA AgreedStays ==
  ASSUME [Next]_vars, NEW u, NEW p, Agreed(u, p)
  PROVE  Agreed(u, p)'
BY HistoryGrows DEF Agreed

LEMMA AppliesAskedStep ==
  ASSUME TypeOK, AppliesAsked, [Next]_vars
  PROVE  AppliesAsked'
<1>1. CASE UNCHANGED apply
  BY <1>1, HistoryGrows DEF AppliesAsked
<1>2. ASSUME NEW w \in Worker, FriendAdd(w), apply' # apply PROVE AppliesAsked'
  <2>1. call[w].u \in User /\ call[w].p \in User
    BY <1>2, CallShapes DEF FriendAdd, AddCalls
  <2>2. /\ apply' = [apply EXCEPT ![call[w].u][call[w].p] = @ + 1]
        /\ asked' = asked \cup {<<call[w].u, call[w].p>>}
    BY <1>2 DEF FriendAdd, Exists, Transact, tables
  <2> QED
    BY <2>1, <2>2 DEF TypeOK, Rows, AppliesAsked
<1>3. ASSUME NEW w \in Worker, TakeApply(w), apply' # apply PROVE AppliesAsked'
  <2>1. call[w].u \in User /\ call[w].p \in User
    BY <1>3, CallShapes DEF TakeApply, AgreeCalls, RefuseCalls
  <2>2. apply' = [apply EXCEPT ![call[w].u][call[w].p] = 0]
    BY <1>3 DEF TakeApply, Exists, Transact, tables
  <2> QED
    BY <2>1, <2>2, HistoryGrows DEF TypeOK, Rows, AppliesAsked
<1>4. CASE UNCHANGED vars \/ Crash
  BY <1>1, <1>4 DEF vars, tables, Crash
<1>5. ASSUME NEW w \in Worker, Request(w) PROVE UNCHANGED apply
  BY <1>5 DEF Request, CallFriendAdd, CallFriendAddProcess, CallFriendRemove,
              CallChatSessionCreate, CallRemoveChatSessionMember, tables
<1>6. ASSUME NEW w \in Worker,
             \/ MakeFriends(w) \/ FriendRemove(w) \/ ChatSessionCreate(w)
             \/ RemoveChatSessionMember(w)
      PROVE  UNCHANGED apply
  BY <1>6 DEF MakeFriends, FriendRemove, ChatSessionCreate, RemoveChatSessionMember, Transact, tables
<1> QED
  BY <1>1, <1>2, <1>3, <1>4, <1>5, <1>6 DEF Next, Handler

\* How an agreement comes about and goes on: it has been sent, and passes the first
\* step only if the application is there.
AgreeStep(w) ==
  \/ call'[w].op # "agree"
  \/ call'[w] = call[w]
  \/ /\ call[w].op = "agree"
     /\ call'[w].u = call[w].u /\ call'[w].p = call[w].p
     /\ call[w].at # "apply" \/ apply[call[w].u][call[w].p] > 0
  \/ <<call'[w].u, call'[w].p>> \in agreed' /\ call'[w].at = "apply"

LEMMA GotoAgree ==
  ASSUME TypeOK, NEW w \in Worker, NEW at, Goto(w, at), call[w].op # "idle",
         call[w].op = "agree" => call[w].at # "apply" \/ apply[call[w].u][call[w].p] > 0
  PROVE  AgreeStep(w)
<1>1. call'[w] = [call[w] EXCEPT !.at = at]
  BY DEF Goto, TypeOK
<1> QED
  BY <1>1, CallShapes DEF AgreeStep, AddCalls, AgreeCalls, RefuseCalls, UnfriendCalls,
                          CreateCalls, KickCalls, TypeOK, Calls

LEMMA EndedAgree == ASSUME NEW w \in Worker, Ended(w) PROVE AgreeStep(w)
BY DEF Ended, AgreeStep, Idle

LEMMA HandlerAgree ==
  ASSUME TypeOK, NEW w \in Worker, Handler(w)
  PROVE  AgreeStep(w)
<1>1. CASE FriendAdd(w)
  BY <1>1, AnswerEnds, EndedAgree, GotoAgree DEF FriendAdd, Exists, Transact
<1>2. CASE TakeApply(w)
  BY <1>2, AnswerEnds, EndedAgree, GotoAgree DEF TakeApply, Exists, Transact
<1>3. CASE MakeFriends(w)
  BY <1>3, AnswerEnds, EndedAgree, GotoAgree DEF MakeFriends, At, Transact
<1>4. CASE FriendRemove(w)
  <2>1. call' = [v \in Worker |-> Idle] => Ended(w)
    BY DEF Ended
  <2> QED
    BY <1>4, <2>1, AnswerEnds, EndedAgree, GotoAgree DEF FriendRemove, Transact
<1>5. CASE ChatSessionCreate(w)
  BY <1>5, AnswerEnds, EndedAgree, GotoAgree DEF ChatSessionCreate, Transact
<1>6. CASE RemoveChatSessionMember(w)
  BY <1>6, AnswerEnds, EndedAgree, GotoAgree DEF RemoveChatSessionMember, Transact
<1> QED
  BY <1>1, <1>2, <1>3, <1>4, <1>5, <1>6 DEF Handler

LEMMA RequestAgree ==
  ASSUME TypeOK, NEW w \in Worker, Request(w)
  PROVE  AgreeStep(w)
<1>1. ASSUME NEW u \in User, NEW p \in User, CallFriendAdd(w, u, p) PROVE AgreeStep(w)
  BY <1>1, StartCall DEF CallFriendAdd, AgreeStep
<1>2. ASSUME NEW u \in User, NEW p \in User, CallFriendRemove(w, u, p) PROVE AgreeStep(w)
  BY <1>2, StartCall DEF CallFriendRemove, AgreeStep
<1>3. ASSUME NEW s \in Session, NEW u \in User, CallRemoveChatSessionMember(w, s, u)
      PROVE  AgreeStep(w)
  BY <1>3, StartCall DEF CallRemoveChatSessionMember, AgreeStep
<1>4. ASSUME NEW u \in User, NEW p \in User, CallFriendAddProcess(w, u, p) PROVE AgreeStep(w)
  <2>1. CASE Start(w, [op |-> "refuse", u |-> u, p |-> p, at |-> "apply"])
    BY <2>1, StartCall DEF AgreeStep
  <2>2. ASSUME NEW s \in Session,
               Start(w, [op |-> "agree", u |-> u, p |-> p, s |-> s, at |-> "apply"]),
               agreed' = agreed \cup {<<u, p>>}
        PROVE  AgreeStep(w)
    BY <2>2, StartCall DEF AgreeStep
  <2> QED
    BY <1>4, <2>1, <2>2 DEF CallFriendAddProcess
<1>5. ASSUME NEW list \in SUBSET User, CallChatSessionCreate(w, list) PROVE AgreeStep(w)
  <2>1. PICK s \in Session :
               Start(w, [op |-> "create", s |-> s, list |-> list, at |-> "session"])
    BY <1>5 DEF CallChatSessionCreate
  <2> QED
    BY <2>1, StartCall DEF AgreeStep
<1> QED
  BY <1>1, <1>2, <1>3, <1>4, <1>5 DEF Request

LEMMA AgreementsSentStep ==
  ASSUME TypeOK, ConsentInv, [Next]_vars
  PROVE  AgreementsSent'
<1>1. ASSUME NEW w \in Worker PROVE AgreeStep(w)
  <2>1. CASE UNCHANGED vars
    BY <2>1 DEF vars, AgreeStep
  <2>2. CASE Crash
    BY <2>2 DEF Crash, AgreeStep, Idle
  <2>3. ASSUME NEW v \in Worker, Request(v) PROVE AgreeStep(w)
    BY <2>3, RequestAgree, RequestNew DEF AgreeStep
  <2>4. ASSUME NEW v \in Worker, Handler(v) PROVE AgreeStep(w)
    BY <2>4, HandlerAgree, HandlerCalls DEF AgreeStep, Idle
  <2> QED
    BY <2>1, <2>2, <2>3, <2>4 DEF Next
<1> SUFFICES ASSUME NEW w \in Worker, call'[w].op = "agree"
             PROVE  /\ <<call'[w].u, call'[w].p>> \in agreed'
                    /\ call'[w].at # "apply" => <<call'[w].u, call'[w].p>> \in asked'
  BY DEF AgreementsSent
<1>2. call[w].op = "agree" => call[w].u \in User /\ call[w].p \in User
  BY CallShapes DEF AgreeCalls
<1> QED
  BY <1>1, <1>2, HistoryGrows DEF AgreeStep, ConsentInv, AgreementsSent, AppliesAsked

LEMMA FriendsAgreedStep ==
  ASSUME TypeOK, ConsentInv, [Next]_vars
  PROVE  FriendsAgreed'
<1> SUFFICES ASSUME NEW x \in User, NEW y \in User, x # y, relation'[x][y] > 0
             PROVE  Agreed(x, y)'
  BY DEF FriendsAgreed
<1>1. CASE relation[x][y] > 0
  BY <1>1, AgreedStays DEF ConsentInv, FriendsAgreed
<1>2. CASE ~(relation[x][y] > 0)
  <2>1. PICK w \in Worker : MakeFriends(w) /\ InsertRelation(call[w].p, call[w].u)
    <3>1. relation' # relation
      BY <1>2
    <3>2. ASSUME NEW w \in Worker, RemoveRelation(call[w].u, call[w].p) PROVE FALSE
      <4>1. relation'[x][y] \in {0, relation[x][y]}
        BY <3>2 DEF TypeOK, Rows, RemoveRelation
      <4> QED
        BY <1>2, <4>1
    <3> QED
      BY <3>1, <3>2, RelationWriters
  <2>2. /\ call[w].op = "agree" /\ call[w].at # "apply"
        /\ call[w].u \in User /\ call[w].p \in User
    BY <2>1, CallShapes DEF MakeFriends, At, AgreeCalls
  <2>3. <<x, y>> \in {<<call[w].u, call[w].p>>, <<call[w].p, call[w].u>>}
    BY <1>2, <2>1, <2>2 DEF TypeOK, Rows, InsertRelation
  <2>4. <<call[w].u, call[w].p>> \in asked \cap agreed
    BY <2>2 DEF ConsentInv, AgreementsSent
  <2> QED
    BY <2>3, <2>4, AgreedStays DEF Agreed
<1> QED
  BY <1>1, <1>2

LEMMA ChatsAgreedStep ==
  ASSUME TypeOK, ChatInv, ConsentInv, [Next]_vars
  PROVE  ChatsAgreed'
<1> SUFFICES ASSUME NEW s \in Session, kind'[s] = "single",
                    NEW x \in members'[s], NEW y \in members'[s], x # y
             PROVE  Agreed(x, y)'
  BY DEF ChatsAgreed
<1>1. CASE kind[s] = "single" /\ x \in members[s] /\ y \in members[s]
  BY <1>1, AgreedStays DEF ConsentInv, ChatsAgreed
<1>2. CASE ~(kind[s] = "single" /\ x \in members[s] /\ y \in members[s])
  <2>1. PICK w \in Worker : ChatStep(w) /\ ~UNCHANGED <<kind, members>>
    BY <1>2, ChatWriters
  <2>2. ~InsertsChat(w)
    BY <1>2 DEF TypeOK, ChatInv, Ownership, NotYetMade, InsertsChat
  <2>3. ~DissolvesChat(w) /\ ~Kicks(w)
    <3>1. DissolvesChat(w) => kind[s] = "single" /\ members'[s] \subseteq members[s]
      <4> SUFFICES ASSUME NEW t \in Session, RemoveSession(t)
                   PROVE  kind[s] = "single" /\ members'[s] \subseteq members[s]
        BY DEF DissolvesChat
      <4>1. t # s
        BY DEF TypeOK, RemoveSession
      <4> QED
        BY <4>1 DEF TypeOK, RemoveSession
    <3>2. Kicks(w) => kind[s] = "single" /\ members'[s] \subseteq members[s]
      BY <1>2 DEF TypeOK, Kicks
    <3> QED
      BY <1>2, <3>1, <3>2
  <2>4. AppendsMembers(w) /\ call[w].s = s
    BY <1>2, <2>1, <2>2, <2>3 DEF TypeOK, ChatStep, AppendsMembers
  <2>5. call[w].op = "agree" /\ call[w].at = "members"
    BY <2>4 DEF ChatInv, Ownership, NotYetFilled, KindMade, AppendsMembers
  <2>6. members'[s] = {call[w].u, call[w].p}
    BY <2>4, <2>5 DEF TypeOK, AppendsMembers
  <2>7. <<call[w].u, call[w].p>> \in asked \cap agreed
    BY <2>5 DEF ConsentInv, AgreementsSent
  <2> QED
    BY <2>6, <2>7, AgreedStays DEF Agreed
<1> QED
  BY <1>1, <1>2

LEMMA ConsentInvHolds == Spec => []ConsentInv
<1>1. Init => ConsentInv
  BY DEF Init, NoRows, Idle, ConsentInv, AppliesAsked, AgreementsSent, FriendsAgreed, ChatsAgreed
<1>2. TypeOK /\ ChatInv /\ ConsentInv /\ [Next]_vars => ConsentInv'
  BY AppliesAskedStep, AgreementsSentStep, FriendsAgreedStep, ChatsAgreedStep DEF ConsentInv
<1> QED
  BY <1>1, <1>2, TypeCorrect, ChatInvHolds, PTL DEF Spec

\* Pair, without the tuple notation.
LEMMA PairType == ASSUME NEW q \in Pair PROVE q[1] \in User /\ q[2] \in User /\ q[1] # q[2]
BY DEF Pair

\* Nobody is a friend of, or shares a chat of two with, a user without that one of
\* them asked and the other agreed (FriendAddProcess looks the application up before
\* it writes anything).
THEOREM NoFriendshipWithoutConsent == Spec => []Consent
<1>1. ConsentInv => Consent
  <2> SUFFICES ASSUME ConsentInv, NEW q \in Pair,
                      relation[q[1]][q[2]] > 0 \/ SingleChats(q[1], q[2]) # {}
               PROVE  Agreed(q[1], q[2])
    <3>1. \A q \in Pair : q = <<q[1], q[2]>>
      BY DEF Pair
    <3> QED
      BY <3>1 DEF Consent, Agreed
  <2>1. q[1] \in User /\ q[2] \in User /\ q[1] # q[2]
    BY PairType
  <2>2. CASE relation[q[1]][q[2]] > 0
    BY <2>1, <2>2 DEF ConsentInv, FriendsAgreed
  <2>3. CASE SingleChats(q[1], q[2]) # {}
    BY <2>1, <2>3 DEF ConsentInv, ChatsAgreed, SingleChats
  <2> QED
    BY <2>2, <2>3
<1> QED
  BY <1>1, ConsentInvHolds, PTL

-------------------------------------------------------------------------------
(* One chat for two friends                                                  *)

\* How far the request of a pair has got: the agreement that has made u and p friends
\* and has still to make their chat, the removal that has ended the friendship and has
\* still to dissolve it.
OnTwo(w) == call[w] # Idle /\ call[w].op \in {"add", "agree", "refuse", "unfriend"}
Of(w, u, p) == OnTwo(w) /\ {call[w].u, call[w].p} = {u, p}
MadeBy(w, u, p) == Of(w, u, p) /\ call[w].op = "agree" /\ call[w].at \in {"session", "members"}
EndedBy(w, u, p) == Of(w, u, p) /\ call[w].op = "unfriend" /\ call[w].at = "session"
HalfMade(u, p) == \E w \in Worker : MadeBy(w, u, p)
HalfEnded(u, p) == \E w \in Worker : EndedBy(w, u, p)

OneAtATime == ~overlap => \A w, v \in Worker : call[w] # Idle /\ call[v] # Idle => w = v
CrossedBoth == \A u, p \in User : <<u, p>> \in crossed => <<p, u>> \in crossed
TornBoth == \A u, p \in User : <<u, p>> \in torn => <<p, u>> \in torn
SmallChats ==
  \A s \in Session : kind[s] = "single" =>
    \E u, p \in User : members[s] \subseteq {u, p}

\* Requests have run one at a time, and nothing has failed.
Calm == ~overlap /\ faults = 0

\* What the tables say of u and p together ...
PairTables(u, p) ==
  /\ relation[u][p] \in {0, 1} /\ apply[u][p] \in {0, 1}
  /\ apply[u][p] = 1 => relation[u][p] = 0 /\ apply[p][u] = 0
  /\ \A s, t \in SingleChats(u, p) : s = t
  /\ relation[u][p] = 0 => SingleChats(u, p) = {} \/ HalfEnded(u, p)
  /\ relation[u][p] = 1 => SingleChats(u, p) # {} \/ HalfMade(u, p)

\* ... and what the handler at work on u and p has made sure of.
PairRead(w, u, p) ==
  /\ call[w].op = "add" /\ call[w].at \in {"apply", "insert"} => relation[u][p] = 0
  /\ call[w].op = "add" /\ call[w].at = "insert" => apply[call[w].u][call[w].p] = 0
  /\ call[w].op = "agree" /\ call[w].at = "remove" => apply[call[w].u][call[w].p] = 1
  /\ call[w].op = "agree" /\ call[w].at = "relation" =>
       relation[u][p] = 0 /\ apply[u][p] = 0
  /\ call[w].op = "agree" /\ call[w].at \in {"session", "members"} =>
       relation[u][p] = 1 /\ SingleChats(u, p) = {}
  /\ call[w].op = "unfriend" /\ call[w].at = "session" => relation[u][p] = 0

Ledger ==
  Calm => \A u, p \in User : u # p /\ <<u, p>> \notin crossed \cup torn =>
            /\ PairTables(u, p)
            /\ \A w \in Worker : Of(w, u, p) => PairRead(w, u, p)

ShareInv == OneAtATime /\ CrossedBoth /\ TornBoth /\ SmallChats /\ Ledger

LEMMA AnswerTwo ==
  ASSUME TypeOK, NEW w \in Worker, Answer(w)
  PROVE  ~OnTwo(w)'
BY DEF TypeOK, Answer, OnTwo

LEMMA GotoTwo ==
  ASSUME TypeOK, NEW w \in Worker, NEW at, Goto(w, at), OnTwo(w)
  PROVE  /\ OnTwo(w)' /\ call'[w].op = call[w].op /\ call'[w].at = at
         /\ call'[w].u = call[w].u /\ call'[w].p = call[w].p
         /\ call[w].op = "agree" => call'[w].s = call[w].s
<1>1. call'[w] = [call[w] EXCEPT !.at = at]
  BY DEF Goto, TypeOK
<1>2. call[w].op \in {"add", "agree", "refuse", "unfriend"}
  BY DEF OnTwo
<1>3. CASE call[w].op = "add"
  BY <1>1, <1>3, CallShapes DEF OnTwo, AddCalls, Idle
<1>4. CASE call[w].op = "agree"
  BY <1>1, <1>4, CallShapes DEF OnTwo, AgreeCalls, Idle
<1>5. CASE call[w].op = "refuse"
  BY <1>1, <1>5, CallShapes DEF OnTwo, RefuseCalls, Idle
<1>6. CASE call[w].op = "unfriend"
  BY <1>1, <1>6, CallShapes DEF OnTwo, UnfriendCalls, Idle
<1> QED
  BY <1>2, <1>3, <1>4, <1>5, <1>6

\* A request comes to an idle worker and starts at its first step.
FirstStep(w) ==
  /\ call[w] = Idle /\ call'[w] # Idle
  /\ overlap' = (overlap \/ \E v \in Worker \ {w} : call[v] # Idle)
  /\ OnTwo(w)' => /\ call'[w].op \in {"add", "unfriend"} => call'[w].at = "relation"
                  /\ call'[w].op \in {"agree", "refuse"} => call'[w].at = "apply"

LEMMA RequestFirst ==
  ASSUME TypeOK, NEW w \in Worker, Request(w)
  PROVE  FirstStep(w) /\ UNCHANGED <<tables, faults, crossed, torn>>
<1> DEFINE P == FirstStep(w) /\ UNCHANGED <<tables, faults, crossed, torn>>
<1>0. ASSUME NEW c, Start(w, c), c.op # "idle", UNCHANGED <<tables, faults, crossed, torn>>,
             c.op \in {"add", "agree", "refuse", "unfriend"} =>
               /\ c.op \in {"add", "unfriend"} => c.at = "relation"
               /\ c.op \in {"agree", "refuse"} => c.at = "apply"
      PROVE  P
  <2>1. call'[w] = c /\ call'[w] # Idle
    BY <1>0, StartCall DEF Idle
  <2> QED
    BY <1>0, <2>1 DEF FirstStep, Start, OnTwo
<1>1. ASSUME NEW u \in User, NEW p \in User, CallFriendAdd(w, u, p) PROVE P
  <2> DEFINE c == [op |-> "add", u |-> u, p |-> p, at |-> "relation"]
  <2> QED
    BY <1>0, <1>1 DEF CallFriendAdd, history
<1>2. ASSUME NEW u \in User, NEW p \in User, CallFriendRemove(w, u, p) PROVE P
  BY <1>0, <1>2 DEF CallFriendRemove, history
<1>3. ASSUME NEW s \in Session, NEW u \in User, CallRemoveChatSessionMember(w, s, u) PROVE P
  BY <1>0, <1>3 DEF CallRemoveChatSessionMember, history
<1>4. ASSUME NEW u \in User, NEW p \in User, CallFriendAddProcess(w, u, p) PROVE P
  <2>1. ASSUME NEW s \in Session,
               Start(w, [op |-> "agree", u |-> u, p |-> p, s |-> s, at |-> "apply"])
        PROVE  P
    BY <1>0, <1>4, <2>1 DEF CallFriendAddProcess
  <2>2. CASE Start(w, [op |-> "refuse", u |-> u, p |-> p, at |-> "apply"])
    BY <1>0, <1>4, <2>2 DEF CallFriendAddProcess
  <2> QED
    BY <1>4, <2>1, <2>2 DEF CallFriendAddProcess
<1>5. ASSUME NEW list \in SUBSET User, CallChatSessionCreate(w, list) PROVE P
  <2>1. PICK s \in Session :
               Start(w, [op |-> "create", s |-> s, list |-> list, at |-> "session"])
    BY <1>5 DEF CallChatSessionCreate
  <2> QED
    BY <1>0, <1>5, <2>1 DEF CallChatSessionCreate, history
<1> HIDE DEF P
<1>6. P
  BY <1>1, <1>2, <1>3, <1>4, <1>5 DEF Request
<1> QED
  BY <1>6 DEF P

LEMMA HandlerBusy ==
  ASSUME TypeOK, NEW w \in Worker, Handler(w)
  PROVE  call[w] # Idle /\ UNCHANGED overlap
BY DEF Handler, FriendAdd, TakeApply, MakeFriends, FriendRemove, ChatSessionCreate,
       RemoveChatSessionMember, Kept, Idle

LEMMA OneAtATimeStep == ASSUME TypeOK, OneAtATime, [Next]_vars PROVE OneAtATime'
<1> SUFFICES ASSUME ~overlap', NEW x \in Worker, NEW y \in Worker,
                    call'[x] # Idle, call'[y] # Idle
             PROVE  x = y
  BY DEF OneAtATime, Idle
<1>1. CASE UNCHANGED vars
  BY <1>1 DEF vars, OneAtATime
<1>2. CASE call' = [v \in Worker |-> Idle]
  BY <1>2
<1>3. ASSUME NEW v \in Worker, Request(v) PROVE x = y
  <2>1. \A z \in Worker \ {v} : call[z] = Idle /\ call'[z] = call[z]
    BY <1>3, RequestFirst, RequestNew DEF FirstStep
  <2> QED
    BY <2>1
<1>4. ASSUME NEW v \in Worker, Handler(v), call' # [z \in Worker |-> Idle] PROVE x = y
  <2>1. \A z \in Worker \ {v} : call[z] = Idle /\ call'[z] = call[z]
    BY <1>4, HandlerBusy, HandlerCalls DEF OneAtATime
  <2> QED
    BY <2>1
<1> QED
  BY <1>1, <1>2, <1>3, <1>4 DEF Next, Crash

LEMMA CrossedBothStep == ASSUME TypeOK, CrossedBoth, [Next]_vars PROVE CrossedBoth'
<1>1. CASE UNCHANGED crossed
  BY <1>1 DEF CrossedBoth
<1>2. ASSUME NEW w \in Worker, Request(w) PROVE UNCHANGED crossed
  BY <1>2, RequestFirst
<1>3. ASSUME NEW w \in Worker, FriendAdd(w) PROVE CrossedBoth'
  <2>1. \/ UNCHANGED crossed
        \/ crossed' = crossed \cup {<<call[w].u, call[w].p>>, <<call[w].p, call[w].u>>}
    BY <1>3 DEF FriendAdd, history
  <2> QED
    BY <2>1 DEF CrossedBoth
<1>4. ASSUME NEW w \in Worker,
             \/ TakeApply(w) \/ MakeFriends(w) \/ FriendRemove(w) \/ ChatSessionCreate(w)
             \/ RemoveChatSessionMember(w)
      PROVE  UNCHANGED crossed
  BY <1>4 DEF TakeApply, MakeFriends, FriendRemove, ChatSessionCreate,
              RemoveChatSessionMember, Kept, history
<1> QED
  BY <1>1, <1>2, <1>3, <1>4 DEF Next, Handler, Crash, vars, history

\* Who tears a pair, and which.
LEMMA TornWriters ==
  ASSUME TypeOK, [Next]_vars
  PROVE  UNCHANGED torn \/ \E s \in Session : Tear(s)
<1>1. CASE UNCHANGED vars \/ Crash
  BY <1>1 DEF vars, history, Crash
<1>2. ASSUME NEW w \in Worker, Request(w) PROVE UNCHANGED torn
  BY <1>2, RequestFirst
<1>3. ASSUME NEW w \in Worker,
             \/ FriendAdd(w) \/ TakeApply(w) \/ MakeFriends(w) \/ ChatSessionCreate(w)
      PROVE  UNCHANGED torn
  BY <1>3 DEF FriendAdd, TakeApply, MakeFriends, ChatSessionCreate, Kept, history
<1>4. ASSUME NEW w \in Worker, FriendRemove(w) PROVE UNCHANGED torn \/ \E s \in Session : Tear(s)
  BY <1>4 DEF FriendRemove, SingleChats
<1>5. ASSUME NEW w \in Worker, RemoveChatSessionMember(w)
      PROVE  UNCHANGED torn \/ \E s \in Session : Tear(s)
  <2>1. call[w].s \in Session
    BY <1>5, CallShapes DEF RemoveChatSessionMember, KickCalls
  <2> QED
    BY <1>5, <2>1 DEF RemoveChatSessionMember
<1> QED
  BY <1>1, <1>2, <1>3, <1>4, <1>5 DEF Next, Handler

LEMMA TearPairs ==
  ASSUME NEW s, Tear(s), NEW x \in User, NEW y \in User
  PROVE  <<x, y>> \in torn' <=> <<x, y>> \in torn \/ (x # y /\ {x, y} \subseteq members[s])
BY DEF Tear, Pair

LEMMA TornBothStep == ASSUME TypeOK, TornBoth, [Next]_vars PROVE TornBoth'
<1>1. CASE UNCHANGED torn
  BY <1>1 DEF TornBoth
<1>2. ASSUME NEW s \in Session, Tear(s) PROVE TornBoth'
  BY <1>2, TearPairs DEF TornBoth
<1> QED
  BY <1>1, <1>2, TornWriters

\* What the step of a handler does to a chat of two that is there already.
LEMMA ChatOfTwo ==
  ASSUME TypeOK, ChatInv, NEW w \in Worker, Handler(w),
         NEW s \in Session, kind[s] = "single", kind'[s] = "single"
  PROVE  \/ members'[s] \subseteq members[s]
         \/ At(w, "agree", "members") /\ members'[s] = {call[w].u, call[w].p}
<1>1. ChatStep(w)
  BY HandlerChats
<1>2. CASE UNCHANGED <<kind, members>>
  BY <1>2
<1>3. CASE InsertsChat(w)
  BY <1>3 DEF InsertsChat
<1>4. CASE AppendsMembers(w) /\ call[w].s = s
  <2>1. call[w].op = "agree"
    BY <1>4 DEF AppendsMembers, ChatInv, Ownership, NotYetFilled, KindMade
  <2> QED
    BY <1>4, <2>1 DEF AppendsMembers, At, Making, TypeOK
<1>5. CASE AppendsMembers(w) /\ call[w].s # s
  BY <1>5 DEF AppendsMembers, TypeOK
<1>6. CASE DissolvesChat(w)
  BY <1>6 DEF DissolvesChat, RemoveSession, TypeOK
<1>7. CASE Kicks(w)
  BY <1>7 DEF Kicks, TypeOK
<1> QED
  BY <1>1, <1>2, <1>3, <1>4, <1>5, <1>6, <1>7 DEF ChatStep

LEMMA NewSingle ==
  ASSUME TypeOK, ChatInv, NEW w \in Worker, Handler(w),
         NEW s \in Session, kind[s] # "single", kind'[s] = "single"
  PROVE  members'[s] = {}
<1>1. ChatStep(w)
  BY HandlerChats
<1>2. InsertsChat(w) /\ call[w].s = s
  BY <1>1 DEF ChatStep, InsertsChat, AppendsMembers, DissolvesChat, RemoveSession, Kicks, TypeOK
<1> QED
  BY <1>2 DEF InsertsChat, ChatInv, Ownership, NotYetMade

LEMMA SmallChatsStep ==
  ASSUME TypeOK, ChatInv, SmallChats, [Next]_vars
  PROVE  SmallChats'
<1>1. CASE UNCHANGED <<kind, members>>
  BY <1>1 DEF SmallChats
<1>2. ASSUME NEW w \in Worker, Handler(w) PROVE SmallChats'
  <2> SUFFICES ASSUME NEW s \in Session, kind'[s] = "single"
               PROVE  \E u, p \in User : members'[s] \subseteq {u, p}
    BY DEF SmallChats
  <2>1. CASE kind[s] = "single"
    <3>1. CASE members'[s] \subseteq members[s]
      BY <2>1, <3>1 DEF SmallChats
    <3>2. CASE At(w, "agree", "members") /\ members'[s] = {call[w].u, call[w].p}
      BY <3>2, CallShapes DEF At, AgreeCalls
    <3> QED
      BY <1>2, <2>1, <3>1, <3>2, ChatOfTwo
  <2>2. CASE kind[s] # "single"
    <3>1. members'[s] = {} /\ \E w1 \in Worker : Making(w1) /\ call[w1].op = "agree"
      <4>1. ChatStep(w)
        BY <1>2, HandlerChats
      <4>2. InsertsChat(w) /\ KindMade(w) = "single"
        BY <2>2, <4>1
           DEF ChatStep, InsertsChat, AppendsMembers, DissolvesChat, RemoveSession, Kicks, TypeOK
      <4> QED
        BY <1>2, <2>2, <4>2, NewSingle DEF InsertsChat, KindMade
    <3>2. PICK w1 \in Worker : Making(w1) /\ call[w1].op = "agree"
      BY <3>1
    <3>3. call[w1].u \in User /\ call[w1].p \in User
      BY <3>2, CallShapes DEF AgreeCalls
    <3> QED
      BY <3>1, <3>3
  <2> QED
    BY <2>1, <2>2
<1> QED
  BY <1>1, <1>2, RequestFirst DEF Next, Crash, vars, tables

\* Calm is not recovered.
LEMMA CalmBefore ==
  ASSUME TypeOK, [Next]_vars, Calm'
  PROVE  Calm
<1>1. ~overlap
  BY RequestFirst, HandlerBusy DEF Next, Crash, vars, FirstStep, Calm
<1>2. Fault \/ UNCHANGED faults
  BY RequestFirst DEF Next, Crash, vars, Handler, FriendAdd, TakeApply, MakeFriends,
     FriendRemove, ChatSessionCreate, RemoveChatSessionMember, Exists, Transact
<1> QED
  BY <1>1, <1>2 DEF Calm, Fault, TypeOK

\* The entry of u and p in the ledger when w is the only handler at work.
Entry(w, u, p) ==
  /\ relation[u][p] \in {0, 1} /\ apply[u][p] \in {0, 1}
  /\ apply[u][p] = 1 => relation[u][p] = 0 /\ apply[p][u] = 0
  /\ \A s, t \in SingleChats(u, p) : s = t
  /\ relation[u][p] = 0 => SingleChats(u, p) = {} \/ EndedBy(w, u, p)
  /\ relation[u][p] = 1 => SingleChats(u, p) # {} \/ MadeBy(w, u, p)
  /\ Of(w, u, p) => PairRead(w, u, p)

\* A handler that is done with its two users, or has no two.
LEMMA EntryKept ==
  ASSUME NEW w \in Worker, NEW x \in User, NEW y \in User, Entry(w, x, y),
         UNCHANGED <<relation, apply>>, SingleChats(x, y)' = SingleChats(x, y),
         ~OnTwo(w)', ~MadeBy(w, x, y), ~EndedBy(w, x, y)
  PROVE  Entry(w, x, y)'
BY DEF Entry, MadeBy, EndedBy, Of

LEMMA FriendAddEntry ==
  ASSUME TypeOK, RelationSymmetric, NEW w \in Worker, FriendAdd(w), UNCHANGED faults,
         NEW x \in User, NEW y \in User, x # y, <<x, y>> \notin crossed',
         Entry(w, x, y)
  PROVE  Entry(w, x, y)'
<1> DEFINE u == call[w].u
           p == call[w].p
<1>1. u \in User /\ p \in User /\ OnTwo(w) /\ call[w].op = "add"
  BY CallShapes DEF FriendAdd, AddCalls, OnTwo, Idle
<1>2. ~Fault
  BY DEF Fault, TypeOK
<1>3. SingleChats(x, y)' = SingleChats(x, y) /\ UNCHANGED relation
  BY DEF FriendAdd, Exists, Transact, tables, SingleChats
<1>4. ~MadeBy(w, x, y) /\ ~EndedBy(w, x, y)
  BY <1>1 DEF MadeBy, EndedBy
<1>5. CASE At(w, "add", "relation")
  <2>1. UNCHANGED apply
    BY <1>5 DEF FriendAdd, At, Exists, tables
  <2>2. CASE Answer(w)
    BY <1>3, <1>4, <2>1, <2>2, AnswerTwo, EntryKept
  <2>3. CASE relation[u][p] = 0 /\ Goto(w, "apply")
    <3>1. /\ OnTwo(w)' /\ call'[w].op = "add" /\ call'[w].at = "apply"
          /\ call'[w].u = u /\ call'[w].p = p
      BY <1>1, <2>3, GotoTwo
    <3>2. Of(w, x, y) => relation[x][y] = 0
      BY <1>1, <2>3 DEF Of, RelationSymmetric
    <3> QED
      BY <1>1, <1>3, <1>4, <2>1, <3>1, <3>2 DEF Entry, MadeBy, EndedBy, Of, PairRead
  <2> QED
    BY <1>2, <1>5, <2>2, <2>3 DEF FriendAdd, At, Exists
<1>6. CASE At(w, "add", "apply")
  <2>1. UNCHANGED apply
    BY <1>6 DEF FriendAdd, At, Exists, tables
  <2>2. CASE Answer(w)
    BY <1>3, <1>4, <2>1, <2>2, AnswerTwo, EntryKept
  <2>3. CASE apply[u][p] = 0 /\ Goto(w, "insert")
    <3>1. /\ OnTwo(w)' /\ call'[w].op = "add" /\ call'[w].at = "insert"
          /\ call'[w].u = u /\ call'[w].p = p
      BY <1>1, <2>3, GotoTwo
    <3>2. Of(w, x, y) => relation[x][y] = 0
      BY <1>1, <1>6 DEF Entry, PairRead, At
    <3> QED
      BY <1>1, <1>3, <1>4, <2>1, <2>3, <3>1, <3>2 DEF Entry, MadeBy, EndedBy, Of, PairRead
  <2> QED
    BY <1>2, <1>6, <2>2, <2>3 DEF FriendAdd, At, Exists
<1>7. CASE At(w, "add", "insert")
  <2>1. apply' = [apply EXCEPT ![u][p] = @ + 1] /\ Answer(w)
    BY <1>2, <1>7 DEF FriendAdd, At, Transact
  <2>2. ~OnTwo(w)'
    BY <2>1, AnswerTwo
  <2>3. apply[u][p] \in Nat /\ apply[p][u] \in Nat /\ apply[x][y] \in Nat
    BY <1>1 DEF TypeOK, Rows
  <2>4. \A a, b \in User : <<a, b>> # <<u, p>> => apply'[a][b] = apply[a][b]
    BY <1>1, <2>1 DEF TypeOK, Rows
  <2>5. CASE {x, y} = {u, p}
    <3>1. Of(w, x, y)
      BY <1>1, <2>5 DEF Of
    <3>2. relation[x][y] = 0 /\ apply[u][p] = 0
      BY <1>1, <1>7, <3>1 DEF Entry, PairRead, At
    <3>3. apply'[u][p] = 1
      BY <1>1, <2>1, <3>2 DEF TypeOK, Rows
    <3>4. apply[p][u] = 0
      <4>1. crossed' = IF apply[p][u] > 0 THEN crossed \cup {<<u, p>>, <<p, u>>} ELSE crossed
        BY <1>7 DEF FriendAdd, At
      <4> QED
        BY <2>3, <2>5, <4>1
    <3>5. apply'[p][u] = 0
      BY <1>1, <2>4, <2>5, <3>4
    <3>6. apply'[x][y] \in {0, 1} /\ (apply'[x][y] = 1 => apply'[y][x] = 0)
      BY <2>5, <3>3, <3>5
    <3> QED
      BY <1>3, <1>4, <2>2, <3>2, <3>6 DEF Entry, MadeBy, EndedBy, Of
  <2>6. CASE {x, y} # {u, p}
    <3>1. apply'[x][y] = apply[x][y] /\ apply'[y][x] = apply[y][x]
      BY <2>4, <2>6
    <3> QED
      BY <1>3, <1>4, <2>2, <3>1 DEF Entry, MadeBy, EndedBy, Of
  <2> QED
    BY <2>5, <2>6
<1> QED
  BY <1>5, <1>6, <1>7 DEF FriendAdd

LEMMA TakeApplyEntry ==
  ASSUME TypeOK, NEW w \in Worker, TakeApply(w), UNCHANGED faults,
         NEW x \in User, NEW y \in User, x # y, Entry(w, x, y), Entry(w, y, x)
  PROVE  Entry(w, x, y)'
<1> DEFINE u == call[w].u
           p == call[w].p
<1>1. u \in User /\ p \in User /\ OnTwo(w) /\ call[w].op \in {"agree", "refuse"}
  BY CallShapes DEF TakeApply, AgreeCalls, RefuseCalls, OnTwo, Idle
<1>2. ~Fault
  BY DEF Fault, TypeOK
<1>3. SingleChats(x, y)' = SingleChats(x, y) /\ UNCHANGED relation
  BY DEF TakeApply, Exists, Transact, tables, SingleChats
<1>4. ~MadeBy(w, x, y) /\ ~EndedBy(w, x, y)
  BY <1>1 DEF TakeApply, MadeBy, EndedBy
<1>5. CASE call[w].at = "apply"
  <2>1. UNCHANGED apply
    BY <1>5 DEF TakeApply, Exists, tables
  <2>2. CASE Answer(w)
    BY <1>3, <1>4, <2>1, <2>2, AnswerTwo, EntryKept
  <2>3. CASE apply[u][p] > 0 /\ Goto(w, "remove")
    <3>1. /\ OnTwo(w)' /\ call'[w].op = call[w].op /\ call'[w].at = "remove"
          /\ call'[w].u = u /\ call'[w].p = p
      BY <1>1, <2>3, GotoTwo
    <3>2. Of(w, x, y) => apply[u][p] = 1
      BY <1>1, <2>3 DEF Of, Entry
    <3> QED
      BY <1>1, <1>3, <1>4, <2>1, <3>1, <3>2 DEF Entry, MadeBy, EndedBy, Of, PairRead
  <2> QED
    BY <1>2, <1>5, <2>2, <2>3 DEF TakeApply, Exists
<1>6. CASE call[w].at = "remove"
  <2>1. /\ apply' = [apply EXCEPT ![u][p] = 0]
        /\ IF call[w].op = "agree" THEN Goto(w, "relation") ELSE Answer(w)
    BY <1>2, <1>6 DEF TakeApply, Transact
  <2>2. /\ apply'[u][p] = 0
        /\ \A a, b \in User : <<a, b>> # <<u, p>> => apply'[a][b] = apply[a][b]
    BY <1>1, <2>1 DEF TypeOK, Rows
  <2>3. \A a, b \in User : apply'[a][b] \in {0, apply[a][b]}
    BY <2>2
  <2>4. CASE call[w].op = "refuse"
    <3>1. ~OnTwo(w)'
      BY <2>1, <2>4, AnswerTwo
    <3> QED
      BY <1>3, <1>4, <2>3, <3>1 DEF Entry, MadeBy, EndedBy, Of
  <2>5. CASE call[w].op = "agree"
    <3>1. /\ OnTwo(w)' /\ call'[w].op = "agree" /\ call'[w].at = "relation"
          /\ call'[w].u = u /\ call'[w].p = p
      BY <1>1, <2>1, <2>5, GotoTwo
    <3>2. ASSUME Of(w, x, y) PROVE relation[x][y] = 0 /\ apply'[x][y] = 0
      <4>1. apply[u][p] = 1
        BY <1>6, <2>5, <3>2 DEF Entry, PairRead
      <4>2. CASE x = u /\ y = p
        BY <2>2, <4>1, <4>2 DEF Entry
      <4>3. CASE x = p /\ y = u
        <5>1. apply[x][y] = 0 /\ relation[y][x] = 0
          BY <4>1, <4>3 DEF Entry
        <5>2. ~(relation[x][y] = 1)
          BY <1>4, <5>1 DEF Entry, SingleChats, EndedBy, Of
        <5> QED
          BY <2>3, <5>1, <5>2 DEF Entry
      <4> QED
        BY <3>2, <4>2, <4>3 DEF Of
    <3> QED
      BY <1>1, <1>3, <1>4, <2>3, <3>1, <3>2 DEF Entry, MadeBy, EndedBy, Of, PairRead
  <2> QED
    BY <1>1, <2>4, <2>5
<1> QED
  BY <1>5, <1>6 DEF TakeApply

LEMMA MakeFriendsEntry ==
  ASSUME TypeOK, ChatInv, NEW w \in Worker, MakeFriends(w), UNCHANGED faults,
         NEW x \in User, NEW y \in User, x # y, Entry(w, x, y), Entry(w, y, x)
  PROVE  Entry(w, x, y)'
<1> DEFINE u == call[w].u
           p == call[w].p
           s == call[w].s
<1>1. /\ u \in User /\ p \in User /\ s \in Session
      /\ OnTwo(w) /\ Making(w) /\ call[w].op = "agree"
  BY CallShapes DEF MakeFriends, AgreeCalls, OnTwo, Idle, Making
<1>2. ~Fault
  BY DEF Fault, TypeOK
<1>3. ~EndedBy(w, x, y) /\ ~EndedBy(w, y, x)
  BY <1>1 DEF EndedBy
<1>4. UNCHANGED apply
  BY DEF MakeFriends, Transact, tables
<1>5. CASE At(w, "agree", "relation")
  <2>1. /\ relation' = [relation EXCEPT ![p][u] = @ + 1, ![u][p] = @ + 1]
        /\ Goto(w, "session")
    BY <1>2, <1>5 DEF MakeFriends, At, Transact, InsertRelation
  <2>2. /\ OnTwo(w)' /\ call'[w].op = "agree" /\ call'[w].at = "session"
        /\ call'[w].u = u /\ call'[w].p = p
    BY <1>1, <2>1, GotoTwo
  <2>3. SingleChats(x, y)' = SingleChats(x, y)
    BY <1>5 DEF MakeFriends, At, Transact, tables, SingleChats
  <2>4. CASE Of(w, x, y)
    <3>1. relation[x][y] = 0 /\ apply[x][y] = 0
      BY <1>5, <2>4 DEF Entry, PairRead, At
    <3>2. relation'[x][y] = 1
      <4>1. u # p => /\ relation'[u][p] = relation[u][p] + 1
                     /\ relation'[p][u] = relation[p][u] + 1
        BY <1>1, <2>1 DEF TypeOK, Rows
      <4>2. u # p /\ (<<x, y>> = <<u, p>> \/ <<x, y>> = <<p, u>>)
        BY <2>4 DEF Of
      <4> QED
        BY <3>1, <4>1, <4>2
    <3>3. SingleChats(x, y) = {}
      BY <1>3, <3>1 DEF Entry
    <3>4. MadeBy(w, x, y)'
      BY <2>2, <2>4 DEF MadeBy, Of
    <3> QED
      BY <1>4, <2>2, <2>3, <3>1, <3>2, <3>3, <3>4 DEF Entry, PairRead
  <2>5. CASE ~Of(w, x, y)
    <3>1. relation'[x][y] = relation[x][y]
      BY <1>1, <2>1, <2>5 DEF Of, TypeOK, Rows
    <3>2. ~Of(w, x, y)'
      BY <1>1, <2>2, <2>5 DEF Of
    <3> QED
      BY <1>3, <1>4, <2>3, <2>5, <3>1, <3>2 DEF Entry, MadeBy, EndedBy
  <2> QED
    BY <2>4, <2>5
<1>6. CASE At(w, "agree", "session")
  <2>1. kind' = [kind EXCEPT ![s] = "single"] /\ UNCHANGED <<relation, members>> /\ Goto(w, "members")
    BY <1>2, <1>6 DEF MakeFriends, At, Transact
  <2>2. /\ OnTwo(w)' /\ call'[w].op = "agree" /\ call'[w].at = "members"
        /\ call'[w].u = u /\ call'[w].p = p
    BY <1>1, <2>1, GotoTwo
  <2>3. SingleChats(x, y)' = SingleChats(x, y)
    <3>1. members[s] = {}
      BY <1>1, <1>6 DEF At, ChatInv, Ownership, NotYetMade
    <3> QED
      BY <2>1, <3>1 DEF SingleChats, TypeOK
  <2> QED
    BY <1>1, <1>3, <1>4, <1>6, <2>1, <2>2, <2>3 DEF Entry, MadeBy, EndedBy, Of, PairRead, At
<1>7. CASE At(w, "agree", "members")
  <2>1. members' = [members EXCEPT ![s] = {u, p}] /\ UNCHANGED <<relation, kind>> /\ Answer(w)
    BY <1>2, <1>7 DEF MakeFriends, At, Transact
  <2>2. ~OnTwo(w)'
    BY <2>1, AnswerTwo
  <2>3. kind[s] = "single" /\ members[s] = {}
    BY <1>1, <1>7 DEF At, ChatInv, Ownership, NotYetFilled, KindMade
  <2>4. CASE Of(w, x, y)
    <3>1. relation[x][y] = 1 /\ SingleChats(x, y) = {}
      BY <1>7, <2>4 DEF Entry, PairRead, At
    <3>2. SingleChats(x, y)' = {s}
      BY <1>1, <2>1, <2>3, <2>4, <3>1 DEF SingleChats, Of, TypeOK
    <3> QED
      BY <1>4, <2>1, <2>2, <3>1, <3>2 DEF Entry, Of
  <2>5. CASE ~Of(w, x, y)
    <3>1. SingleChats(x, y)' = SingleChats(x, y)
      BY <1>1, <2>1, <2>3, <2>5 DEF SingleChats, Of, TypeOK
    <3> QED
      BY <1>4, <2>1, <2>2, <2>5, <3>1, EntryKept DEF MadeBy, EndedBy
  <2> QED
    BY <2>4, <2>5
<1> QED
  BY <1>5, <1>6, <1>7 DEF MakeFriends

LEMMA FriendRemoveEntry ==
  ASSUME TypeOK, SmallChats, NEW w \in Worker, FriendRemove(w), UNCHANGED faults,
         NEW x \in User, NEW y \in User, x # y, <<x, y>> \notin torn', Entry(w, x, y)
  PROVE  Entry(w, x, y)'
<1> DEFINE u == call[w].u
           p == call[w].p
<1>1. /\ u \in User /\ p \in User /\ OnTwo(w) /\ call[w].op = "unfriend"
  BY CallShapes DEF FriendRemove, UnfriendCalls, OnTwo, Idle
<1>2. ~Fault
  BY DEF Fault, TypeOK
<1>3. UNCHANGED apply /\ ~MadeBy(w, x, y)
  BY <1>1 DEF FriendRemove, Transact, tables, MadeBy
<1>4. CASE At(w, "unfriend", "relation")
  <2>1. relation' = [relation EXCEPT ![u][p] = 0, ![p][u] = 0] /\ Goto(w, "session")
    BY <1>2, <1>4 DEF FriendRemove, At, Transact, RemoveRelation
  <2>2. /\ OnTwo(w)' /\ call'[w].op = "unfriend" /\ call'[w].at = "session"
        /\ call'[w].u = u /\ call'[w].p = p
    BY <1>1, <2>1, GotoTwo
  <2>3. SingleChats(x, y)' = SingleChats(x, y)
    BY <1>4 DEF FriendRemove, At, Transact, tables, SingleChats
  <2>4. CASE Of(w, x, y)
    <3>1. relation'[x][y] = 0
      BY <1>1, <2>1, <2>4 DEF Of, TypeOK, Rows
    <3>2. EndedBy(w, x, y)'
      BY <2>2, <2>4 DEF EndedBy, Of
    <3> QED
      BY <1>3, <2>2, <2>3, <3>1, <3>2 DEF Entry, PairRead
  <2>5. CASE ~Of(w, x, y)
    <3>1. relation'[x][y] = relation[x][y]
      BY <1>1, <2>1, <2>5 DEF Of, TypeOK, Rows
    <3>2. ~Of(w, x, y)'
      BY <1>1, <2>2, <2>5 DEF Of
    <3> QED
      BY <1>3, <2>3, <2>5, <3>1, <3>2 DEF Entry, EndedBy
  <2> QED
    BY <2>4, <2>5
<1>5. CASE At(w, "unfriend", "session") /\ SingleChats(u, p) # {}
  <2>1. PICK s \in SingleChats(u, p) : RemoveSession(s) /\ (u = p => Tear(s))
    BY <1>2, <1>5 DEF FriendRemove, At, Transact
  <2>2. UNCHANGED relation /\ Answer(w)
    BY <1>2, <1>5 DEF FriendRemove, At, Transact
  <2>3. ~OnTwo(w)'
    BY <2>2, AnswerTwo
  <2>4. SingleChats(x, y)' = SingleChats(x, y) \ {s}
    BY <2>1 DEF SingleChats, RemoveSession, TypeOK
  <2>5. CASE Of(w, x, y)
    <3>1. relation[x][y] = 0 /\ s \in SingleChats(x, y)
      BY <1>5, <2>1, <2>5 DEF Entry, PairRead, At, Of, SingleChats
    <3>2. SingleChats(x, y)' = {}
      BY <2>4, <3>1 DEF Entry
    <3> QED
      BY <1>3, <2>2, <2>3, <3>1, <3>2 DEF Entry, Of
  <2>6. CASE ~Of(w, x, y)
    <3>1. s \notin SingleChats(x, y)
      <4>1. CASE u # p
        <5>1. PICK a \in User, b \in User : members[s] \subseteq {a, b}
          BY <2>1 DEF SmallChats, SingleChats
        <5> QED
          BY <1>1, <2>1, <2>6, <4>1, <5>1 DEF SingleChats, Of
      <4>2. CASE u = p
        BY <2>1, <4>2, TearPairs DEF SingleChats
      <4> QED
        BY <4>1, <4>2
    <3> QED
      BY <1>3, <2>2, <2>3, <2>4, <2>6, <3>1, EntryKept DEF EndedBy
  <2> QED
    BY <2>5, <2>6
<1>6. CASE At(w, "unfriend", "session") /\ SingleChats(u, p) = {}
  <2>1. ~OnTwo(w)' /\ UNCHANGED tables
    BY <1>2, <1>6 DEF FriendRemove, At, OnTwo
  <2>2. SingleChats(x, y)' = SingleChats(x, y)
    BY <2>1 DEF tables, SingleChats
  <2>3. Of(w, x, y) => SingleChats(x, y) = {} /\ relation[x][y] = 0
    BY <1>6 DEF Entry, PairRead, At, Of, SingleChats
  <2> QED
    BY <1>3, <2>1, <2>2, <2>3 DEF Entry, EndedBy, Of, tables
<1> QED
  BY <1>4, <1>5, <1>6 DEF FriendRemove

LEMMA CreateEntry ==
  ASSUME TypeOK, ChatInv, NEW w \in Worker, ChatSessionCreate(w), UNCHANGED faults,
         NEW x \in User, NEW y \in User, x # y, Entry(w, x, y)
  PROVE  Entry(w, x, y)'
<1> DEFINE s == call[w].s
<1>1. call[w].op = "create" /\ Making(w) /\ s \in Session
  BY CallShapes DEF ChatSessionCreate, CreateCalls, At, Making
<1>2. ~Fault
  BY DEF Fault, TypeOK
<1>3. ~OnTwo(w)' /\ ~MadeBy(w, x, y) /\ ~EndedBy(w, x, y)
  <2>1. OwnStep(w)
    BY HandlerOwn DEF Handler
  <2>2. call'[w] = Idle \/ call'[w].op = "create"
    BY <1>1, <2>1 DEF OwnStep, Ended, GoesTo
  <2> QED
    BY <1>1, <2>2 DEF OnTwo, MadeBy, EndedBy
<1>4. UNCHANGED <<relation, apply>>
  BY DEF ChatSessionCreate, Transact, tables
<1>5. SingleChats(x, y)' = SingleChats(x, y)
  <2>1. CASE At(w, "create", "session")
    <3>1. kind' = [kind EXCEPT ![s] = "group"] /\ UNCHANGED members
      BY <1>2, <2>1 DEF ChatSessionCreate, At, Transact
    <3>2. kind[s] = "none"
      BY <1>1, <2>1 DEF At, ChatInv, Ownership, NotYetMade
    <3> QED
      BY <3>1, <3>2 DEF SingleChats, TypeOK
  <2>2. CASE At(w, "create", "members")
    <3>1. members' = [members EXCEPT ![s] = call[w].list] /\ UNCHANGED kind
      BY <1>2, <2>2 DEF ChatSessionCreate, At
    <3>2. kind[s] = "group"
      BY <1>1, <2>2 DEF At, ChatInv, Ownership, NotYetFilled, KindMade
    <3> QED
      BY <3>1, <3>2 DEF SingleChats, TypeOK
  <2>3. CASE At(w, "create", "del")
    BY <2>3 DEF ChatSessionCreate, At, tables, SingleChats
  <2> QED
    BY <2>1, <2>2, <2>3 DEF ChatSessionCreate
<1> QED
  BY <1>3, <1>4, <1>5, EntryKept

LEMMA KickEntry ==
  ASSUME TypeOK, NEW w \in Worker, RemoveChatSessionMember(w), UNCHANGED faults,
         NEW x \in User, NEW y \in User, x # y, <<x, y>> \notin torn', Entry(w, x, y)
  PROVE  Entry(w, x, y)'
<1>1. PICK s \in Session : call[w].op = "kick" /\ call[w].s = s
  BY CallShapes DEF RemoveChatSessionMember, KickCalls
<1>2. ~Fault
  BY DEF Fault, TypeOK
<1>3. call'[w] = Idle \/ call'[w].op = "kick"
  <2>1. OwnStep(w)
    BY HandlerOwn DEF Handler
  <2> QED
    BY <1>1, <2>1 DEF OwnStep, Ended, GoesTo, InsertsChat, Making
<1>4. ~OnTwo(w)' /\ ~MadeBy(w, x, y) /\ ~EndedBy(w, x, y)
  BY <1>1, <1>3 DEF OnTwo, MadeBy, EndedBy
<1>5. UNCHANGED <<relation, apply, kind>>
  BY DEF RemoveChatSessionMember, Transact, tables
<1>6. SingleChats(x, y)' = SingleChats(x, y)
  <2>1. CASE At(w, "kick", "members")
    <3>1. members' = [members EXCEPT ![s] = @ \ {call[w].u}]
      BY <1>1, <1>2, <2>1 DEF RemoveChatSessionMember, At, Transact
    <3>2. ASSUME s \in SingleChats(x, y), call[w].u \in members[s] PROVE FALSE
      <4>1. Tear(s)
        BY <1>1, <2>1, <3>2 DEF RemoveChatSessionMember, At, SingleChats
      <4> QED
        BY <3>2, <4>1, TearPairs DEF SingleChats
    <3> QED
      BY <1>5, <3>1, <3>2 DEF SingleChats, TypeOK
  <2>2. CASE At(w, "kick", "del")
    BY <2>2 DEF RemoveChatSessionMember, At, tables, SingleChats
  <2> QED
    BY <2>1, <2>2 DEF RemoveChatSessionMember
<1> QED
  BY <1>4, <1>5, <1>6, EntryKept

LEMMA HandlerEntry ==
  ASSUME TypeOK, RelationSymmetric, ChatInv, SmallChats,
         NEW w \in Worker, Handler(w), UNCHANGED faults,
         NEW x \in User, NEW y \in User, x # y, <<x, y>> \notin crossed' \cup torn',
         Entry(w, x, y), Entry(w, y, x)
  PROVE  Entry(w, x, y)'
BY FriendAddEntry, TakeApplyEntry, MakeFriendsEntry, FriendRemoveEntry, CreateEntry, KickEntry
   DEF Handler

\* With one handler at work, the ledger is that of its entries.
LEMMA LedgerEntry ==
  ASSUME NEW w \in Worker, \A v \in Worker \ {w} : call[v] = Idle, NEW x \in User, NEW y \in User
  PROVE  Entry(w, x, y) <=>
           /\ PairTables(x, y)
           /\ \A v \in Worker : Of(v, x, y) => PairRead(v, x, y)
<1>1. /\ HalfMade(x, y) <=> MadeBy(w, x, y)
      /\ HalfEnded(x, y) <=> EndedBy(w, x, y)
      /\ \A v \in Worker : Of(v, x, y) => v = w
  BY DEF HalfMade, HalfEnded, MadeBy, EndedBy, Of, OnTwo
<1> QED
  BY <1>1 DEF Entry, PairTables

LEMMA LedgerStep ==
  ASSUME TypeOK, RelationSymmetric, ChatInv, ShareInv, [Next]_vars
  PROVE  Ledger'
<1> SUFFICES ASSUME Calm', NEW x \in User, NEW y \in User, x # y,
                    <<x, y>> \notin crossed' \cup torn'
             PROVE  /\ PairTables(x, y)'
                    /\ \A w \in Worker : Of(w, x, y)' => PairRead(w, x, y)'
  BY DEF Ledger
<1>1. Calm
  BY CalmBefore
<1>2. CASE UNCHANGED vars
  <2>1. <<x, y>> \notin crossed \cup torn
    BY <1>2 DEF vars, history
  <2>2. /\ PairTables(x, y)
        /\ \A w \in Worker : Of(w, x, y) => PairRead(w, x, y)
    BY <1>1, <2>1 DEF ShareInv, Ledger
  <2> QED
    BY <1>2, <2>2 DEF vars, tables, PairTables, PairRead, SingleChats, HalfMade, HalfEnded,
                      MadeBy, EndedBy, Of, OnTwo
<1>3. CASE Crash
  BY <1>1, <1>3 DEF Crash, Fault, Calm
<1>4. ASSUME NEW w \in Worker, Request(w)
      PROVE  /\ PairTables(x, y)'
             /\ \A v \in Worker : Of(v, x, y)' => PairRead(v, x, y)'
  <2>1. FirstStep(w) /\ UNCHANGED <<tables, faults, crossed, torn>>
    BY <1>4, RequestFirst
  <2>2. \A v \in Worker : call[v] = Idle
    BY <2>1 DEF FirstStep, Calm
  <2>3. \A v \in Worker \ {w} : call'[v] = Idle
    BY <1>4, <2>2, RequestNew
  <2>4. PairTables(x, y) /\ ~HalfMade(x, y) /\ ~HalfEnded(x, y)
    BY <1>1, <2>1, <2>2 DEF ShareInv, Ledger, HalfMade, HalfEnded, MadeBy, EndedBy, Of, OnTwo
  <2>5. PairTables(x, y)'
    BY <2>1, <2>4 DEF PairTables, tables, SingleChats
  <2>6. \A v \in Worker : Of(v, x, y)' => v = w
    BY <2>3 DEF Of, OnTwo
  <2>7. Of(w, x, y)' => PairRead(w, x, y)'
    BY <2>1 DEF FirstStep, Of, OnTwo, PairRead
  <2> QED
    BY <2>5, <2>6, <2>7
<1>5. ASSUME NEW w \in Worker, Handler(w)
      PROVE  /\ PairTables(x, y)'
             /\ \A v \in Worker : Of(v, x, y)' => PairRead(v, x, y)'
  <2>1. \A v \in Worker \ {w} : call[v] = Idle
    BY <1>1, <1>5, HandlerBusy DEF ShareInv, OneAtATime, Calm
  <2>2. \A v \in Worker \ {w} : call'[v] = Idle
    BY <1>5, <2>1, HandlerCalls
  <2>3. UNCHANGED faults
    BY <1>1 DEF Calm
  <2>4. <<x, y>> \notin crossed \cup torn /\ <<y, x>> \notin crossed \cup torn
    <3>1. crossed \subseteq crossed'
      BY <1>5 DEF Handler, FriendAdd, TakeApply, MakeFriends, FriendRemove, ChatSessionCreate,
                  RemoveChatSessionMember, Kept, history
    <3>2. <<x, y>> \notin torn
      BY TornWriters, TearPairs
    <3> QED
      BY <3>1, <3>2 DEF ShareInv, CrossedBoth, TornBoth
  <2>5. Entry(w, x, y) /\ Entry(w, y, x)
    BY <1>1, <2>1, <2>4, LedgerEntry DEF ShareInv, Ledger
  <2>6. Entry(w, x, y)'
    BY <1>5, <2>3, <2>5, HandlerEntry DEF ShareInv
  <2>7. Entry(w, x, y)' <=>
          /\ PairTables(x, y)'
          /\ \A v \in Worker : Of(v, x, y)' => PairRead(v, x, y)'
    <3>1. /\ HalfMade(x, y)' <=> MadeBy(w, x, y)'
          /\ HalfEnded(x, y)' <=> EndedBy(w, x, y)'
          /\ \A v \in Worker : Of(v, x, y)' => v = w
      BY <2>2 DEF HalfMade, HalfEnded, MadeBy, EndedBy, Of, OnTwo
    <3> QED
      BY <3>1 DEF Entry, PairTables
  <2> QED
    BY <2>6, <2>7
<1> QED
  BY <1>2, <1>3, <1>4, <1>5 DEF Next

LEMMA ShareInvHolds == Spec => []ShareInv
<1>1. Init => ShareInv
  <2> SUFFICES ASSUME Init PROVE ShareInv
    OBVIOUS
  <2>1. \A w \in Worker : call[w] = Idle
    BY DEF Init
  <2>2. Ledger
    <3> SUFFICES ASSUME NEW u \in User, NEW p \in User
                 PROVE  /\ PairTables(u, p)
                        /\ \A w \in Worker : Of(w, u, p) => PairRead(w, u, p)
      BY DEF Ledger
    <3>1. relation[u][p] = 0 /\ apply[u][p] = 0 /\ SingleChats(u, p) = {}
      BY DEF Init, NoRows, SingleChats
    <3> QED
      BY <2>1, <3>1 DEF PairTables, Of, OnTwo
  <2> QED
    BY <2>1, <2>2 DEF Init, ShareInv, OneAtATime, CrossedBoth, TornBoth, SmallChats
<1>2. TypeOK /\ RelationSymmetric /\ ChatInv /\ ShareInv /\ [Next]_vars => ShareInv'
  BY OneAtATimeStep, CrossedBothStep, TornBothStep, SmallChatsStep, LedgerStep DEF ShareInv
<1> QED
  BY <1>1, <1>2, TypeCorrect, FriendshipIsMutual, ChatInvHolds, PTL DEF Spec

\* Friends have exactly one chat of two and others none, as long as requests ran one
\* at a time and nothing failed, but for pairs whose requests crossed or whose chat was
\* torn (a member taken out, or a user unfriended himself): what FriendAdd looks up
\* keeps a second application, and so a second friendship and chat, from coming about
\* (FriendAdd, FriendAddProcess, FriendRemove).
THEOREM FriendsHaveOneChat == Spec => []FriendsShareOneChat
<1>1. TypeOK /\ ShareInv => FriendsShareOneChat
  <2> SUFFICES ASSUME TypeOK, ShareInv, Quiet, ~overlap, faults = 0,
                      NEW q \in Pair, q \notin crossed \cup torn
               PROVE  relation[q[1]][q[2]] = Cardinality(SingleChats(q[1], q[2]))
    BY DEF FriendsShareOneChat
  <2> DEFINE x == q[1]
             y == q[2]
  <2>1. x \in User /\ y \in User /\ x # y /\ q = <<x, y>>
    BY DEF Pair
  <2>2. Calm
    BY DEF Calm
  <2>3. PairTables(x, y)
    BY <2>1, <2>2 DEF ShareInv, Ledger
  <2>4. ~HalfMade(x, y) /\ ~HalfEnded(x, y)
    BY DEF Quiet, HalfMade, HalfEnded, MadeBy, EndedBy, Of, OnTwo
  <2>5. CASE relation[x][y] = 0
    BY <2>3, <2>4, <2>5, FS_EmptySet DEF PairTables
  <2>6. CASE relation[x][y] = 1
    <3>1. PICK s : SingleChats(x, y) = {s}
      BY <2>3, <2>4, <2>6 DEF PairTables
    <3> QED
      BY <2>6, <3>1, FS_Singleton
  <2> QED
    BY <2>3, <2>5, <2>6 DEF PairTables
<1> QED
  BY <1>1, TypeCorrect, ShareInvHolds, PTL

===============================================================================
