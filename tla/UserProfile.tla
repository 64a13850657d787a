------------------------------ MODULE UserProfile ------------------------------
(***************************************************************************)
(* A user's profile in the User service: the row in MySQL and the document *)
(* of the same user in Elasticsearch, which UserSearch reads.  Handlers of *)
(* registrations and of the four setters run side by side, in one process  *)
(* or in several: each reads a row, later writes the whole row back, and   *)
(* later still writes the whole document.  No transaction spans two of     *)
(* these steps.                                                            *)
(*                                                                         *)
(* Left out: the password, the format checks, and the verification code a  *)
(* request by phone has to show before the steps below.                    *)
(***************************************************************************)
EXTENDS Naturals

CONSTANTS
  User,      \* users, registered or not yet: what uuid() returns
  Nickname, Phone, Description, Avatar,  \* what the fields may be set to
  Worker,    \* threads that serve calls of the User service
  Null,      \* a field without a value
  Absent,    \* no row, no document
  MaxFault   \* bound: failed calls of MySQL and Elasticsearch, crashes

Row == [nickname : Nickname \cup User, phone : Phone \cup {Null},
        description : Description \cup {Null}, avatar_id : Avatar \cup {Null}]

ASSUME ProfileConstants ==
  /\ Absent \notin Row
  /\ Null \notin Nickname \cup User \cup Phone
  /\ MaxFault \in Nat

VARIABLES
  rows,      \* rows[u]: the row of u in table User, or Absent
  docs,      \* docs[u]: the document of u in the index "user", or Absent
  call,      \* call[w]: the handler w runs, with the row it is going to write
  unheard,   \* some UserRegister has returned and sent no response
  outrun,    \* history: outrun[w], another handler has updated the row of w's
             \* user since w read it or, once w has updated it, since then
  adrift,    \* history: users whose last update did not write its document, or
             \* whose document was last written by a handler that was outrun
  faults

vars == <<rows, docs, call, unheard, outrun, adrift, faults>>

\* A handler that sets a field is known by that field.
Field == {"nickname", "phone", "description", "avatar_id"}
Register == {"UserRegister", "PhoneRegister"}
Step == {"persist", "upload", "update", "append"}

Idle == [step |-> "idle"]
Running == [step : Step, user : User, op : Register \cup Field, row : Row]

TypeOK ==
  /\ rows \in [User -> Row \cup {Absent}]
  /\ docs \in [User -> Row \cup {Absent}]
  /\ call \in [Worker -> Running \cup {Idle}]
  /\ unheard \in BOOLEAN
  /\ outrun \in [Worker -> BOOLEAN]
  /\ adrift \subseteq User
  /\ faults \in 0 .. MaxFault

Init ==
  /\ rows = [u \in User |-> Absent]
  /\ docs = [u \in User |-> Absent]
  /\ call = [w \in Worker |-> Idle]
  /\ unheard = FALSE
  /\ outrun = [w \in Worker |-> FALSE]
  /\ adrift = {}
  /\ faults = 0

At(w, step) == call[w].step = step
Serves(w, u) == call[w] # Idle /\ call[w].user = u
Registered(u) == rows[u] # Absent

\* Mutant of Clashes: the index on the phone column is not unique.
ClashesNickname(u, row) ==
  \E v \in User \ {u} : Registered(v) /\ row.nickname = rows[v].nickname

\* persist() and update() throw: odb declares both columns "index unique", and
\* NULL is equal to nothing.
Clashes(u, row) ==
  \E v \in User \ {u} : Registered(v) /\
    (row.nickname = rows[v].nickname \/ (row.phone # Null /\ row.phone = rows[v].phone))

\* The constructors User(uid, nickname, password) and User(uid, phone).
NewRow(nickname, phone) ==
  [nickname |-> nickname, phone |-> phone, description |-> Null, avatar_id |-> Null]

Values(f) ==
  CASE f = "nickname" -> Nickname [] f = "phone" -> Phone
    [] f = "description" -> Description [] f = "avatar_id" -> Avatar

Fault == faults < MaxFault /\ faults' = faults + 1

\* The handler returns.  A ClosureGuard sends the response of every handler but
\* UserRegister, which has none and does not call done->Run() itself.
Return(w) ==
  /\ call' = [call EXCEPT ![w] = Idle]
  /\ unheard' = (unheard \/ call[w].op = "UserRegister")

\* The handler of w has written row: every other handler of u is outrun.
Forget(w) == outrun' = [outrun EXCEPT ![w] = FALSE]
Write(w, u, row) ==
  /\ rows' = [rows EXCEPT ![u] = row]
  /\ outrun' = [x \in Worker |-> IF x = w THEN FALSE ELSE outrun[x] \/ Serves(x, u)]

-------------------------------------------------------------------------------
(* Mutants of the definitions below                                          *)

\* The setter builds a new object from the request instead of changing the one
\* it has read.
ChangedAfresh(row, f, v) == [NewRow(row.nickname, Null) EXCEPT ![f] = v]

\* The document is written without the avatar, as the registrations write it.
DocumentWithoutAvatar(row) == [row EXCEPT !.avatar_id = Null]

-------------------------------------------------------------------------------
(* The handlers                                                              *)

\* user->nickname(new_nickname) and its like.
Changed(row, f, v) == [row EXCEPT ![f] = v]

\* What appendData makes of the object: one document under the user's id.
Document(row) == row

\* UserRegister and PhoneRegister look for the nickname (phone) first, and a
\* query that fails finds nothing.  The new user's id is nobody else's.
CallRegister(w, op, u, row) ==
  /\ call[w] = Idle
  /\ ~Registered(u) /\ \A x \in Worker : ~Serves(x, u)
  /\ \/ ~Clashes(u, row) /\ UNCHANGED faults
     \/ Clashes(u, row) /\ Fault
  /\ call' = [call EXCEPT ![w] = [step |-> "persist", user |-> u, op |-> op, row |-> row]]
  /\ UNCHANGED <<rows, docs, unheard, outrun, adrift>>

UserRegister(w) ==
  \E u \in User, n \in Nickname : CallRegister(w, "UserRegister", u, NewRow(n, Null))
PhoneRegister(w) ==
  \E u \in User, p \in Phone : CallRegister(w, "PhoneRegister", u, NewRow(u, p))

\* The nickname is taken: the handler answers at once, or not at all.
Taken(w) ==
  \E u \in User, n \in Nickname :
    /\ call[w] = Idle
    /\ ~Registered(u) /\ \A x \in Worker : ~Serves(x, u)
    /\ Clashes(u, NewRow(n, Null))
    /\ unheard' = TRUE
    /\ UNCHANGED <<rows, docs, call, outrun, adrift, faults>>

Persist(w) ==
  /\ At(w, "persist")
  /\ ~Clashes(call[w].user, call[w].row)
  /\ Write(w, call[w].user, call[w].row)
  /\ call' = [call EXCEPT ![w].step = "append"]
  /\ UNCHANGED <<docs, unheard, adrift, faults>>

\* SetUserNickname, SetUserPhoneNumber, SetUserDescription, SetUserAvatar: the
\* row is read and changed in memory.  A user who is not found is an error.
Select(w) ==
  /\ call[w] = Idle
  /\ \E u \in User, f \in Field : \E v \in Values(f) :
       /\ Registered(u)
       /\ call' = [call EXCEPT ![w] =
            [step |-> IF f = "avatar_id" THEN "upload" ELSE "update",
             user |-> u, op |-> f, row |-> Changed(rows[u], f, v)]]
  /\ UNCHANGED <<rows, docs, unheard, outrun, adrift, faults>>

\* The avatar goes to the File service, which may not be there.
Upload(w) ==
  /\ At(w, "upload")
  /\ \/ call' = [call EXCEPT ![w].step = "update"] /\ UNCHANGED <<unheard, outrun>>
     \/ Return(w) /\ Forget(w)
  /\ UNCHANGED <<rows, docs, adrift, faults>>

\* UserTable::update writes every column.
Update(w) ==
  /\ At(w, "update")
  /\ ~Clashes(call[w].user, call[w].row)
  /\ Write(w, call[w].user, call[w].row)
  /\ call' = [call EXCEPT ![w].step = "append"]
  /\ UNCHANGED <<docs, unheard, adrift, faults>>

\* persist() or update() throws: a unique index, or the database is away; the
\* handler returns an error.
Refused(w) ==
  /\ At(w, "persist") \/ At(w, "update")
  /\ \/ Clashes(call[w].user, call[w].row) /\ UNCHANGED faults
     \/ Fault
  /\ Return(w) /\ Forget(w)
  /\ UNCHANGED <<rows, docs, adrift>>

\* The answer to the commit is lost: it looks the same, but the row is written.
CommitUnheard(w) ==
  /\ At(w, "persist") \/ At(w, "update")
  /\ ~Clashes(call[w].user, call[w].row)
  /\ Fault
  /\ Write(w, call[w].user, call[w].row)
  /\ adrift' = adrift \cup {call[w].user}
  /\ Return(w)
  /\ UNCHANGED docs

\* appendData.
Append(w) ==
  /\ At(w, "append")
  /\ LET u == call[w].user IN
       /\ docs' = [docs EXCEPT ![u] = Document(call[w].row)]
       /\ adrift' = IF outrun[w] THEN adrift \cup {u} ELSE adrift \ {u}
  /\ Return(w) /\ Forget(w)
  /\ UNCHANGED <<rows, faults>>

AppendFails(w) ==
  /\ At(w, "append")
  /\ Fault
  /\ adrift' = adrift \cup {call[w].user}
  /\ Return(w) /\ Forget(w)
  /\ UNCHANGED <<rows, docs>>

\* A process of the User service dies, and its handlers with it.
Crash ==
  /\ Fault
  /\ \E dead \in SUBSET Worker :
       /\ call' = [w \in Worker |-> IF w \in dead THEN Idle ELSE call[w]]
       /\ adrift' = adrift \cup {u \in User : \E w \in dead : At(w, "append") /\ Serves(w, u)}
       /\ outrun' = [w \in Worker |-> w \notin dead /\ outrun[w]]
  /\ UNCHANGED <<rows, docs, unheard>>

Next ==
  \/ \E w \in Worker :
       \/ UserRegister(w) \/ PhoneRegister(w) \/ Taken(w) \/ Persist(w)
       \/ Select(w) \/ Upload(w) \/ Update(w) \/ Refused(w) \/ CommitUnheard(w)
       \/ Append(w) \/ AppendFails(w)
  \/ Crash

Spec == Init /\ [][Next]_vars

-------------------------------------------------------------------------------
(* Properties                                                                *)

\* No two users have the same nickname or the same phone: whoever registers or
\* renames between another one's look-up and its write.
UniqueNames ==
  \A u, v \in User : u # v /\ Registered(u) /\ Registered(v) =>
    /\ rows[u].nickname # rows[v].nickname
    /\ rows[u].phone = rows[v].phone => rows[u].phone = Null

\* What a user has set stays until it is set again, unless a setter that read
\* the row before wrote it back after (the setters rewrite every column): only
\* calls that overlap lose a change, and no call loses a row.
LostOnlyToOverlap ==
  [][\A u \in User : Registered(u) =>
       /\ Registered(u)'
       /\ \A f \in Field : rows'[u][f] # rows[u][f] =>
            \E w \in Worker : Serves(w, u) /\ (call[w].op = f \/ outrun[w])]_vars

\* The search index shows the row in MySQL, unless the handler that wrote the
\* row last is still about to write the document, failed to, or was overtaken on
\* the way by one that had written the row before it.
SearchAgrees ==
  \A u \in User :
    \/ docs[u] = rows[u]
    \/ u \in adrift
    \/ \E w \in Worker : At(w, "append") /\ Serves(w, u) /\ ~outrun[w]

\* Every registration gets the response its last step prepares.  The code does
\* not keep this: see the run register_unanswered.
RegisterAnswered == ~unheard
===============================================================================
