--------------------------- MODULE UserProfileProofs ---------------------------
(***************************************************************************)
(* For any number of users, names and concurrent handlers: the types are   *)
(* right, names are unique, a change is lost only to a call that overlaps  *)
(* it, and the search index lags only for the reasons SearchAgrees names.  *)
(***************************************************************************)
EXTENDS UserProfile, TLAPS

LEMMA NewRowType ==
  ASSUME NEW n \in Nickname \cup User, NEW p \in Phone \cup {Null}
  PROVE  NewRow(n, p) \in Row
BY DEF NewRow, Row

LEMMA ChangedType ==
  ASSUME NEW row \in Row, NEW f \in Field, NEW v \in Values(f)
  PROVE  Changed(row, f, v) \in Row
<1>1. CASE f = "nickname"
  BY <1>1 DEF Row, Changed, Values
<1>2. CASE f = "phone"
  BY <1>2 DEF Row, Changed, Values
<1>3. CASE f = "description"
  BY <1>3 DEF Row, Changed, Values
<1>4. CASE f = "avatar_id"
  BY <1>4 DEF Row, Changed, Values
<1> QED BY <1>1, <1>2, <1>3, <1>4 DEF Field

LEMMA ChangedKeeps ==
  ASSUME NEW row \in Row, NEW f \in Field, NEW v, NEW g \in Field, g # f
  PROVE  Changed(row, f, v)[g] = row[g]
<1>1. CASE f = "nickname"
  BY <1>1 DEF Row, Changed, Field
<1>2. CASE f = "phone"
  BY <1>2 DEF Row, Changed, Field
<1>3. CASE f = "description"
  BY <1>3 DEF Row, Changed, Field
<1>4. CASE f = "avatar_id"
  BY <1>4 DEF Row, Changed, Field
<1> QED BY <1>1, <1>2, <1>3, <1>4 DEF Field

\* A handler at one of its steps is not idle, and its record is well typed.
LEMMA Busy ==
  ASSUME TypeOK, NEW w \in Worker, NEW s \in Step, At(w, s)
  PROVE  /\ call[w] \in Running
         /\ call[w] # Idle
         /\ call[w].user \in User
         /\ call[w].row \in Row
         /\ call[w].op \in Register \cup Field
         /\ Serves(w, call[w].user)
<1>1. "idle" \notin Step
  BY DEF Step
<1>2. call[w] # Idle
  BY <1>1 DEF At, Idle
<1>3. call[w] \in Running
  BY <1>2 DEF TypeOK
<1> QED BY <1>2, <1>3 DEF Running, Serves

\* The handlers of other users keep what they know of their rows.
LEMMA WriteType ==
  ASSUME TypeOK, NEW w \in Worker, NEW u \in User, NEW row \in Row, Write(w, u, row)
  PROVE  /\ rows' \in [User -> Row \cup {Absent}]
         /\ outrun' \in [Worker -> BOOLEAN]
<1>1. \A x \in Worker : Serves(x, u) \in BOOLEAN
  BY DEF Serves
<1>2. rows' \in [User -> Row \cup {Absent}]
  BY DEF Write, TypeOK
<1>3. outrun' \in [Worker -> BOOLEAN]
  BY <1>1 DEF Write, TypeOK
<1> QED BY <1>2, <1>3

LEMMA ReturnType ==
  ASSUME TypeOK, NEW w \in Worker, Return(w)
  PROVE  /\ call' \in [Worker -> Running \cup {Idle}]
         /\ unheard' \in BOOLEAN
BY DEF Return, TypeOK

LEMMA ForgetType ==
  ASSUME TypeOK, NEW w \in Worker, Forget(w)
  PROVE  outrun' \in [Worker -> BOOLEAN]
BY DEF Forget, TypeOK

LEMMA FaultType ==
  ASSUME TypeOK, Fault
  PROVE  faults' \in 0 .. MaxFault
BY ProfileConstants DEF Fault, TypeOK

LEMMA NextStepType ==
  ASSUME TypeOK, NEW w \in Worker, NEW s \in Step, call[w] \in Running,
         call' = [call EXCEPT ![w].step = s]
  PROVE  call' \in [Worker -> Running \cup {Idle}]
BY DEF TypeOK, Running

-------------------------------------------------------------------------------
(* Types                                                                     *)

LEMMA CallRegisterType ==
  ASSUME TypeOK, NEW w \in Worker, NEW op \in Register, NEW u \in User,
         NEW row \in Row, CallRegister(w, op, u, row)
  PROVE  TypeOK'
<1>1. [step |-> "persist", user |-> u, op |-> op, row |-> row] \in Running
  BY DEF Running, Step
<1>2. call' \in [Worker -> Running \cup {Idle}]
  BY <1>1 DEF CallRegister, TypeOK
<1>3. faults' \in 0 .. MaxFault
  BY FaultType DEF CallRegister, TypeOK
<1> QED BY <1>2, <1>3 DEF CallRegister, TypeOK

LEMMA TypeStep ==
  ASSUME TypeOK, [Next]_vars
  PROVE  TypeOK'
<1>0. CASE UNCHANGED vars
  BY <1>0 DEF vars, TypeOK
<1>1. ASSUME NEW w \in Worker, UserRegister(w) PROVE TypeOK'
  <2>1. PICK u \in User, n \in Nickname :
          CallRegister(w, "UserRegister", u, NewRow(n, Null))
    BY <1>1 DEF UserRegister
  <2>2. NewRow(n, Null) \in Row
    BY NewRowType
  <2> QED BY <2>1, <2>2, CallRegisterType DEF Register
<1>2. ASSUME NEW w \in Worker, PhoneRegister(w) PROVE TypeOK'
  <2>1. PICK u \in User, p \in Phone : CallRegister(w, "PhoneRegister", u, NewRow(u, p))
    BY <1>2 DEF PhoneRegister
  <2>2. NewRow(u, p) \in Row
    BY NewRowType
  <2> QED BY <2>1, <2>2, CallRegisterType DEF Register
<1>3. ASSUME NEW w \in Worker, Taken(w) PROVE TypeOK'
  BY <1>3 DEF Taken, TypeOK
<1>4. ASSUME NEW w \in Worker, Persist(w) PROVE TypeOK'
  <2>1. call[w] \in Running /\ call[w].user \in User /\ call[w].row \in Row
    BY <1>4, Busy DEF Persist, Step
  <2>2. call' \in [Worker -> Running \cup {Idle}]
    BY <1>4, <2>1, NextStepType DEF Persist, Step
  <2> QED BY <1>4, <2>1, <2>2, WriteType DEF Persist, TypeOK
<1>5. ASSUME NEW w \in Worker, Select(w) PROVE TypeOK'
  <2>1. PICK u \in User, f \in Field : \E v \in Values(f) :
          /\ Registered(u)
          /\ call' = [call EXCEPT ![w] =
               [step |-> IF f = "avatar_id" THEN "upload" ELSE "update",
                user |-> u, op |-> f, row |-> Changed(rows[u], f, v)]]
    BY <1>5 DEF Select
  <2>5. PICK v \in Values(f) :
          /\ Registered(u)
          /\ call' = [call EXCEPT ![w] =
               [step |-> IF f = "avatar_id" THEN "upload" ELSE "update",
                user |-> u, op |-> f, row |-> Changed(rows[u], f, v)]]
    BY <2>1
  <2>2. rows[u] \in Row
    BY <2>5 DEF Registered, TypeOK
  <2>3. Changed(rows[u], f, v) \in Row
    BY <2>2, ChangedType
  <2>4. call' \in [Worker -> Running \cup {Idle}]
    BY <2>5, <2>3 DEF TypeOK, Running, Step
  <2> QED BY <1>5, <2>4 DEF Select, TypeOK
<1>6. ASSUME NEW w \in Worker, Upload(w) PROVE TypeOK'
  <2>1. call[w] \in Running
    BY <1>6, Busy DEF Upload, Step
  <2>2. CASE call' = [call EXCEPT ![w].step = "update"] /\ UNCHANGED <<unheard, outrun>>
    <3>1. call' \in [Worker -> Running \cup {Idle}]
      BY <2>1, <2>2, NextStepType DEF Step
    <3> QED BY <1>6, <2>2, <3>1 DEF Upload, TypeOK
  <2>3. CASE Return(w) /\ Forget(w)
    BY <1>6, <2>3, ReturnType, ForgetType DEF Upload, TypeOK
  <2> QED BY <1>6, <2>2, <2>3 DEF Upload
<1>7. ASSUME NEW w \in Worker, Update(w) PROVE TypeOK'
  <2>1. call[w] \in Running /\ call[w].user \in User /\ call[w].row \in Row
    BY <1>7, Busy DEF Update, Step
  <2>2. call' \in [Worker -> Running \cup {Idle}]
    BY <1>7, <2>1, NextStepType DEF Update, Step
  <2> QED BY <1>7, <2>1, <2>2, WriteType DEF Update, TypeOK
<1>8. ASSUME NEW w \in Worker, Refused(w) PROVE TypeOK'
  <2>1. faults' \in 0 .. MaxFault
    BY <1>8, FaultType DEF Refused, TypeOK
  <2> QED BY <1>8, <2>1, ReturnType, ForgetType DEF Refused, TypeOK
<1>9. ASSUME NEW w \in Worker, CommitUnheard(w) PROVE TypeOK'
  <2>1. call[w].user \in User /\ call[w].row \in Row
    BY <1>9, Busy DEF CommitUnheard, Step
  <2> QED BY <1>9, <2>1, WriteType, ReturnType, FaultType DEF CommitUnheard, TypeOK
<1>10. ASSUME NEW w \in Worker, Append(w) PROVE TypeOK'
  <2>1. call[w].user \in User /\ call[w].row \in Row
    BY <1>10, Busy DEF Append, Step
  <2>2. docs' \in [User -> Row \cup {Absent}] /\ adrift' \subseteq User
    BY <1>10, <2>1 DEF Append, Document, TypeOK
  <2> QED BY <1>10, <2>2, ReturnType, ForgetType DEF Append, TypeOK
<1>11. ASSUME NEW w \in Worker, AppendFails(w) PROVE TypeOK'
  <2>1. call[w].user \in User
    BY <1>11, Busy DEF AppendFails, Step
  <2> QED BY <1>11, <2>1, ReturnType, ForgetType, FaultType DEF AppendFails, TypeOK
<1>12. CASE Crash
  <2>1. PICK dead \in SUBSET Worker :
          /\ call' = [w \in Worker |-> IF w \in dead THEN Idle ELSE call[w]]
          /\ adrift' = adrift \cup {u \in User : \E w \in dead : At(w, "append") /\ Serves(w, u)}
          /\ outrun' = [w \in Worker |-> w \notin dead /\ outrun[w]]
    BY <1>12 DEF Crash
  <2>2. call' \in [Worker -> Running \cup {Idle}] /\ adrift' \subseteq User
    BY <2>1 DEF TypeOK
  <2>3. outrun' \in [Worker -> BOOLEAN]
    BY <2>1 DEF TypeOK
  <2> QED BY <1>12, <2>2, <2>3, FaultType DEF Crash, TypeOK
<1> QED
  BY <1>0, <1>1, <1>2, <1>3, <1>4, <1>5, <1>6, <1>7, <1>8, <1>9, <1>10, <1>11, <1>12
  DEF Next

\* Every variable has its type, whatever the number of users and handlers.
THEOREM TypeCorrect == Spec => []TypeOK
<1>1. ASSUME Init PROVE TypeOK
  <2>1. call \in [Worker -> Running \cup {Idle}] /\ outrun \in [Worker -> BOOLEAN]
    BY <1>1 DEF Init
  <2>2. rows \in [User -> Row \cup {Absent}] /\ docs \in [User -> Row \cup {Absent}]
    BY <1>1 DEF Init
  <2>3. faults \in 0 .. MaxFault
    BY <1>1, ProfileConstants DEF Init
  <2> QED BY <1>1, <2>1, <2>2, <2>3 DEF Init, TypeOK
<1>2. TypeOK /\ [Next]_vars => TypeOK'
  BY TypeStep
<1> QED BY <1>1, <1>2, PTL DEF Spec


-------------------------------------------------------------------------------
(* What a handler that runs knows                                            *)

\* Nobody else serves a user who is being registered; a setter nobody has outrun
\* holds the row but for its own field; the row it has written is still there.
Aim(w) ==
  /\ At(w, "persist") =>
       /\ ~Registered(call[w].user)
       /\ \A x \in Worker : Serves(x, call[w].user) => x = w
  /\ At(w, "upload") \/ At(w, "update") =>
       /\ Registered(call[w].user)
       /\ call[w].op \in Field
       /\ outrun[w] \/ \A g \in Field \ {call[w].op} : call[w].row[g] = rows[call[w].user][g]
  /\ At(w, "append") =>
       /\ Registered(call[w].user)
       /\ outrun[w] \/ rows[call[w].user] = call[w].row

ProfileInv ==
  /\ \A w \in Worker : Aim(w)
  /\ UniqueNames
  /\ SearchAgrees

\* What a handler knows depends on its own record, its user's row and who else
\* serves that user.
LEMMA AimUntouched ==
  ASSUME TypeOK, NEW w \in Worker, Aim(w),
         call[w]' = call[w], outrun[w]' = outrun[w],
         call[w] # Idle => rows[call[w].user]' = rows[call[w].user],
         \A x \in Worker : x # w /\ Serves(x, call[w].user)' /\ At(w, "persist")
                             => Serves(x, call[w].user)
  PROVE  Aim(w)'
<1>1. CASE call[w] = Idle
  BY <1>1 DEF Aim, At, Idle
<1>2. CASE call[w] # Idle
  <2>1. rows[call[w].user]' = rows[call[w].user]
    BY <1>2
  <2>2. Registered(call[w].user)' = Registered(call[w].user)
    BY <2>1 DEF Registered
  <2>3. At(w, "persist")' = At(w, "persist") /\ At(w, "upload")' = At(w, "upload")
        /\ At(w, "update")' = At(w, "update") /\ At(w, "append")' = At(w, "append")
    BY DEF At
  <2> QED BY <2>1, <2>2, <2>3 DEF Aim
<1> QED BY <1>1, <1>2

LEMMA AimIdle ==
  ASSUME NEW w \in Worker, call[w]' = Idle
  PROVE  Aim(w)'
BY DEF Aim, At, Idle


LEMMA UniqueKept ==
  ASSUME UniqueNames, rows' = rows
  PROVE  UniqueNames'
BY DEF UniqueNames, Registered

\* A step of w that leaves the rows alone disturbs no other handler, unless it
\* begins to serve a user who is being registered.
LEMMA OthersKept ==
  ASSUME TypeOK, \A x \in Worker : Aim(x), NEW w \in Worker, rows' = rows,
         \A x \in Worker : x # w => call'[x] = call[x] /\ outrun'[x] = outrun[x],
         Aim(w)',
         \A x \in Worker : At(x, "persist") /\ Serves(w, call[x].user)' => Serves(w, call[x].user)
  PROVE  \A x \in Worker : Aim(x)'
<1> SUFFICES ASSUME NEW x \in Worker PROVE Aim(x)'
  OBVIOUS
<1>1. CASE x = w
  BY <1>1
<1>2. CASE x # w
  <2>1. call'[x] = call[x] /\ outrun'[x] = outrun[x]
    BY <1>2
  <2>2. call[x] # Idle => rows[call[x].user]' = rows[call[x].user]
    BY <2>1
  <2>3. ASSUME NEW y \in Worker, y # x, Serves(y, call[x].user)', At(x, "persist")
        PROVE  Serves(y, call[x].user)
    <3>1. CASE y = w
      BY <2>1, <2>3, <3>1 DEF Serves
    <3>2. CASE y # w
      BY <2>1, <2>3, <3>2 DEF Serves
    <3> QED BY <3>1, <3>2
  <2> QED BY <2>1, <2>2, <2>3, AimUntouched
<1> QED BY <1>1, <1>2

\* The handler ends; the others do not notice.
LEMMA EndsQuietly ==
  ASSUME TypeOK, \A x \in Worker : Aim(x), NEW w \in Worker, rows' = rows,
         Return(w), Forget(w)
  PROVE  \A x \in Worker : Aim(x)'
<1>1. \A x \in Worker : x # w => call'[x] = call[x] /\ outrun'[x] = outrun[x]
  BY DEF Return, Forget, TypeOK
<1>2. call'[w] = Idle
  BY DEF Return, TypeOK
<1>3. \A u : ~Serves(w, u)'
  BY <1>2 DEF Serves
<1>4. Aim(w)'
  BY <1>2, AimIdle
<1> QED BY <1>1, <1>3, <1>4, OthersKept

\* The witness of SearchAgrees is not the handler that steps.
LEMMA SearchKept ==
  ASSUME TypeOK, SearchAgrees, NEW w \in Worker, rows' = rows, docs' = docs,
         adrift \subseteq adrift', ~At(w, "append"),
         \A x \in Worker : x # w => call'[x] = call[x] /\ outrun'[x] = outrun[x]
  PROVE  SearchAgrees'
<1> SUFFICES ASSUME NEW u \in User
             PROVE  \/ docs[u]' = rows[u]'
                    \/ u \in adrift'
                    \/ \E x \in Worker : At(x, "append")' /\ Serves(x, u)' /\ ~outrun[x]'
  BY DEF SearchAgrees
<1>1. CASE docs[u] = rows[u] \/ u \in adrift
  BY <1>1
<1>2. ASSUME NEW x \in Worker, At(x, "append"), Serves(x, u), ~outrun[x]
      PROVE  At(x, "append")' /\ Serves(x, u)' /\ ~outrun[x]'
  <2>1. call'[x] = call[x] /\ outrun'[x] = outrun[x]
    BY <1>2
  <2> QED BY <1>2, <2>1 DEF At, Serves
<1> QED BY <1>1, <1>2 DEF SearchAgrees

LEMMA CallRegisterKeeps ==
  ASSUME TypeOK, ProfileInv, NEW w \in Worker, NEW op \in Register, NEW u \in User,
         NEW row \in Row, CallRegister(w, op, u, row)
  PROVE  ProfileInv'
<1>1. /\ call[w] = Idle /\ ~Registered(u) /\ rows' = rows
      /\ \A x \in Worker : ~Serves(x, u)
      /\ \A x \in Worker : x # w => call'[x] = call[x] /\ outrun'[x] = outrun[x]
      /\ call'[w] = [step |-> "persist", user |-> u, op |-> op, row |-> row]
  BY DEF CallRegister, TypeOK
<1>2. \A x \in Worker : Serves(x, u)' => x = w
  BY <1>1 DEF Serves
<1>3. Aim(w)'
  BY <1>1, <1>2 DEF Aim, At, Registered
<1>4. ASSUME NEW x \in Worker, At(x, "persist"), Serves(w, call[x].user)'
      PROVE  Serves(w, call[x].user)
  <2>1. call[x].user = u
    <3>1. x # w
      BY <1>1, <1>4 DEF At, Idle
    <3> QED BY <1>1, <1>4, <3>1 DEF Serves
  <2>2. Serves(x, u)
    BY <1>4, <2>1, Busy DEF Step
  <2> QED BY <1>1, <2>2
<1>5. \A x \in Worker : Aim(x)'
  BY <1>1, <1>3, <1>4, OthersKept DEF ProfileInv
<1>6. ~At(w, "append")
  BY <1>1 DEF At, Idle
<1>7. SearchAgrees'
  BY <1>1, <1>6, SearchKept DEF ProfileInv, CallRegister
<1> QED BY <1>1, <1>5, <1>7, UniqueKept DEF ProfileInv

LEMMA SelectKeeps ==
  ASSUME TypeOK, ProfileInv, NEW w \in Worker, Select(w)
  PROVE  ProfileInv'
<1>1. PICK u \in User, f \in Field : \E v \in Values(f) :
        /\ Registered(u)
        /\ call' = [call EXCEPT ![w] =
             [step |-> IF f = "avatar_id" THEN "upload" ELSE "update",
              user |-> u, op |-> f, row |-> Changed(rows[u], f, v)]]
  BY DEF Select
<1>2. PICK v \in Values(f) :
        /\ Registered(u)
        /\ call' = [call EXCEPT ![w] =
             [step |-> IF f = "avatar_id" THEN "upload" ELSE "update",
              user |-> u, op |-> f, row |-> Changed(rows[u], f, v)]]
  BY <1>1
<1>3. /\ call[w] = Idle /\ rows' = rows /\ docs' = docs /\ outrun' = outrun /\ adrift' = adrift
      /\ \A x \in Worker : x # w => call'[x] = call[x]
      /\ call'[w].user = u /\ call'[w].op = f /\ call'[w].row = Changed(rows[u], f, v)
      /\ call'[w].step \in {"upload", "update"}
  BY <1>2 DEF Select, TypeOK
<1>4. rows[u] \in Row
  BY <1>2 DEF Registered, TypeOK
<1>5. \A g \in Field \ {f} : Changed(rows[u], f, v)[g] = rows[u][g]
  BY <1>4, ChangedKeeps
<1>6. Aim(w)'
  BY <1>2, <1>3, <1>5 DEF Aim, At, Registered
<1>7. ASSUME NEW x \in Worker, At(x, "persist"), Serves(w, call[x].user)'
      PROVE  Serves(w, call[x].user)
  <2>1. call[x].user = u
    <3>1. x # w
      BY <1>3, <1>7 DEF At, Idle
    <3> QED BY <1>3, <1>7, <3>1 DEF Serves
  <2>2. ~Registered(u)
    BY <1>7, <2>1 DEF ProfileInv, Aim
  <2> QED BY <1>2, <2>2
<1>8. \A x \in Worker : Aim(x)'
  BY <1>3, <1>6, <1>7, OthersKept DEF ProfileInv
<1>9. ~At(w, "append")
  BY <1>3 DEF At, Idle
<1>10. SearchAgrees'
  BY <1>3, <1>9, SearchKept DEF ProfileInv
<1> QED BY <1>3, <1>8, <1>10, UniqueKept DEF ProfileInv


LEMMA UploadKeeps ==
  ASSUME TypeOK, ProfileInv, NEW w \in Worker, Upload(w)
  PROVE  ProfileInv'
<1>1. rows' = rows /\ docs' = docs /\ adrift' = adrift /\ ~At(w, "append")
  BY DEF Upload, At
<1>2. \A x \in Worker : x # w => call'[x] = call[x] /\ outrun'[x] = outrun[x]
  BY DEF Upload, Return, Forget, TypeOK
<1>3. \A x \in Worker : Aim(x)'
  <2>1. CASE Return(w) /\ Forget(w)
    BY <1>1, <2>1, EndsQuietly DEF ProfileInv
  <2>2. CASE call' = [call EXCEPT ![w].step = "update"] /\ UNCHANGED <<unheard, outrun>>
    <3>1. call[w] \in Running /\ call[w] # Idle
      BY Busy DEF Upload, Step
    <3>2. /\ call'[w] = [call[w] EXCEPT !.step = "update"]
          /\ call'[w].step = "update" /\ call'[w].user = call[w].user
          /\ call'[w].op = call[w].op /\ call'[w].row = call[w].row
      BY <2>2, <3>1 DEF TypeOK, Running
    <3>3. At(w, "upload") /\ Aim(w)
      BY DEF Upload, ProfileInv
    <3>4. Aim(w)'
      BY <1>1, <2>2, <3>2, <3>3 DEF Aim, At, Registered
    <3>5. \A u : Serves(w, u)' => Serves(w, u)
      BY <3>1, <3>2 DEF Serves
    <3>6. ASSUME NEW x \in Worker, At(x, "persist"), Serves(w, call[x].user)'
          PROVE  Serves(w, call[x].user)
      <4>1. x # w
        BY <3>3, <3>6 DEF At
      <4>2. call'[x].user = call[x].user
        BY <1>2, <4>1
      <4> QED BY <3>5, <3>6, <4>2 DEF Serves
    <3> QED BY <1>1, <1>2, <3>4, <3>6, OthersKept DEF ProfileInv
  <2> QED BY <2>1, <2>2 DEF Upload
<1>4. SearchAgrees'
  BY <1>1, <1>2, SearchKept DEF ProfileInv
<1> QED BY <1>1, <1>3, <1>4, UniqueKept DEF ProfileInv

LEMMA RefusedKeeps ==
  ASSUME TypeOK, ProfileInv, NEW w \in Worker, Refused(w)
  PROVE  ProfileInv'
<1>1. rows' = rows /\ docs' = docs /\ adrift' = adrift /\ ~At(w, "append")
  BY DEF Refused, At
<1>2. \A x \in Worker : x # w => call'[x] = call[x] /\ outrun'[x] = outrun[x]
  BY DEF Refused, Return, Forget, TypeOK
<1>3. \A x \in Worker : Aim(x)'
  BY <1>1, EndsQuietly DEF ProfileInv, Refused
<1>4. SearchAgrees'
  BY <1>1, <1>2, SearchKept DEF ProfileInv
<1> QED BY <1>1, <1>3, <1>4, UniqueKept DEF ProfileInv

\* Appending is what SearchAgrees waits for: it closes the gap, or leaves a
\* document behind that a later update has already replaced.
LEMMA AppendKeeps ==
  ASSUME TypeOK, ProfileInv, NEW w \in Worker, Append(w) \/ AppendFails(w)
  PROVE  ProfileInv'
<1> DEFINE own == call[w].user
<1>1. At(w, "append") /\ Return(w) /\ Forget(w) /\ rows' = rows
  BY DEF Append, AppendFails
<1>2. own \in User /\ Aim(w) /\ call[w] # Idle
  BY <1>1, Busy DEF ProfileInv, Step
<1>3. \A x \in Worker : x # w => call'[x] = call[x] /\ outrun'[x] = outrun[x]
  BY <1>1 DEF Return, Forget, TypeOK
<1>4. \A x \in Worker : Aim(x)'
  BY <1>1, EndsQuietly DEF ProfileInv
<1>5. SearchAgrees'
  <2> SUFFICES ASSUME NEW u \in User
               PROVE  \/ docs[u]' = rows[u]'
                      \/ u \in adrift'
                      \/ \E x \in Worker : At(x, "append")' /\ Serves(x, u)' /\ ~outrun[x]'
    BY DEF SearchAgrees
  <2>1. CASE u = own
    <3>1. CASE AppendFails(w)
      BY <2>1, <3>1 DEF AppendFails
    <3>2. CASE Append(w) /\ outrun[w]
      BY <2>1, <3>2 DEF Append
    <3>3. CASE Append(w) /\ ~outrun[w]
      <4>1. docs'[own] = call[w].row
        BY <1>2, <3>3 DEF Append, Document, TypeOK
      <4>2. rows[own] = call[w].row
        BY <1>1, <1>2, <3>3 DEF Aim
      <4> QED BY <1>1, <2>1, <4>1, <4>2
    <3> QED BY <3>1, <3>2, <3>3
  <2>2. CASE u # own
    <3>1. docs'[u] = docs[u] /\ (u \in adrift => u \in adrift')
      BY <2>2 DEF Append, AppendFails, TypeOK
    <3>2. ASSUME NEW x \in Worker, At(x, "append"), Serves(x, u), ~outrun[x]
          PROVE  At(x, "append")' /\ Serves(x, u)' /\ ~outrun[x]'
      <4>1. x # w
        BY <2>2, <3>2 DEF Serves
      <4>2. call'[x] = call[x] /\ outrun'[x] = outrun[x]
        BY <1>3, <4>1
      <4> QED BY <3>2, <4>2 DEF At, Serves
    <3> QED BY <1>1, <3>1, <3>2 DEF ProfileInv, SearchAgrees
  <2> QED BY <2>1, <2>2
<1> QED BY <1>1, <1>4, <1>5, UniqueKept DEF ProfileInv

LEMMA CrashKeeps ==
  ASSUME TypeOK, ProfileInv, Crash
  PROVE  ProfileInv'
<1>1. PICK dead \in SUBSET Worker :
        /\ call' = [w \in Worker |-> IF w \in dead THEN Idle ELSE call[w]]
        /\ adrift' = adrift \cup {u \in User : \E w \in dead : At(w, "append") /\ Serves(w, u)}
        /\ outrun' = [w \in Worker |-> w \notin dead /\ outrun[w]]
  BY DEF Crash
<1>2. rows' = rows /\ docs' = docs
  BY DEF Crash
<1>3. \A x \in dead : call'[x] = Idle
  BY <1>1
<1>4. \A x \in Worker \ dead : call'[x] = call[x]
  BY <1>1
<1>5. \A x \in Worker \ dead : outrun'[x] = outrun[x]
  BY <1>1 DEF TypeOK
<1>6. \A x \in Worker : Aim(x)'
  <2> SUFFICES ASSUME NEW x \in Worker PROVE Aim(x)'
    OBVIOUS
  <2>1. CASE x \in dead
    BY <1>3, <2>1, AimIdle
  <2>2. CASE x \notin dead
    <3>1. call'[x] = call[x] /\ outrun'[x] = outrun[x]
      BY <1>4, <1>5, <2>2
    <3>2. ASSUME NEW y \in Worker, Serves(y, call[x].user)' PROVE Serves(y, call[x].user)
      BY <1>3, <1>4, <3>1, <3>2 DEF Serves
    <3> QED BY <1>2, <3>1, <3>2, AimUntouched DEF ProfileInv
  <2> QED BY <2>1, <2>2
<1>7. SearchAgrees'
  <2> SUFFICES ASSUME NEW u \in User
               PROVE  \/ docs[u]' = rows[u]'
                      \/ u \in adrift'
                      \/ \E x \in Worker : At(x, "append")' /\ Serves(x, u)' /\ ~outrun[x]'
    BY DEF SearchAgrees
  <2>1. CASE docs[u] = rows[u] \/ u \in adrift
    BY <1>1, <1>2, <2>1
  <2>2. ASSUME NEW x \in Worker, At(x, "append"), Serves(x, u), ~outrun[x]
        PROVE  \/ u \in adrift'
               \/ At(x, "append")' /\ Serves(x, u)' /\ ~outrun[x]'
    <3>1. CASE x \in dead
      BY <1>1, <2>2, <3>1
    <3>2. CASE x \notin dead
      <4>1. call'[x] = call[x] /\ outrun'[x] = outrun[x]
        BY <1>4, <1>5, <3>2
      <4> QED BY <2>2, <4>1 DEF At, Serves
    <3> QED BY <3>1, <3>2
  <2> QED BY <2>1, <2>2 DEF ProfileInv, SearchAgrees
<1> QED BY <1>2, <1>6, <1>7, UniqueKept DEF ProfileInv


\* What a handler may have when it is about to write: no clash, and its own user.
WritesRow(w) ==
  /\ At(w, "persist") \/ At(w, "update")
  /\ ~Clashes(call[w].user, call[w].row)
  /\ Write(w, call[w].user, call[w].row)
  /\ \A x \in Worker : x # w => call'[x] = call[x]
  /\ \/ call'[w] = Idle /\ call[w].user \in adrift' /\ adrift \subseteq adrift'
     \/ call'[w] = [call[w] EXCEPT !.step = "append"] /\ adrift' = adrift
  /\ docs' = docs

LEMMA WritesRowFollows ==
  ASSUME TypeOK, NEW w \in Worker, Persist(w) \/ Update(w) \/ CommitUnheard(w)
  PROVE  WritesRow(w)
<1>1. CASE Persist(w) \/ Update(w)
  BY <1>1 DEF Persist, Update, WritesRow, TypeOK
<1>2. CASE CommitUnheard(w)
  BY <1>2 DEF CommitUnheard, Return, WritesRow, TypeOK
<1> QED BY <1>1, <1>2

LEMMA WriteKeeps ==
  ASSUME TypeOK, ProfileInv, NEW w \in Worker, WritesRow(w)
  PROVE  ProfileInv'
<1> DEFINE own == call[w].user
           row == call[w].row
<1>1. own \in User /\ row \in Row /\ call[w] \in Running /\ call[w] # Idle /\ Serves(w, own)
  BY Busy DEF WritesRow, Step
<1>2. rows'[own] = row /\ row # Absent /\ \A u \in User : u # own => rows'[u] = rows[u]
  BY <1>1, ProfileConstants DEF WritesRow, Write, TypeOK
<1>3. outrun'[w] = FALSE
  BY DEF WritesRow, Write
<1>4. \A x \in Worker : x # w /\ Serves(x, own) => outrun'[x] = TRUE
  BY DEF WritesRow, Write
<1>5. \A x \in Worker : x # w /\ ~Serves(x, own) => outrun'[x] = outrun[x]
  BY DEF WritesRow, Write, TypeOK
<1>6. \A x \in Worker : x # w => call'[x] = call[x]
  BY DEF WritesRow
<1>7. \A u : Serves(w, u)' => Serves(w, u)
  BY <1>1 DEF WritesRow, Serves, Running
<1>8. \A x \in Worker : Aim(x)'
  <2> SUFFICES ASSUME NEW x \in Worker PROVE Aim(x)'
    OBVIOUS
  <2>1. CASE x = w /\ call'[w] = Idle
    BY <2>1, AimIdle
  <2>2. CASE x = w /\ call'[w] = [call[w] EXCEPT !.step = "append"]
    <3>1. call'[w].step = "append" /\ call'[w].user = own /\ call'[w].row = row
      BY <1>1, <2>2 DEF Running
    <3> QED BY <1>2, <2>2, <3>1 DEF Aim, At, Registered
  <2>3. CASE x # w /\ Serves(x, own)
    <3>1. Aim(x) /\ Aim(w) /\ call'[x] = call[x] /\ outrun'[x] = TRUE /\ call[x].user = own
      BY <1>4, <1>6, <2>3 DEF ProfileInv, Serves
    <3>2. ~At(x, "persist")
      BY <1>1, <2>3, <3>1 DEF Aim
    <3> QED BY <1>2, <3>1, <3>2 DEF Aim, At, Registered
  <2>4. CASE x # w /\ ~Serves(x, own)
    <3>1. Aim(x) /\ call'[x] = call[x] /\ outrun'[x] = outrun[x]
      BY <1>5, <1>6, <2>4 DEF ProfileInv
    <3>2. call[x] # Idle => call[x] \in Running
      BY DEF TypeOK
    <3>3. call[x] # Idle => rows[call[x].user]' = rows[call[x].user]
      BY <1>2, <2>4, <3>1, <3>2 DEF Serves, Running
    <3>4. ASSUME NEW y \in Worker, Serves(y, call[x].user)' PROVE Serves(y, call[x].user)
      BY <1>6, <1>7, <3>1, <3>4 DEF Serves
    <3> QED BY <3>1, <3>3, <3>4, AimUntouched
  <2> QED BY <2>1, <2>2, <2>3, <2>4 DEF WritesRow
<1>9. UniqueNames'
  <2>1. ASSUME NEW v \in User, v # own, Registered(v)
        PROVE  /\ row.nickname # rows[v].nickname
               /\ row.phone = rows[v].phone => row.phone = Null
    BY <1>1, <2>1 DEF WritesRow, Clashes
  <2>2. SUFFICES ASSUME NEW u \in User, NEW v \in User, u # v, Registered(u)', Registered(v)'
                 PROVE  /\ rows'[u].nickname # rows'[v].nickname
                        /\ rows'[u].phone = rows'[v].phone => rows'[u].phone = Null
    BY DEF UniqueNames
  <2>3. CASE u = own
    BY <1>2, <2>1, <2>2, <2>3 DEF Registered
  <2>4. CASE v = own
    <3>1. Registered(u) /\ rows'[u] = rows[u] /\ rows'[v] = row
      BY <1>2, <2>2, <2>4 DEF Registered
    <3>2. row.nickname # rows[u].nickname /\ (row.phone = rows[u].phone => row.phone = Null)
      BY <2>1, <2>2, <2>4, <3>1
    <3> QED BY <3>1, <3>2
  <2>5. CASE u # own /\ v # own
    BY <1>2, <2>2, <2>5 DEF ProfileInv, UniqueNames, Registered
  <2> QED BY <2>3, <2>4, <2>5
<1>10. SearchAgrees'
  <2> SUFFICES ASSUME NEW u \in User
               PROVE  \/ docs[u]' = rows[u]'
                      \/ u \in adrift'
                      \/ \E x \in Worker : At(x, "append")' /\ Serves(x, u)' /\ ~outrun[x]'
    BY DEF SearchAgrees
  <2>1. CASE u = own
    <3>1. CASE call'[w] = Idle
      BY <1>1, <2>1, <3>1 DEF WritesRow, Idle, Running
    <3>2. CASE call'[w] = [call[w] EXCEPT !.step = "append"]
      <4>1. call'[w].step = "append" /\ call'[w].user = own
        BY <1>1, <3>2 DEF Running
      <4>2. call'[w] # Idle
        BY <4>1 DEF Idle
      <4> QED BY <1>3, <2>1, <4>1, <4>2 DEF At, Serves
    <3> QED BY <3>1, <3>2 DEF WritesRow
  <2>2. CASE u # own
    <3>1. docs'[u] = docs[u] /\ rows'[u] = rows[u] /\ (u \in adrift => u \in adrift')
      BY <1>2, <2>2 DEF WritesRow
    <3>2. ASSUME NEW x \in Worker, At(x, "append"), Serves(x, u), ~outrun[x]
          PROVE  At(x, "append")' /\ Serves(x, u)' /\ ~outrun[x]'
      <4>1. x # w /\ ~Serves(x, own)
        BY <2>2, <3>2 DEF Serves, WritesRow, At
      <4>2. call'[x] = call[x] /\ outrun'[x] = outrun[x]
        BY <1>5, <1>6, <4>1
      <4> QED BY <3>2, <4>2 DEF At, Serves
    <3> QED BY <3>1, <3>2 DEF ProfileInv, SearchAgrees
  <2> QED BY <2>1, <2>2
<1> QED BY <1>8, <1>9, <1>10 DEF ProfileInv

LEMMA ProfileStep ==
  ASSUME TypeOK, ProfileInv, [Next]_vars
  PROVE  ProfileInv'
<1>1. CASE UNCHANGED vars \/ \E w \in Worker : Taken(w)
  <2>1. rows' = rows /\ docs' = docs /\ call' = call /\ outrun' = outrun /\ adrift' = adrift
    BY <1>1 DEF vars, Taken
  <2> QED BY <2>1 DEF ProfileInv, Aim, UniqueNames, SearchAgrees, At, Serves, Registered
<1>2. ASSUME NEW w \in Worker, UserRegister(w) PROVE ProfileInv'
  <2>1. PICK u \in User, n \in Nickname :
          CallRegister(w, "UserRegister", u, NewRow(n, Null))
    BY <1>2 DEF UserRegister
  <2>2. NewRow(n, Null) \in Row
    BY NewRowType
  <2> QED BY <2>1, <2>2, CallRegisterKeeps DEF Register
<1>3. ASSUME NEW w \in Worker, PhoneRegister(w) PROVE ProfileInv'
  <2>1. PICK u \in User, p \in Phone : CallRegister(w, "PhoneRegister", u, NewRow(u, p))
    BY <1>3 DEF PhoneRegister
  <2>2. NewRow(u, p) \in Row
    BY NewRowType
  <2> QED BY <2>1, <2>2, CallRegisterKeeps DEF Register
<1>4. ASSUME NEW w \in Worker, Persist(w) \/ Update(w) \/ CommitUnheard(w) PROVE ProfileInv'
  BY <1>4, WritesRowFollows, WriteKeeps
<1> QED
  BY <1>1, <1>2, <1>3, <1>4, SelectKeeps, UploadKeeps, RefusedKeeps, AppendKeeps, CrashKeeps
  DEF Next

LEMMA ProfileInvariant == Spec => []ProfileInv
<1>1. ASSUME Init PROVE ProfileInv
  <2>1. \A w \in Worker : call[w] = Idle
    BY <1>1 DEF Init
  <2> QED BY <1>1, <2>1 DEF Init, ProfileInv, Aim, At, Idle, UniqueNames, SearchAgrees, Registered
<1>2. TypeOK /\ ProfileInv /\ [Next]_vars => ProfileInv'
  BY ProfileStep
<1> QED BY <1>1, <1>2, TypeCorrect, PTL DEF Spec

\* No interleaving of registrations and renames gives two users one name.
THEOREM NamesAreUnique == Spec => []UniqueNames
<1>1. ProfileInv => UniqueNames
  BY DEF ProfileInv
<1> QED BY <1>1, ProfileInvariant, PTL

\* The document differs from the row for one of three reasons only.
THEOREM SearchIsRight == Spec => []SearchAgrees
<1>1. ProfileInv => SearchAgrees
  BY DEF ProfileInv
<1> QED BY <1>1, ProfileInvariant, PTL

LEMMA WriteLosesNothing ==
  ASSUME TypeOK, ProfileInv, NEW w \in Worker, WritesRow(w),
         NEW u \in User, Registered(u)
  PROVE  /\ Registered(u)'
         /\ \A f \in Field : rows'[u][f] # rows[u][f] =>
              \E x \in Worker : Serves(x, u) /\ (call[x].op = f \/ outrun[x])
<1>1. call[w].user \in User /\ call[w].row \in Row /\ Serves(w, call[w].user) /\ Aim(w)
  BY Busy DEF WritesRow, Step, ProfileInv
<1>2. CASE u = call[w].user
  <2>1. At(w, "update")
    BY <1>1, <1>2 DEF WritesRow, Aim
  <2>2. rows'[u] = call[w].row
    BY <1>2 DEF WritesRow, Write, TypeOK
  <2>3. Registered(u)'
    BY <1>1, <2>2, ProfileConstants DEF Registered
  <2>4. ASSUME NEW f \in Field, rows'[u][f] # rows[u][f]
        PROVE  call[w].op = f \/ outrun[w]
    BY <1>1, <1>2, <2>1, <2>2, <2>4 DEF Aim
  <2> QED BY <1>1, <1>2, <2>3, <2>4
<1>3. CASE u # call[w].user
  BY <1>3 DEF WritesRow, Write, TypeOK, Registered
<1> QED BY <1>2, <1>3

\* A change is lost only to a handler that read the row before it was made.
THEOREM ChangesLast == Spec => LostOnlyToOverlap
<1>1. ASSUME TypeOK, ProfileInv, [Next]_vars, NEW u \in User, Registered(u)
      PROVE  /\ Registered(u)'
             /\ \A f \in Field : rows'[u][f] # rows[u][f] =>
                  \E w \in Worker : Serves(w, u) /\ (call[w].op = f \/ outrun[w])
  <2>1. CASE rows' = rows
    BY <1>1, <2>1 DEF Registered
  <2>2. CASE \E w \in Worker : WritesRow(w)
    BY <1>1, <2>2, WriteLosesNothing
  <2>3. rows' = rows \/ \E w \in Worker : WritesRow(w)
    <3>1. ASSUME NEW w \in Worker, Persist(w) \/ Update(w) \/ CommitUnheard(w)
          PROVE  WritesRow(w)
      BY <1>1, <3>1, WritesRowFollows
    <3> QED BY <1>1, <3>1 DEF Next, vars, UserRegister, PhoneRegister, CallRegister, Taken,
                              Select, Upload, Refused, Append, AppendFails, Crash
  <2> QED BY <2>1, <2>2, <2>3
<1>2. TypeOK /\ ProfileInv /\ [Next]_vars =>
        [\A u \in User : Registered(u) =>
           /\ Registered(u)'
           /\ \A f \in Field : rows'[u][f] # rows[u][f] =>
                \E w \in Worker : Serves(w, u) /\ (call[w].op = f \/ outrun[w])]_vars
  BY <1>1
<1> QED BY <1>2, TypeCorrect, ProfileInvariant, PTL DEF Spec, LostOnlyToOverlap
===============================================================================
