------------------------- MODULE AgentMonitorProofs -------------------------
(* Proofs about the monitoring agents for any services, rules, thresholds    *)
(* and bounds. CounterSettles is nearly inductive by itself; ToldIsSeen      *)
(* needs to know how far the health agent is in the list it goes through:    *)
(* what lies behind is told as in the new snapshot, what lies ahead as in    *)
(* the old one.                                                              *)
EXTENDS AgentMonitor, TLAPS

H == "health_agent"

\* Where a thread may be, and what it holds there.
Places ==
  \A t \in Agent :
    /\ at[t] \in 1..(Len(Watched(t)) + 1)
    /\ pc[t] \notin {"detect", "report"} => ~Done(t)
    /\ pc[t] = "killed" => victim[t] \in Service

\* The health agent has dealt with the i-th service of this round.
Behind(i) == i < at[H] \/ (i = at[H] /\ pc[H] # "report")

ToldByPlace ==
  \A i \in 1..Len(SERVICES) :
    told[SERVICES[i]] \in
      {None, IF pc[H] # "detect" /\ Behind(i) THEN new[H][SERVICES[i]] ELSE last[H][SERVICES[i]]}

IInv == TypeOK /\ Places /\ CounterSettles /\ ToldByPlace

\* The lists the agents go through hold targets only.
LEMMA Lists ==
  /\ Redis \in Target /\ Redis \notin Service /\ Service \subseteq Target
  /\ Len(SERVICES) \in Nat
  /\ \A i \in 1..Len(SERVICES) : SERVICES[i] \in Service
  /\ \A t \in Agent : Len(Watched(t)) \in Nat /\ Len(Watched(t)) <= Len(SERVICES) + 1
  /\ \A t \in Agent : \A i \in 1..Len(Watched(t)) : Watched(t)[i] \in Target
  /\ Watched(H) = SERVICES
  /\ \A i \in 1..Len(Watched("db_agent")) : Watched("db_agent")[i] = Redis
  /\ \A s \in Service : "up" \in State /\ "down" \in State
<1>1. Len(SERVICES) \in Nat /\ \A i \in 1..Len(SERVICES) : SERVICES[i] \in STRING \ {Redis}
  BY MonitorAssumption
<1>2. Redis \in Target /\ Redis \notin Service /\ Service \subseteq Target
  BY <1>1 DEF Target, Service
<1>3. \A i \in 1..Len(SERVICES) : SERVICES[i] \in Service
  BY DEF Service
<1>4. Watched(H) = SERVICES
  BY DEF Watched, H
<1>5. Watched("db_agent") = <<Redis>> /\ Len(<<Redis>>) = 1 /\ <<Redis>>[1] = Redis
  BY DEF Watched
<1>6. \A t \in Agent : t = H \/ t = "db_agent"
  BY DEF Agent, H
<1>7. \A i \in 1..Len(Watched("db_agent")) : Watched("db_agent")[i] = Redis
  BY <1>5
<1>8. \A t \in Agent : Len(Watched(t)) \in Nat /\ Len(Watched(t)) <= Len(SERVICES) + 1
  BY <1>1, <1>4, <1>5, <1>6
<1>9. \A t \in Agent : \A i \in 1..Len(Watched(t)) : Watched(t)[i] \in Target
  BY <1>2, <1>3, <1>4, <1>6, <1>7
<1>10. \A s \in Service : "up" \in State /\ "down" \in State
  <2> SUFFICES ASSUME NEW s \in Service PROVE "up" \in States(s) /\ "down" \in States(s) /\ s \in Target
    BY DEF State
  <2>. QED BY <1>2 DEF States
<1>. QED BY <1>1, <1>2, <1>3, <1>4, <1>7, <1>8, <1>9, <1>10

\* A thread in the middle of its list is at a target of it.
LEMMA PresentIsTarget ==
  ASSUME Places, NEW t \in Agent, ~Done(t)
  PROVE  Present(t) \in Target /\ at[t] \in 1..Len(Watched(t))
<1>1. at[t] \in 1..Len(Watched(t))
  BY Lists DEF Places, Done
<1>. QED BY <1>1, Lists DEF Present

LEMMA InitHolds == ASSUME Init PROVE IInv
<1>1. TypeOK
  BY Lists, MonitorAssumption DEF Init, TypeOK
<1>2. Places
  BY Lists DEF Init, Places
<1>3. CounterSettles
  BY MonitorAssumption DEF Init, CounterSettles
<1>4. ToldByPlace
  BY Lists DEF Init, ToldByPlace
<1>. QED BY <1>1, <1>2, <1>3, <1>4 DEF IInv

\* Every action keeps the types.
LEMMA TypeKept ==
  ASSUME IInv, [Next]_vars PROVE TypeOK'
<1>. USE DEF IInv
<1>0. CASE UNCHANGED vars
  BY <1>0 DEF TypeOK, vars
<1>1. CASE Change
  <2>. PICK s \in Target : \E h \in States(s) : now' = [now EXCEPT ![s] = h]
    BY <1>1 DEF Change
  <2>. PICK h \in States(s) : now' = [now EXCEPT ![s] = h]
    BY <1>1 DEF Change
  <2>1. h \in State
    BY DEF State
  <2>. QED BY <1>1, <2>1, MonitorAssumption DEF Change, TypeOK
<1>2. CASE \E t \in Agent : Poll(t) \/ OnEvent(t)
  <2>. PICK t \in Agent : Poll(t) \/ OnEvent(t)
    BY <1>2
  <2>t. at[t] \in 1..(Len(Watched(t)) + 1) /\ Len(Watched(t)) \in Nat
         /\ Len(Watched(t)) <= Len(SERVICES) + 1 /\ Len(SERVICES) \in Nat
    BY Lists DEF Places
  <2>n. ~Done(t) => at[t] + 1 \in 1..(Len(SERVICES) + 2)
    BY <2>t DEF Done
  <2>o. 1 \in 1..(Len(SERVICES) + 2)
    BY <2>t
  <2>1. CASE Detect(t)
    <3>1. Present(t) \in Target
      BY <2>1, PresentIsTarget DEF Detect
    <3>2. now[Present(t)] \in State
      BY <3>1 DEF TypeOK
    <3>3. new' \in [Agent -> [Target -> State \union {None}]]
      BY <2>1, <3>1, <3>2 DEF Detect, TypeOK
    <3>. QED BY <2>1, <2>n, <3>3 DEF Detect, Go, TypeOK
  <2>2. CASE Sleep(t)
    BY <2>2, <2>o DEF Sleep, Go, TypeOK
  <2>3. CASE Compare(t)
    BY <2>3, <2>o DEF Compare, Go, TypeOK
  <2>4. CASE Skip(t)
    BY <2>4, <2>n DEF Skip, Go, TypeOK
  <2>5. CASE Finish(t)
    BY <2>5, <2>o DEF Finish, Go, TypeOK
  <2>6. CASE Publish(t)
    <3>1. Present(t) \in Target
      BY <2>6, PresentIsTarget DEF Publish
    <3>2. EventType(t) \in State \union {None, "db_high"}
      BY <3>1 DEF EventType, TypeOK
    <3>3. told' \in [Target -> State \union {None, "db_high"}]
      BY <2>6, <3>1, <3>2 DEF Publish, TypeOK
    <3>. QED BY <2>6, <3>3 DEF Publish, Go, TypeOK
  <2>7. CASE RuleHit(t)
    <3>1. ~Done(t)
      BY <2>7 DEF RuleHit, Return, Go, Places
    <3>. QED BY <2>7, <2>n, <3>1 DEF RuleHit, Return, Go, TypeOK
  <2>8. CASE Load(t)
    BY <2>8 DEF Load, Go, TypeOK
  <2>9. CASE Add(t)
    BY <2>9 DEF Add, Go, TypeOK
  <2>10. CASE Wait(t)
    <3>1. ~Done(t)
      BY <2>10 DEF Wait, Return, Go, Places
    <3>. QED BY <2>10, <2>n, <3>1 DEF Wait, Return, Go, TypeOK
  <2>11. CASE Exceed(t)
    BY <2>11 DEF Exceed, Go, TypeOK
  <2>12. CASE Escalate(t)
    BY <2>12 DEF Escalate, Go, TypeOK
  <2>13. CASE Kill(t)
    <3>. PICK s \in Service : victim' = [victim EXCEPT ![t] = s] /\ now' = [now EXCEPT ![s] = "down"]
      BY <2>13 DEF Kill
    <3>1. s \in Target /\ "down" \in State
      BY Lists
    <3>2. now' \in [Target -> State] /\ victim' \in [Agent -> Service \union {None}]
      BY <3>1 DEF TypeOK
    <3>3. round' \in [Agent -> 0..MaxRestart]
      BY <2>13, MonitorAssumption DEF Kill, TypeOK
    <3>. QED BY <2>13, <3>2, <3>3 DEF Kill, Go, TypeOK
  <2>14. CASE Start(t)
    <3>1. victim[t] \in Service
      BY <2>14 DEF Start, Go, Places
    <3>2. victim[t] \in Target /\ "up" \in State /\ now[victim[t]] \in State
      BY <3>1, Lists DEF TypeOK
    <3>3. now' \in [Target -> State]
      BY <2>14, <3>2 DEF Start, TypeOK
    <3>. QED BY <2>14, <3>3 DEF Start, Go, TypeOK
  <2>15. CASE Answered(t)
    <3>1. ~Done(t)
      BY <2>15 DEF Answered, Return, Go, Places
    <3>2. round' \in [Agent -> 0..MaxRestart]
      BY <2>15, MonitorAssumption DEF Answered, TypeOK
    <3>. QED BY <2>15, <2>n, <3>1, <3>2 DEF Answered, Return, Go, TypeOK
  <2>. QED BY <2>1, <2>2, <2>3, <2>4, <2>5, <2>6, <2>7, <2>8, <2>9, <2>10, <2>11, <2>12,
              <2>13, <2>14, <2>15 DEF Poll, OnEvent
<1>. QED BY <1>0, <1>1, <1>2 DEF Next

\* A thread moves in its own list only, and never out of it.
LEMMA PlacesKept ==
  ASSUME IInv, [Next]_vars PROVE Places'
<1>. USE DEF IInv
<1>. SUFFICES ASSUME NEW u \in Agent
              PROVE /\ at'[u] \in 1..(Len(Watched(u)) + 1)
                    /\ pc'[u] \notin {"detect", "report"} => ~(at'[u] > Len(Watched(u)))
                    /\ pc'[u] = "killed" => victim'[u] \in Service
  BY DEF Places, Done
<1>u. /\ at[u] \in 1..(Len(Watched(u)) + 1) /\ Len(Watched(u)) \in Nat
      /\ pc[u] \notin {"detect", "report"} => ~(at[u] > Len(Watched(u)))
      /\ pc[u] = "killed" => victim[u] \in Service
  BY Lists DEF Places, Done
<1>0. CASE UNCHANGED vars \/ Change
  BY <1>0, <1>u DEF vars, Change
<1>1. CASE \E t \in Agent : Poll(t) \/ OnEvent(t)
  <2>. PICK t \in Agent : Poll(t) \/ OnEvent(t)
    BY <1>1
  <2>1. CASE t # u
    <3>1. pc'[u] = pc[u] /\ at'[u] = at[u] /\ victim'[u] = victim[u]
      <4>1. CASE Poll(t)
        BY <2>1, <4>1 DEF Poll, Detect, Sleep, Compare, Skip, Finish, Go, TypeOK
      <4>2. CASE Publish(t) \/ Load(t) \/ Add(t) \/ Exceed(t) \/ Escalate(t)
        BY <2>1, <4>2 DEF Publish, Load, Add, Exceed, Escalate, Go, TypeOK
      <4>3. CASE RuleHit(t) \/ Wait(t) \/ Kill(t) \/ Start(t) \/ Answered(t)
        BY <2>1, <4>3 DEF RuleHit, Wait, Kill, Start, Answered, Go, Return, TypeOK
      <4>. QED BY <4>1, <4>2, <4>3 DEF OnEvent
    <3>. QED BY <3>1, <1>u
  <2>2. CASE t = u
    <3>1. CASE Detect(u) \/ Sleep(u) \/ Compare(u) \/ Skip(u) \/ Finish(u)
      <4>1. CASE Detect(u) \/ Skip(u)
        BY <4>1, <1>u DEF Detect, Skip, Go, Done, TypeOK
      <4>2. CASE Sleep(u) \/ Compare(u) \/ Finish(u)
        <5>1. at'[u] = 1 /\ pc'[u] \in {"detect", "report"}
          BY <4>2 DEF Sleep, Compare, Finish, Go, TypeOK
        <5>2. 1 \in 1..(Len(Watched(u)) + 1)
          BY <1>u
        <5>3. pc'[u] # "killed"
          BY <5>1
        <5>. QED BY <5>1, <5>2, <5>3
      <4>. QED BY <3>1, <4>1, <4>2
    <3>2. CASE RuleHit(u) \/ Wait(u) \/ Answered(u)
      BY <3>2, <1>u DEF RuleHit, Wait, Answered, Return, Go, TypeOK
    <3>3. CASE Publish(u) \/ Load(u) \/ Add(u) \/ Exceed(u) \/ Escalate(u) \/ Start(u)
      BY <3>3, <1>u DEF Publish, Load, Add, Exceed, Escalate, Start, Go, Done, TypeOK
    <3>4. CASE Kill(u)
      BY <3>4, <1>u DEF Kill, Go, TypeOK
    <3>. QED BY <2>2, <3>1, <3>2, <3>3, <3>4 DEF Poll, OnEvent
  <2>. QED BY <2>1, <2>2
<1>. QED BY <1>0, <1>1 DEF Next

\* Whoever stores a count tests it next, and whoever finds it too high resets it.
LEMMA CounterKept ==
  ASSUME IInv, [Next]_vars PROVE CounterSettles'
<1>. USE DEF IInv
<1>0. CASE UNCHANGED vars \/ Change
  BY <1>0 DEF vars, Change, CounterSettles
<1>1. CASE \E t \in Agent : Poll(t) \/ OnEvent(t)
  <2>. PICK t \in Agent : Poll(t) \/ OnEvent(t)
    BY <1>1
  <2>1. CASE Detect(t) \/ Sleep(t) \/ Compare(t) \/ Skip(t) \/ Finish(t) \/ Publish(t)
             \/ Load(t) \/ Kill(t) \/ Start(t) \/ Answered(t)
    BY <2>1 DEF Detect, Sleep, Compare, Skip, Finish, Publish, Load, Kill, Start, Answered,
                Return, Go, CounterSettles, TypeOK
  <2>2. CASE RuleHit(t) \/ Escalate(t)
    BY <2>2, MonitorAssumption DEF RuleHit, Escalate, CounterSettles
  <2>3. CASE Add(t) \/ Exceed(t)
    BY <2>3 DEF Add, Exceed, Go, CounterSettles, TypeOK
  <2>4. CASE Wait(t)
    BY <2>4, MonitorAssumption DEF Wait, Enough, CounterSettles, TypeOK
  <2>. QED BY <2>1, <2>2, <2>3, <2>4 DEF Poll, OnEvent
<1>. QED BY <1>0, <1>1 DEF Next

\* Steps of the other agent, and of the world, leave the report alone.
LEMMA ToldElsewhere ==
  ASSUME IInv, [Next]_vars,
         pc'[H] = pc[H] /\ at'[H] = at[H] /\ last'[H] = last[H] /\ new'[H] = new[H],
         \A s \in Service : told'[s] = told[s]
  PROVE  ToldByPlace'
<1>1. \A i \in 1..Len(SERVICES) : told'[SERVICES[i]] = told[SERVICES[i]]
  BY Lists
<1>. QED BY <1>1 DEF IInv, ToldByPlace, Behind

LEMMA ToldKept ==
  ASSUME IInv, [Next]_vars PROVE ToldByPlace'
<1>. USE DEF IInv
<1>h. H \in Agent
  BY DEF H, Agent
<1>0. CASE UNCHANGED vars \/ Change
  BY <1>0, ToldElsewhere DEF vars, Change
<1>1. CASE \E t \in Agent \ {H} : Poll(t) \/ OnEvent(t)
  <2>. PICK t \in Agent \ {H} : Poll(t) \/ OnEvent(t)
    BY <1>1
  <2>1. pc'[H] = pc[H] /\ at'[H] = at[H] /\ last'[H] = last[H] /\ new'[H] = new[H]
    BY <1>h DEF Poll, OnEvent, Detect, Sleep, Compare, Skip, Finish, Publish, RuleHit, Load,
                Add, Wait, Exceed, Escalate, Kill, Start, Answered, Return, Go, TypeOK
  <2>2. \A s \in Service : told'[s] = told[s]
    <3>1. CASE Publish(t)
      <4>1. t = "db_agent" /\ at[t] \in 1..Len(Watched(t))
        BY <3>1, PresentIsTarget DEF Publish, Agent, H
      <4>2. Present(t) = Redis
        BY <4>1, Lists DEF Present
      <4>. QED BY <3>1, <4>2, Lists DEF Publish, TypeOK
    <3>2. CASE ~Publish(t)
      BY <3>2 DEF Poll, OnEvent, Detect, Sleep, Compare, Skip, Finish, RuleHit, Load,
                  Add, Wait, Exceed, Escalate, Kill, Start, Answered
    <3>. QED BY <3>1, <3>2
  <2>. QED BY <2>1, <2>2, ToldElsewhere
<1>2. CASE Poll(H) \/ OnEvent(H)
  <2>. SUFFICES ASSUME NEW i \in 1..Len(SERVICES)
                PROVE told'[SERVICES[i]] \in
                        {None, IF pc'[H] # "detect" /\ (i < at'[H] \/ (i = at'[H] /\ pc'[H] # "report"))
                               THEN new'[H][SERVICES[i]] ELSE last'[H][SERVICES[i]]}
    BY DEF ToldByPlace, Behind
  <2>i. told[SERVICES[i]] \in
          {None, IF pc[H] # "detect" /\ (i < at[H] \/ (i = at[H] /\ pc[H] # "report"))
                 THEN new[H][SERVICES[i]] ELSE last[H][SERVICES[i]]}
    BY DEF ToldByPlace, Behind
  <2>t. /\ SERVICES[i] \in Service /\ SERVICES[i] \in Target
        /\ Len(SERVICES) \in Nat /\ i \in Nat /\ i <= Len(SERVICES)
        /\ at[H] \in Nat /\ at[H] >= 1 /\ Watched(H) = SERVICES
    BY <1>h, Lists DEF Places
  <2>p. Present(H) = SERVICES[at[H]]
    BY <2>t DEF Present
  <2>1. CASE Detect(H) \/ Sleep(H)
    BY <1>h, <2>1, <2>i, <2>t DEF Detect, Sleep, Go, TypeOK
  <2>2. CASE Compare(H)
    BY <1>h, <2>2, <2>i, <2>t DEF Compare, Go, TypeOK
  <2>3. CASE Skip(H)
    <3>1. last[H][SERVICES[at[H]]] \in {None, new[H][SERVICES[at[H]]]}
      BY <2>3, <2>p DEF Skip, IsNews, H
    <3>2. CASE i = at[H]
      BY <1>h, <2>3, <2>i, <2>t, <3>1, <3>2 DEF Skip, Go, TypeOK
    <3>3. CASE i # at[H]
      BY <1>h, <2>3, <2>i, <2>t, <3>3 DEF Skip, Go, TypeOK
    <3>. QED BY <3>2, <3>3
  <2>4. CASE Finish(H)
    <3>1. i < at[H]
      BY <2>4, <2>t DEF Finish, Done
    <3>. QED BY <1>h, <2>4, <2>i, <3>1 DEF Finish, Go, TypeOK
  <2>5. CASE Publish(H)
    <3>1. at[H] \in 1..Len(SERVICES) /\ Present(H) \in Target
      BY <1>h, <2>5, <2>t, PresentIsTarget DEF Publish
    <3>2. pc[H] = "report" /\ pc'[H] = "match" /\ UNCHANGED <<at, last, new>>
      BY <1>h, <2>5 DEF Publish, Go, TypeOK
    <3>3. told' = [told EXCEPT ![SERVICES[at[H]]] = new[H][SERVICES[at[H]]]]
      BY <2>5, <2>p DEF Publish, EventType, H
    <3>4. CASE i = at[H]
      BY <2>t, <3>2, <3>3, <3>4 DEF TypeOK
    <3>5. CASE i # at[H]
      <4>1. SERVICES[i] # SERVICES[at[H]]
        BY <3>1, <3>5, MonitorAssumption
      <4>2. told'[SERVICES[i]] = told[SERVICES[i]]
        BY <3>3, <4>1, <2>t DEF TypeOK
      <4>. QED BY <2>i, <3>2, <3>5, <4>2
    <3>. QED BY <3>4, <3>5
  <2>6. CASE RuleHit(H) \/ Wait(H) \/ Answered(H)
    <3>1. pc[H] \notin {"detect", "report"} /\ pc'[H] = "report" /\ at'[H] = at[H] + 1
      BY <1>h, <2>6 DEF RuleHit, Wait, Answered, Return, Go, TypeOK
    <3>2. UNCHANGED <<told, last, new>>
      BY <2>6 DEF RuleHit, Wait, Answered
    <3>3. i < at[H] + 1 <=> (i < at[H] \/ i = at[H])
      BY <2>t
    <3>4. ~(i = at[H] + 1 /\ pc'[H] # "report")
      BY <3>1
    <3>. QED BY <2>i, <3>1, <3>2, <3>3, <3>4
  <2>7. CASE Load(H) \/ Add(H) \/ Exceed(H) \/ Escalate(H) \/ Kill(H) \/ Start(H)
    <3>1. pc[H] \notin {"detect", "report"} /\ pc'[H] \notin {"detect", "report"}
      BY <1>h, <2>7 DEF Load, Add, Exceed, Escalate, Kill, Start, Go, TypeOK
    <3>2. UNCHANGED <<told, last, new, at>>
      BY <2>7 DEF Load, Add, Exceed, Escalate, Kill, Start
    <3>. QED BY <2>i, <3>1, <3>2
  <2>. QED BY <1>2, <2>1, <2>2, <2>3, <2>4, <2>5, <2>6, <2>7 DEF Poll, OnEvent
<1>. QED BY <1>0, <1>1, <1>2 DEF Next

LEMMA Inductive == Spec => []IInv
<1>1. IInv /\ [Next]_vars => IInv'
  BY TypeKept, PlacesKept, CounterKept, ToldKept DEF IInv
<1>. QED BY InitHolds, <1>1, PTL DEF Spec

\* The agents' places, snapshots and the planner's fields keep their types.
THEOREM TypeCorrect == Spec => []TypeOK
<1>1. IInv => TypeOK
  BY DEF IInv
<1>. QED BY <1>1, Inductive, PTL

\* A reached threshold always has a thread that will ask the model, however
\* the updates of the shared counter interleave (planner.py:55-61).
THEOREM ThresholdIsNoticed == Spec => []CounterSettles
<1>1. IInv => CounterSettles
  BY DEF IInv
<1>. QED BY <1>1, Inductive, PTL

\* The planner's last event about a service is what the health agent saw last
\* (agent_loop.py:52-55, health_agent.py:53-74).
THEOREM SilenceMeansNoChange == Spec => []ToldIsSeen
<1>1. IInv => ToldIsSeen
  <2>. SUFFICES ASSUME IInv, pc[H] = "detect", NEW s \in Service, told[s] # None
                PROVE told[s] = last[H][s]
    BY DEF ToldIsSeen, H
  <2>1. PICK i \in 1..Len(SERVICES) : s = SERVICES[i]
    BY DEF Service
  <2>. QED BY <2>1 DEF IInv, ToldByPlace
<1>. QED BY <1>1, Inductive, PTL
=============================================================================
