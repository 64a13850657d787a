---------------------------- MODULE AgentMonitor ----------------------------
(* The monitoring half of the operations agent (src/agent_service/agent).    *)
(*                                                                           *)
(* Two agents, each a thread of its own (core/agent_loop.py), probe what     *)
(* they watch, compare with the snapshot before and publish events: the      *)
(* health agent one for every service whose state changed, the database      *)
(* agent one whenever a metric changed and Redis is above its threshold.     *)
(* The bus calls the planner in the thread that publishes                    *)
(* (core/event_bus.py), so the two agents run Planner.on_event at the same   *)
(* time, on fields no lock protects: `unhandled`, the number of events in a  *)
(* row that no rule covers, is read and written back in separate steps. At   *)
(* the threshold the planner asks a language model about every service it    *)
(* has ever heard of; the model may have services killed and started again   *)
(* (monitor/llm_planner.py, tool_registry.restart_service), and asking it    *)
(* may raise, which the bus swallows.                                        *)
(*                                                                           *)
(* Abstractions: of the events collected for a service only the last is      *)
(* kept, all the planner reads of them apart from the text for the model;    *)
(* tools that only look, rounds, tool_results and texts are left out. The    *)
(* log agent is left out because it never publishes: its on_state_change     *)
(* calls old.get on the first poll, where old is None, raises, and last      *)
(* stays None for ever (log_agent.py:35). A metric of DBAgent stands for the *)
(* whole snapshot; its MySQL part is never above the threshold, since        *)
(* int("") raises for every answer of mysqladmin (db_agent.py:33-37).        *)
EXTENDS Naturals, Sequences

CONSTANTS SERVICES,      \* the services watched, in the order of the table
          Http,          \* those that are also probed over HTTP
          Redis,         \* what the database agent reports about
          Rules,         \* the pairs <<event type, service>> a rule covers
          LlmThreshold,  \* PLANNER["llm_threshold"]
          MaxRestart,    \* bound: restarts the model asks for when it is asked
          MaxChange      \* bound: changes of the world the agents do not make

\* A dict has each key once; the planner counts at least one event.
ASSUME MonitorAssumption ==
  /\ SERVICES \in Seq(STRING \ {Redis})
  /\ \A i, j \in 1..Len(SERVICES) : SERVICES[i] = SERVICES[j] => i = j
  /\ LlmThreshold \in Nat \ {0} /\ MaxRestart \in Nat /\ MaxChange \in Nat

Agent == {"health_agent", "db_agent"}
Service == {SERVICES[i] : i \in 1..Len(SERVICES)}
Target == Service \union {Redis}
None == "none"

\* The states a probe can find a target in.
States(s) == IF s = Redis THEN {"low", "high", "higher"}
             ELSE IF s \in Http THEN {"up", "down", "http_timeout"}
             ELSE {"up", "down"}

\* What an agent goes through, in order.
Watched(t) == IF t = "health_agent" THEN SERVICES ELSE <<Redis>>

VARIABLES now,        \* the world: the state of every target
          changes,    \* changes the world made by itself, against MaxChange
          last, new,  \* by agent: last_state and new_state of run_loop
          pc,         \* by agent: where its thread is
          at,         \* by agent: its place in the list it goes through
          told,       \* Planner.state: the last event of every target
          unhandled,  \* Planner.unhandled
          copy,       \* by agent: the value of unhandled it has read
          round,      \* by agent: restarts the model has asked for
          victim      \* by agent: the service it restarts

vars == <<now, changes, last, new, pc, at, told, unhandled, copy, round, victim>>

State == UNION {States(s) : s \in Target}

TypeOK ==
  /\ now \in [Target -> State]
  /\ changes \in 0..MaxChange
  /\ last \in [Agent -> [Target -> State \union {None}]]
  /\ new \in [Agent -> [Target -> State \union {None}]]
  /\ pc \in [Agent -> {"detect", "report", "match", "count", "test",
                       "reset", "llm", "killed"}]
  /\ at \in [Agent -> 1..(Len(SERVICES) + 2)]
  /\ told \in [Target -> State \union {None, "db_high"}]
  /\ unhandled \in Nat
  /\ copy \in [Agent -> Nat]
  /\ round \in [Agent -> 0..MaxRestart]
  /\ victim \in [Agent -> Service \union {None}]

Init ==
  /\ now \in [Target -> State]
  /\ \A s \in Target : now[s] \in States(s)
  /\ changes = 0
  /\ last = [t \in Agent |-> [s \in Target |-> None]]
  /\ new = [t \in Agent |-> [s \in Target |-> None]]
  /\ pc = [t \in Agent |-> "detect"]
  /\ at = [t \in Agent |-> 1]
  /\ told = [s \in Target |-> None]
  /\ unhandled = 0
  /\ copy = [t \in Agent |-> 0]
  /\ round = [t \in Agent |-> 0]
  /\ victim = [t \in Agent |-> None]
-----------------------------------------------------------------------------
Present(t) == Watched(t)[at[t]]
Done(t) == at[t] > Len(Watched(t))
Go(t, here, there) == pc[t] = here /\ pc' = [pc EXCEPT ![t] = there]

\* A service goes down, hangs or comes back; memory grows or shrinks.
Change ==
  /\ changes < MaxChange
  /\ changes' = changes + 1
  /\ \E s \in Target : \E h \in States(s) :
       h # now[s] /\ now' = [now EXCEPT ![s] = h]
  /\ UNCHANGED <<last, new, pc, at, told, unhandled, copy, round, victim>>

\* detect(): one probe after the other, while the world goes on.
Detect(t) ==
  /\ Go(t, "detect", "detect") /\ ~Done(t)
  /\ new' = [new EXCEPT ![t][Present(t)] = now[Present(t)]]
  /\ at' = [at EXCEPT ![t] = @ + 1]
  /\ UNCHANGED <<now, changes, last, told, unhandled, copy, round, victim>>

\* A poll that finds nothing new; the agent sleeps and polls again.
Sleep(t) ==
  /\ Go(t, "detect", "detect") /\ Done(t) /\ new[t] = last[t]
  /\ at' = [at EXCEPT ![t] = 1]
  /\ UNCHANGED <<now, changes, last, new, told, unhandled, copy, round, victim>>

\* A poll that differs: on_state_change(last_state, new_state).
Compare(t) ==
  /\ Go(t, "detect", "report") /\ Done(t) /\ new[t] # last[t]
  /\ at' = [at EXCEPT ![t] = 1]
  /\ UNCHANGED <<now, changes, last, new, told, unhandled, copy, round, victim>>

\* Mutant: only what breaks is news, not what comes back.
IsNewsOfFaults(t, s) ==
  IF t = "health_agent" THEN last[t][s] # None /\ last[t][s] # new[t][s] /\ new[t][s] # "up"
  ELSE new[t][s] # "low"

\* The conditions of the two on_state_change: the first snapshot of a service
\* is only a base line, while Redis is reported whenever it is high.
IsNews(t, s) ==
  IF t = "health_agent" THEN last[t][s] # None /\ last[t][s] # new[t][s]
  ELSE new[t][s] # "low"

Skip(t) ==
  /\ Go(t, "report", "report") /\ ~Done(t) /\ ~IsNews(t, Present(t))
  /\ at' = [at EXCEPT ![t] = @ + 1]
  /\ UNCHANGED <<now, changes, last, new, told, unhandled, copy, round, victim>>

\* Mutant: the snapshot kept is a new one, taken when the events are out.
FinishProbesAgain(t) ==
  /\ Go(t, "report", "detect") /\ Done(t)
  /\ at' = [at EXCEPT ![t] = 1]
  /\ last' = [last EXCEPT ![t] = [s \in Target |-> IF new[t][s] = None THEN None ELSE now[s]]]
  /\ UNCHANGED <<now, changes, new, told, unhandled, copy, round, victim>>

\* on_state_change returns: last_state = new_state, then sleep.
Finish(t) ==
  /\ Go(t, "report", "detect") /\ Done(t)
  /\ at' = [at EXCEPT ![t] = 1]
  /\ last' = [last EXCEPT ![t] = new[t]]
  /\ UNCHANGED <<now, changes, new, told, unhandled, copy, round, victim>>
-----------------------------------------------------------------------------
(* Planner.on_event, in the thread of agent t, about Present(t).             *)
EventType(t) == IF t = "health_agent" THEN new[t][Present(t)] ELSE "db_high"
Return(t, here) == Go(t, here, "report") /\ at' = [at EXCEPT ![t] = @ + 1]

\* bus.publish calls on_event, which first adds to the diagnosis.
Publish(t) ==
  /\ Go(t, "report", "match") /\ ~Done(t) /\ IsNews(t, Present(t))
  /\ told' = [told EXCEPT ![Present(t)] = EventType(t)]
  /\ UNCHANGED <<now, changes, last, new, at, unhandled, copy, round, victim>>

Covered(t) == <<EventType(t), Present(t)>> \in Rules

\* A rule covers the event: the count starts again, its tools only look.
RuleHit(t) ==
  /\ Return(t, "match") /\ Covered(t)
  /\ unhandled' = 0
  /\ UNCHANGED <<now, changes, last, new, told, copy, round, victim>>

\* self.unhandled += 1: the load,
Load(t) ==
  /\ Go(t, "match", "count") /\ ~Covered(t)
  /\ copy' = [copy EXCEPT ![t] = unhandled]
  /\ UNCHANGED <<now, changes, last, new, at, told, unhandled, round, victim>>

\* and the store.
Add(t) ==
  /\ Go(t, "count", "test")
  /\ unhandled' = copy[t] + 1
  /\ copy' = [copy EXCEPT ![t] = 0]
  /\ UNCHANGED <<now, changes, last, new, at, told, round, victim>>

\* Mutant: the test asks for the threshold itself.
EnoughIfEqual == unhandled = LlmThreshold

Enough == unhandled >= LlmThreshold

Wait(t) ==
  /\ Return(t, "test") /\ ~Enough
  /\ UNCHANGED <<now, changes, last, new, told, unhandled, copy, round, victim>>

Exceed(t) ==
  /\ Go(t, "test", "reset") /\ Enough
  /\ UNCHANGED <<now, changes, last, new, at, told, unhandled, copy, round, victim>>

\* The count starts again; then the model is asked about every service heard
\* of, one after the other: a stretch in which it has services restarted.
Escalate(t) ==
  /\ Go(t, "reset", "llm")
  /\ unhandled' = 0
  /\ UNCHANGED <<now, changes, last, new, at, told, copy, round, victim>>

\* decide(): the model has a service restarted, whichever it names: pkill,
Kill(t) ==
  /\ Go(t, "llm", "killed") /\ round[t] < MaxRestart
  /\ round' = [round EXCEPT ![t] = @ + 1]
  /\ \E s \in Service : victim' = [victim EXCEPT ![t] = s] /\ now' = [now EXCEPT ![s] = "down"]
  /\ UNCHANGED <<changes, last, new, at, told, unhandled, copy>>

\* then Popen, after which the service is up, or as it was if the start fails.
Start(t) ==
  /\ Go(t, "killed", "llm")
  /\ victim' = [victim EXCEPT ![t] = None]
  /\ \E h \in {"up", now[victim[t]]} : now' = [now EXCEPT ![victim[t]] = h]
  /\ UNCHANGED <<changes, last, new, at, told, unhandled, copy, round>>

\* All are asked about, or asking raises and the bus swallows it.
Answered(t) ==
  /\ Return(t, "llm")
  /\ round' = [round EXCEPT ![t] = 0]
  /\ UNCHANGED <<now, changes, last, new, told, unhandled, copy, victim>>
-----------------------------------------------------------------------------
Poll(t) == Detect(t) \/ Sleep(t) \/ Compare(t) \/ Skip(t) \/ Finish(t)
OnEvent(t) ==
  \/ Publish(t) \/ RuleHit(t) \/ Load(t) \/ Add(t) \/ Wait(t) \/ Exceed(t)
  \/ Escalate(t) \/ Kill(t) \/ Start(t) \/ Answered(t)

Next == Change \/ \E t \in Agent : Poll(t) \/ OnEvent(t)
Spec == Init /\ [][Next]_vars

\* A thread that can go on does; calls of the model end (five rounds at most).
FairSpec == Spec /\ \A t \in Agent : WF_vars(Poll(t) \/ OnEvent(t))
-----------------------------------------------------------------------------
\* A count that has reached the threshold has a thread on its way to the
\* model: however two threads lose each other's updates of unhandled
\* (planner.py:55-61), no reached threshold is left behind with every thread
\* back in its sleep and nobody asked.
CounterSettles ==
  unhandled >= LlmThreshold => \E t \in Agent : pc[t] \in {"test", "reset"}

\* Between two polls the planner's last event about a service is what the
\* health agent saw last: silence really means that nothing changed, while
\* events were handled, services restarted and calls of the model raised
\* (agent_loop.py:4-6, health_agent.py:53-74).
ToldIsSeen ==
  pc["health_agent"] = "detect" =>
    \A s \in Service : told[s] # None => told[s] = last["health_agent"][s]

\* A service that goes to another state than the one last seen and stays
\* there is reported in the end, although the agent is blind while the
\* planner, in its thread, waits for the model and for restarts.
FaultIsTold ==
  \A s \in Service : \A h \in States(s) :
    (last["health_agent"][s] \notin {None, h} /\ now[s] = h) ~> (now[s] # h \/ told[s] = h)
=============================================================================
