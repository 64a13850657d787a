---------------------------- MODULE ServiceDiscovery ----------------------------
(***************************************************************************)
(* How a process finds the instances of a service it calls: an instance    *)
(* puts its access_host under its key in etcd, on a lease it keeps alive   *)
(* (Registry); a caller lists the keys, then watches them (Discovery) and  *)
(* keeps one brpc channel per host, which its worker threads take in turn  *)
(* (ServiceManager, ChannelManager).  One declared service, one caller.    *)
(*                                                                         *)
(* An instance is known by its access_host, so an instance that starts     *)
(* again is the same one; instances started with the default               *)
(* --instance_name share a key.                                            *)
(***************************************************************************)
EXTENDS Naturals, Sequences, FiniteSets

CONSTANTS
  Instance,    \* the instances of the service, i.e. their access_hosts
  Key,         \* the keys they register under
  KeyOf,       \* KeyOf[i]: base_service + instance_name of i
  None,        \* no instance
  IndexCycle,  \* a multiple of every length the channel list can have
  MaxStart,    \* bound: instances started, in all
  MaxFault     \* bound: leases lost by a live instance, failed ls, broken watches

ASSUME DiscoveryConstants ==
  /\ IsFiniteSet(Instance)
  /\ KeyOf \in [Instance -> Key]
  /\ None \notin Instance
  /\ IndexCycle \in Nat \ {0}
  /\ MaxStart \in Nat /\ MaxFault \in Nat

VARIABLES
  up,        \* instances that run
  binding,   \* binding[k]: the instance whose PUT etcd holds under k, or None
  kept,      \* kept[k]: the lease of that binding is being refreshed
  phase,     \* the caller: "ls", "announce", "run" (it watches), "deaf" (its watch has
             \* ended) or "dead"
  inbox,     \* what its discovery thread has still to hand to put_cb and del_cb
  step,      \* where append() stands: "idle", "push" or "name"
  adding,    \* the instance append() was called for
  channels,  \* _channels; named: _hosts of that host is this very channel
  manager,   \* the service has a ChannelManager
  index,     \* _index, modulo IndexCycle
  chosen,    \* history: the instance whose channel was taken last
  tainted,   \* history: instances whose events were lost, or were not one PUT
             \* and one DELETE in turn, since the caller's ls
  starts, faults

etcd == <<up, binding, kept, starts>>
caller == <<phase, inbox, step, adding, channels, manager, index, chosen>>
vars == <<up, binding, kept, phase, inbox, step, adding, channels, manager, index,
          chosen, tainted, starts, faults>>

Event == [type : {"PUT", "DELETE"}, inst : Instance]
Channel == [host : Instance, named : BOOLEAN]

TypeOK ==
  /\ up \subseteq Instance
  /\ binding \in [Key -> Instance \cup {None}]
  /\ kept \in [Key -> BOOLEAN]
  /\ phase \in {"ls", "announce", "run", "deaf", "dead"}
  /\ inbox \in Seq(Event)
  /\ step \in {"idle", "push", "name"}
  /\ adding \in Instance \cup {None}
  /\ channels \in Seq(Channel)
  /\ manager \in BOOLEAN
  /\ index \in 0 .. (IndexCycle - 1)
  /\ chosen \in Instance \cup {None}
  /\ tainted \subseteq Instance
  /\ starts \in 0 .. MaxStart /\ faults \in 0 .. MaxFault
  /\ step # "idle" => adding \in Instance

Registered(i) == binding[KeyOf[i]] = i
Listed(i) == \E c \in DOMAIN channels : channels[c].host = i
Serving == phase \in {"run", "deaf"}
Put(i) == [type |-> "PUT", inst |-> i]
Delete(i) == [type |-> "DELETE", inst |-> i]

Init ==
  /\ up = {}
  /\ binding = [k \in Key |-> None]
  /\ kept = [k \in Key |-> FALSE]
  /\ phase = "ls" /\ inbox = << >>
  /\ step = "idle" /\ adding = None
  /\ channels = << >> /\ manager = FALSE /\ index = 0
  /\ chosen = None /\ tainted = {}
  /\ starts = 0 /\ faults = 0

-------------------------------------------------------------------------------
(* etcd and the instances                                                    *)

\* An event of the key space.  A watcher gets it; between the ls and the creation of
\* the watcher, and after its end, nobody does.  The instances in `broken` have events
\* that do not alternate.
Notify(e, broken) ==
  /\ inbox' = IF phase = "run" THEN Append(inbox, e) ELSE inbox
  /\ tainted' = tainted \cup (CASE phase \in {"announce", "deaf"} -> broken \cup {e.inst}
                               [] phase = "run" -> broken
                               [] OTHER -> {})

\* An instance starts, obtains a lease and registers.  A PUT over a binding, its own of
\* before a restart or another instance's, raises no DELETE for the old one.
Start(i) ==
  /\ i \notin up /\ starts < MaxStart
  /\ up' = up \cup {i}
  /\ binding' = [binding EXCEPT ![KeyOf[i]] = i]
  /\ kept' = [kept EXCEPT ![KeyOf[i]] = TRUE]
  /\ starts' = starts + 1
  /\ Notify(Put(i), {binding[KeyOf[i]]} \ {None})
  /\ UNCHANGED <<phase, step, adding, channels, manager, index, chosen, faults>>

\* It ends, by ~Registry or by a crash: its lease is not refreshed any more.
Stop(i) ==
  /\ i \in up
  /\ up' = up \ {i}
  /\ kept' = [kept EXCEPT ![KeyOf[i]] = @ /\ ~Registered(i)]
  /\ UNCHANGED <<binding, starts, caller, tainted, faults>>

\* A running instance is stalled or cut off for longer than its lease of 3 seconds.
\* Nothing registers it again.
LoseLease(i) ==
  /\ i \in up /\ Registered(i) /\ kept[KeyOf[i]] /\ faults < MaxFault
  /\ kept' = [kept EXCEPT ![KeyOf[i]] = FALSE]
  /\ faults' = faults + 1
  /\ UNCHANGED <<up, binding, starts, caller, tainted>>

\* A lease ends and etcd deletes the key attached to it.
Expire(k) ==
  /\ binding[k] # None /\ ~kept[k]
  /\ binding' = [binding EXCEPT ![k] = None]
  /\ Notify(Delete(binding[k]), {})
  /\ UNCHANGED <<up, kept, starts, phase, step, adding, channels, manager, index,
                 chosen, faults>>

-------------------------------------------------------------------------------
(* The caller's Discovery                                                    *)

\* The answers of an ls: each instance found, once, in the order of the keys.
Orders(S) ==
  {s \in [1 .. Cardinality(S) -> S] :
     /\ \A x \in S : \E n \in DOMAIN s : s[n] = x
     /\ \A n, m \in DOMAIN s : s[n] = s[m] => n = m}

\* ls(base_dir): put_cb will be called for what it found.  A failed ls is only logged
\* and found nothing.
Ls ==
  LET found == {i \in Instance : Registered(i)}
  IN /\ phase = "ls"
     /\ phase' = "announce"
     /\ \/ /\ \E s \in Orders(found) : inbox' = [n \in DOMAIN s |-> Put(s[n])]
           /\ UNCHANGED <<tainted, faults>>
        \/ /\ faults < MaxFault
           /\ faults' = faults + 1
           /\ inbox' = << >>
           /\ tainted' = found
     /\ UNCHANGED <<etcd, step, adding, channels, manager, index, chosen>>

\* All answers handed on, the watcher is made: events count from here.
Watch ==
  /\ phase = "announce" /\ inbox = << >> /\ step = "idle"
  /\ phase' = "run"
  /\ UNCHANGED <<etcd, inbox, step, adding, channels, manager, index, chosen, tainted,
                 faults>>

\* The discovery thread takes up an event of this type.
Takes(type) ==
  /\ phase \in {"announce", "run"} /\ step = "idle"
  /\ inbox # << >> /\ Head(inbox).type = type

\* onServiceOnline: the ChannelManager is found or made, and append() called.
Online ==
  /\ Takes("PUT")
  /\ manager' = TRUE
  /\ step' = "push" /\ adding' = Head(inbox).inst
  /\ inbox' = Tail(inbox)
  /\ UNCHANGED <<etcd, phase, channels, index, chosen, tainted, faults>>

\* append(): _channels.push_back, outside the lock ...
Push ==
  /\ phase # "dead" /\ step = "push"
  /\ channels' = Append(channels, [host |-> adding, named |-> FALSE])
  /\ step' = "name"
  /\ UNCHANGED <<etcd, phase, inbox, adding, manager, index, chosen, tainted, faults>>

\* ... and _hosts[host] = channel, inside it: another channel of this host loses its name.
Name ==
  /\ phase # "dead" /\ step = "name"
  /\ channels' = [c \in DOMAIN channels |->
                    IF channels[c].host = adding
                    THEN [channels[c] EXCEPT !.named = (c = Len(channels))]
                    ELSE channels[c]]
  /\ step' = "idle" /\ adding' = None
  /\ UNCHANGED <<etcd, phase, inbox, manager, index, chosen, tainted, faults>>

\* Mutant: erase() is given the end of the vector as well.
WithoutRest(s, c) == SubSeq(s, 1, c - 1)

Without(s, c) == SubSeq(s, 1, c - 1) \o SubSeq(s, c + 1, Len(s))

\* Mutant: only the entry of _hosts is erased.
OfflineHostOnly ==
  /\ Takes("DELETE")
  /\ channels' = [c \in DOMAIN channels |->
                    IF channels[c].host = Head(inbox).inst
                    THEN [channels[c] EXCEPT !.named = FALSE] ELSE channels[c]]
  /\ inbox' = Tail(inbox)
  /\ UNCHANGED <<etcd, phase, step, adding, manager, index, chosen, tainted, faults>>

\* onServiceOffline and remove(): the channel that _hosts names goes, no other one.
Offline ==
  LET named == {c \in DOMAIN channels :
                  channels[c] = [host |-> Head(inbox).inst, named |-> TRUE]}
  IN /\ Takes("DELETE")
     /\ \/ named = {} /\ UNCHANGED channels
        \/ \E c \in named : channels' = Without(channels, c)
     /\ inbox' = Tail(inbox)
     /\ UNCHANGED <<etcd, phase, step, adding, manager, index, chosen, tainted, faults>>

\* The stream of the watch breaks: Dispatcher is given a response that is not ok and logs
\* it.  The Watcher is not made again, so the caller keeps the list it has, for good.
BadResponse ==
  /\ phase = "run" /\ step = "idle" /\ faults < MaxFault
  /\ phase' = "deaf" /\ inbox' = << >>
  /\ tainted' = tainted \cup {inbox[n].inst : n \in DOMAIN inbox}
  /\ faults' = faults + 1
  /\ UNCHANGED <<etcd, step, adding, channels, manager, index, chosen>>

-------------------------------------------------------------------------------
(* The caller's worker threads                                               *)

\* Mutant: the index is advanced in a copy.
ChooseFirst ==
  /\ Serving /\ manager /\ channels # << >>
  /\ chosen' = channels[1].host
  /\ index' = (index + 1) % IndexCycle
  /\ UNCHANGED <<etcd, phase, inbox, step, adding, channels, manager, tainted, faults>>

\* choose(): the channels are taken in turn.  Without a manager the caller gets a null
\* pointer, and says so to its client: no state changes.
Choose ==
  /\ Serving /\ manager /\ channels # << >>
  /\ index' = (index + 1) % IndexCycle
  /\ chosen' = channels[(index % Len(channels)) + 1].host
  /\ UNCHANGED <<etcd, phase, inbox, step, adding, channels, manager, tainted, faults>>

\* With a manager and no channel the size is logged, and then divided by.
DivideByZero == manager /\ channels = << >>

\* push_back moves the elements to a larger block while choose() reads the old one.
Torn == manager /\ step = "push"

Die ==
  /\ Serving /\ (DivideByZero \/ Torn)
  /\ phase' = "dead"
  /\ UNCHANGED <<etcd, inbox, step, adding, channels, manager, index, chosen, tainted,
                 faults>>

\* docker starts the caller again.
Restart ==
  /\ phase = "dead"
  /\ phase' = "ls"
  /\ inbox' = << >> /\ step' = "idle" /\ adding' = None
  /\ channels' = << >> /\ manager' = FALSE /\ index' = 0 /\ chosen' = None
  /\ tainted' = {}
  /\ UNCHANGED <<etcd, faults>>

-------------------------------------------------------------------------------
Discovery == Ls \/ Watch \/ Online \/ Push \/ Name \/ Offline

Next ==
  \/ \E i \in Instance : Start(i) \/ Stop(i) \/ LoseLease(i)
  \/ \E k \in Key : Expire(k)
  \/ Discovery \/ BadResponse
  \/ Choose \/ Die \/ Restart

\* The discovery thread runs, leases end, docker restarts the caller.  Instances owe
\* nothing, and nobody owes a request.
Spec ==
  /\ Init /\ [][Next]_vars
  /\ WF_vars(Discovery) /\ WF_vars(Restart)
  /\ \A k \in Key : WF_vars(Expire(k))

-------------------------------------------------------------------------------
(* Properties                                                                *)

\* The caller has handled every event it was sent.
Quiet == Serving /\ inbox = << >> /\ step = "idle"

\* When the discovery thread has nothing left to do, the channel list holds exactly the
\* registered instances, one channel each; unless an instance registered over a binding
\* or an event of it was lost, as all of them are when the watch has ended (brpc.hpp:41
\* and :55, etcd.hpp:59-82).
DirectoryAgrees ==
  Quiet => \A i \in Instance \ tainted :
             /\ Registered(i) <=> Listed(i)
             /\ \A c, d \in DOMAIN channels :
                  channels[c].host = i /\ channels[d].host = i => c = d

\* choose() ends the process (brpc.hpp:71) only when every registered instance has an
\* event the caller has still to handle, is tainted, or an append is in progress: the
\* list is not emptied by the departure of some other instance.
DiesOnlyDeserted ==
  [][phase' = "dead" /\ phase # "dead" =>
       \/ step = "push"
       \/ \A i \in Instance :
            Registered(i) => \/ i \in tainted
                             \/ \E n \in DOMAIN inbox : inbox[n].inst = i]_vars

\* As long as requests come, an instance that stays registered is called again and
\* again, through crashes of the caller and the coming and going of others; one that
\* stays away is called no more.  Same condition as above.
TurnsFollowRegistry ==
  \A i \in Instance :
    []<><<Choose>>_vars /\ <>[](i \notin tainted) =>
      /\ <>[]Registered(i) => []<>(chosen = i)
      /\ <>[]~Registered(i) => <>[](chosen # i)
================================================================================
