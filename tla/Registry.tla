------------------------------ MODULE Registry ------------------------------
(***************************************************************************)
(* The service registry of shared/registry/registry.go as game instances   *)
(* and the matchmaker use it: every instance renews its entry in Redis by  *)
(* a heartbeat (services/game/main.go), and ListLive looks at the entries  *)
(* one after the other while they come and go.                             *)
(*                                                                         *)
(* Time passes in units of AdvanceTime.  Register sends a SET, Redis       *)
(* carries it out, and its answer comes back: three moments, between which *)
(* time passes, connections fail and processes end.  A SET nobody waits    *)
(* for any more may still be carried out.  The ticker exists only after    *)
(* the first call; it keeps one tick for a Heartbeat that is busy.         *)
(***************************************************************************)
EXTENDS Integers

CONSTANTS
  Instances,
  TTL,          \* registryTTL
  Interval,     \* heartbeatInterval
  MaxCall,      \* bound: how long Register takes, retries of the client
                \* included, before it fails
  MaxLate,      \* bound: how long after its call a SET is still carried out
  MaxMissed     \* bound: failed heartbeats counted

ASSUME TimesAssumption ==
  /\ TTL \in Nat \ {0}
  /\ Interval \in Nat \ {0}
  /\ MaxCall \in Nat
  /\ MaxLate \in Nat
  /\ MaxMissed \in Nat

VARIABLES
  up,          \* instances whose process runs
  reachable,   \* instances that reach Redis and get its answers in time
  entry,       \* time until the entry of an instance expires, 0 for no entry
  nextTick,    \* time until the ticker of an instance fires, NoTicker before
  due,         \* a tick that Heartbeat has not taken yet
  call,        \* time its Register call has taken, Idle between calls
  stored,      \* instances whose call has had a SET carried out
  late,        \* SETs on their way of calls that are over, by the time since
  missed,      \* history: heartbeats that failed since the last success
  downFor,     \* history: time since the process ended
  unvisited,   \* instances ListLive may still look at
  found,       \* instances ListLive has found
  scanning     \* ListLive is running

heartbeat == <<nextTick, due, call, stored, missed>>
redis == <<reachable, entry, late>>
listing == <<unvisited, found, scanning>>
vars == <<up, downFor, heartbeat, redis, listing>>

Idle == -1
NoTicker == 0
Lesser(a, b) == IF a < b THEN a ELSE b
Greater(a, b) == IF a > b THEN a ELSE b

\* How far downFor is counted.
LongGone == TTL + MaxLate

\* Instances with an entry that has not expired.
Registered == {i \in Instances : entry[i] > 0}

Init ==
  /\ up = {}
  /\ reachable \in SUBSET Instances
  /\ entry = [i \in Instances |-> 0]
  /\ nextTick = [i \in Instances |-> NoTicker]
  /\ due = [i \in Instances |-> FALSE]
  /\ call = [i \in Instances |-> Idle]
  /\ stored = {}
  /\ late = [i \in Instances |-> {}]
  /\ missed = [i \in Instances |-> MaxMissed]
  /\ downFor = [i \in Instances |-> LongGone]
  /\ unvisited = {}
  /\ found = {}
  /\ scanning = FALSE

-----------------------------------------------------------------------------
(* Heartbeat and Register, on a goroutine of the instance. *)

\* The process starts, and calls Register before there is a ticker.
Start(i) ==
  /\ i \notin up
  /\ up' = up \cup {i}
  /\ call' = [call EXCEPT ![i] = 0]
  /\ UNCHANGED <<downFor, nextTick, due, stored, missed, redis, listing>>

\* Mutant of Heartbeat: it goes on only after a call that succeeded.
HeartbeatWhileFine(i) ==
  /\ i \in up
  /\ due[i]
  /\ call[i] = Idle /\ missed[i] = 0
  /\ due' = [due EXCEPT ![i] = FALSE]
  /\ call' = [call EXCEPT ![i] = 0]
  /\ UNCHANGED <<up, downFor, nextTick, stored, missed, redis, listing>>

\* A tick is taken, and Register called.
Heartbeat(i) ==
  /\ i \in up
  /\ due[i]
  /\ call[i] = Idle
  /\ due' = [due EXCEPT ![i] = FALSE]
  /\ call' = [call EXCEPT ![i] = 0]
  /\ UNCHANGED <<up, downFor, nextTick, stored, missed, redis, listing>>

\* A SET of the call is carried out; the client may send more than one.
SetEntry(i, time) ==
  /\ i \in up
  /\ call[i] # Idle
  /\ entry' = [entry EXCEPT ![i] = time]
  /\ stored' = stored \cup {i}
  /\ UNCHANGED <<up, downFor, nextTick, due, call, missed, reachable, late>>
  /\ UNCHANGED listing

\* Mutants of Set: ttl and interval are mixed up; an interval is added.
SetForAnInterval(i) == SetEntry(i, Interval)
SetForLonger(i) == SetEntry(i, TTL + Interval)

\* The entry expires after TTL unless it is set again.
Set(i) == SetEntry(i, TTL)

\* The call is over.  Whatever it has sent may still be on its way, and
\* Heartbeat goes on, with a ticker created now if this was the first call.
Over(i) ==
  /\ call' = [call EXCEPT ![i] = Idle]
  /\ stored' = stored \ {i}
  /\ late' \in {late, [late EXCEPT ![i] = @ \cup {0}]}

Return(i) ==
  /\ call[i] # Idle
  /\ Over(i)
  /\ nextTick' = [nextTick EXCEPT ![i] = IF @ = NoTicker THEN Interval ELSE @]
  /\ UNCHANGED <<up, downFor, due, reachable, entry, listing>>

\* The answer to a SET arrives.
Register(i) ==
  /\ i \in up \cap reachable
  /\ i \in stored
  /\ Return(i)
  /\ missed' = [missed EXCEPT ![i] = 0]

\* No answer comes.  Nobody looks at the error; the next tick tries again.
RegisterFails(i) ==
  /\ i \in up \ reachable
  /\ Return(i)
  /\ missed' = [missed EXCEPT ![i] = Lesser(@ + 1, MaxMissed)]

\* The process crashes or is shut down, which leaves its entry, and what it
\* has sent if a call was under way.
Stop(i) ==
  /\ i \in up
  /\ up' = up \ {i}
  /\ downFor' = [downFor EXCEPT ![i] = 0]
  /\ nextTick' = [nextTick EXCEPT ![i] = NoTicker]
  /\ due' = [due EXCEPT ![i] = FALSE]
  /\ missed' = [missed EXCEPT ![i] = MaxMissed]
  /\ \/ call[i] = Idle /\ UNCHANGED <<call, stored, late>>
     \/ call[i] # Idle /\ Over(i)
  /\ UNCHANGED <<reachable, entry, listing>>

-----------------------------------------------------------------------------
(* Redis and the network. *)

\* A SET is carried out after its call has failed, or its process has ended.
SetLate(i) == \E age \in late[i] :
  /\ late' = [late EXCEPT ![i] = @ \ {age}]
  /\ entry' = [entry EXCEPT ![i] = TTL]
  /\ UNCHANGED <<up, downFor, heartbeat, reachable, listing>>

\* The connection of an instance to Redis fails, or is back.
Reach(i) ==
  /\ reachable' \in {reachable \cup {i}, reachable \ {i}}
  /\ UNCHANGED <<up, downFor, heartbeat, entry, late, listing>>

-----------------------------------------------------------------------------
(* ListLive: the keys that SCAN goes through, and a GET for each. *)

\* SCAN is about to go through the keys.
ListLive ==
  /\ ~scanning
  /\ scanning' = TRUE
  /\ unvisited' = Instances
  /\ found' = {}
  /\ UNCHANGED <<up, downFor, heartbeat, redis>>

\* An entry that has expired since is skipped.
Visit(i) ==
  /\ i \in unvisited
  /\ unvisited' = unvisited \ {i}
  /\ found' = found \cup ({i} \cap Registered)
  /\ UNCHANGED <<up, downFor, heartbeat, redis, scanning>>

\* So is an entry that GET does not return for any other reason.
GetFails(i) ==
  /\ i \in unvisited
  /\ unvisited' = unvisited \ {i}
  /\ UNCHANGED <<up, downFor, heartbeat, redis, found, scanning>>

\* SCAN has gone through every key there is, and the instances found are
\* returned.
EndOfScan ==
  /\ scanning
  /\ unvisited \cap Registered = {}
  /\ scanning' = FALSE
  /\ unvisited' = {}
  /\ found' = {}
  /\ UNCHANGED <<up, downFor, heartbeat, redis>>

-----------------------------------------------------------------------------
\* A running instance has nothing to do before time goes on.
Timely(i) == ~(due[i] /\ call[i] = Idle) /\ call[i] < MaxCall

\* One unit of time passes, and the entries become `left`.  A SET that is not
\* carried out by then is lost.
Pass(left) ==
  /\ \A i \in up : Timely(i)
  /\ entry' = left
  /\ late' = [i \in Instances |->
       {age \in 1..MaxLate : (age - 1) \in late[i]}]
  /\ nextTick' = [i \in Instances |->
       CASE nextTick[i] = NoTicker -> NoTicker
         [] nextTick[i] = 1 -> Interval
         [] OTHER -> nextTick[i] - 1]
  /\ due' = [i \in Instances |-> due[i] \/ nextTick[i] = 1]
  /\ call' = [i \in Instances |->
       IF call[i] = Idle THEN Idle ELSE call[i] + 1]
  /\ downFor' = [i \in Instances |->
       IF i \in up THEN downFor[i] ELSE Lesser(downFor[i] + 1, LongGone)]
  /\ UNCHANGED <<up, stored, missed, reachable, listing>>

\* Mutant of AdvanceTime: Register passes no TTL, and no entry expires.
KeepEntries == Pass(entry)

AdvanceTime == Pass([i \in Instances |-> Greater(0, entry[i] - 1)])

GoesOn(i) == Heartbeat(i) \/ Register(i) \/ RegisterFails(i)

Next ==
  \/ \E i \in Instances : Start(i) \/ Stop(i) \/ GoesOn(i) \/ Set(i)
  \/ \E i \in Instances : SetLate(i) \/ Reach(i)
  \/ ListLive
  \/ \E i \in Instances : Visit(i) \/ GetFails(i)
  \/ EndOfScan
  \/ AdvanceTime

\* Heartbeat runs for the lifetime of the process, its calls are answered or
\* fail, and the clock runs however often a process crashes and restarts.
Fairness ==
  /\ SF_vars(AdvanceTime)
  /\ \A i \in Instances : WF_vars(GoesOn(i)) /\ WF_vars(Set(i))

Spec == Init /\ [][Next]_vars /\ Fairness

-----------------------------------------------------------------------------
(* Properties. *)

\* Every variable has its type.
TypeOK ==
  /\ up \subseteq Instances
  /\ reachable \subseteq Instances
  /\ entry \in [Instances -> 0..TTL]
  /\ nextTick \in [Instances -> {NoTicker} \cup 1..Interval]
  /\ due \in [Instances -> BOOLEAN]
  /\ call \in [Instances -> {Idle} \cup 0..MaxCall]
  /\ stored \subseteq up
  /\ late \in [Instances -> SUBSET (0..MaxLate)]
  /\ missed \in [Instances -> 0..MaxMissed]
  /\ downFor \in [Instances -> 0..LongGone]
  /\ unvisited \subseteq Instances
  /\ found \subseteq Instances
  /\ scanning \in BOOLEAN

\* The longest a failed heartbeat can put off the next one.
Period == Greater(Interval, MaxCall)

\* A running instance stays registered through as many failed heartbeats as
\* its TTL leaves room for: from the SET of one success to that of the next,
\* the first answer (which the ticker waits for), the interval, the failures
\* and the last call may pass.
RunningStaysListed == \A i \in up :
  missed[i] < MaxMissed
    /\ MaxCall + Interval + missed[i] * Period + MaxCall < TTL
    => i \in Registered

\* ListLive finds no instance that has been down for longer than its last
\* entry can last, which a SET on its way at the end may have renewed.
\* Nobody takes an entry away.
CrashedAreNotListed ==
  [][\A i \in found' \ found : i \in up \/ downFor[i] < LongGone]_vars

\* Once an instance reaches Redis it is back in the registry, however many
\* heartbeats failed before and without a restart.
ReturnsToListing == \A i \in Instances :
  i \in up \cap reachable ~> (i \in Registered \/ i \notin up \cap reachable)

=============================================================================
