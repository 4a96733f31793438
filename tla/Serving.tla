------------------------------- MODULE Serving -------------------------------
(***************************************************************************)
(* A request's way through the load balancer, and the life of the program  *)
(* around it: ServeHTTP, forwardRequest, SelectServer, selectServerRR and  *)
(* recordPick of pkg/loadbalancer/balancer.go, and main's shutdown in      *)
(* cmd/server/main.go.                                                     *)
(*                                                                         *)
(* net/http runs the handler of each connection in a goroutine of its own. *)
(* A request may start one goroutine more, onQueryArrival, which runs at   *)
(* any time, also when the request is over.  Which probes it triggers is   *)
(* the matter of Probing, and which server Prequal picks that of ProbePool:*)
(* here a pick is its number in the order of picks.  Servers are numbered  *)
(* as in lb.servers; main has registered them, at least one, before it     *)
(* serves.                                                                 *)
(***************************************************************************)
EXTENDS Integers, FiniteSets

CONSTANTS
  Clients,         \* slots for connections
  NumServers,      \* len(lb.servers)
  Algorithms,      \* config.Algorithm, a subset of {"prequal", "roundrobin"}
  PerQuery,        \* whether config.ProbeMode is not "ticker"
  ForwardTimeout,  \* config.ForwardTimeout, 0 when there is none
  EnablePickLog,   \* config.EnablePickLog
  PicksCap,        \* recentPicksCap
  IndexWrap,       \* rrIndex counts modulo this: 2^32 in the code
  MaxRequests      \* bound on the requests that arrive

ASSUME ServingAssumption ==
  /\ IsFiniteSet(Clients)
  /\ NumServers \in Nat \ {0}
  /\ Algorithms \subseteq {"prequal", "roundrobin"}
  /\ PerQuery \in BOOLEAN
  /\ ForwardTimeout \in Nat
  /\ EnablePickLog \in BOOLEAN
  /\ PicksCap \in Nat \ {0}
  /\ IndexWrap \in Nat \ {0}
  /\ MaxRequests \in Nat

VARIABLES
  phase,           \* "serving", then "draining" in Shutdown, which ends "drained" or "late"
  stopCh,          \* whether stopCh is closed
  over,            \* whether the process has ended
  due,             \* goroutines of onQueryArrival that have still to run
  pc,              \* where each connection is
  expired,         \* the connections whose request is past its deadline
  stalled,         \* the connections whose client has stopped reading
  total, successful, failed,  \* stats
  aborted,         \* history: the requests whose handler panicked
  activeForwards,
  activeRequests,  \* metrics.activeRequests
  algorithm,       \* config.Algorithm
  rrIndex,
  turns,           \* history: how often round robin picked each server
  wraps,           \* history: how often rrIndex wrapped
  picks,           \* history: the picks of Prequal
  pick,            \* of each connection, the number of its pick until it is logged
  slots, next, fill  \* recentPicks, recentPicksIdx, recentPicksLen

programVars == <<phase, stopCh, over, due>>
requestVars == <<pc, expired, stalled>>
statVars == <<total, successful, failed, aborted>>
gaugeVars == <<activeForwards, activeRequests>>
roundRobinVars == <<rrIndex, turns, wraps>>
pickVars == <<picks, pick, slots, next, fill>>
vars == <<programVars, requestVars, statVars, gaugeVars, algorithm, roundRobinVars, pickVars>>

Servers == 0 .. NumServers - 1
Numbers == 1 .. MaxRequests
NoPick == 0

Picks == INSTANCE Ring WITH Items <- Numbers, Size <- PicksCap, Blank <- NoPick

(* Where a connection is while its request has the handler.                *)
Forwarding == {"forward", "copy"}
Ended == {"answered", "refused", "panicked"}
Handled == {"select", "record"} \cup Forwarding \cup Ended
At(places) == {c \in Clients : pc[c] \in places}

TypeOK ==
  /\ phase \in {"serving", "draining", "drained", "late"}
  /\ stopCh \in BOOLEAN /\ over \in BOOLEAN
  /\ due \in Nat
  /\ pc \in [Clients -> {"none", "connected"} \cup Handled]
  /\ expired \subseteq Clients /\ stalled \subseteq Clients
  /\ {total, successful, failed, aborted, activeForwards, activeRequests} \subseteq Nat
  /\ algorithm \in Algorithms
  /\ rrIndex \in 0 .. IndexWrap - 1
  /\ turns \in [Servers -> Nat]
  /\ wraps \in Nat
  /\ picks \in Nat
  /\ pick \in [Clients -> Nat]
  /\ slots \in [0 .. PicksCap - 1 -> Nat]
  /\ next \in 0 .. PicksCap - 1
  /\ fill \in 0 .. PicksCap

Init ==
  /\ phase = "serving" /\ stopCh = FALSE /\ over = FALSE /\ due = 0
  /\ pc = [c \in Clients |-> "none"]
  /\ expired = {} /\ stalled = {}
  /\ total = 0 /\ successful = 0 /\ failed = 0 /\ aborted = 0
  /\ activeForwards = 0 /\ activeRequests = 0
  /\ algorithm \in Algorithms
  /\ rrIndex = 0 /\ wraps = 0
  /\ turns = [s \in Servers |-> 0]
  /\ picks = 0
  /\ pick = [c \in Clients |-> NoPick]
  /\ Picks!RingInit

Goto(c, place) == pc' = [pc EXCEPT ![c] = place]

-----------------------------------------------------------------------------
(* Connections.                                                            *)

Connect(c) ==
  /\ phase = "serving"
  /\ pc[c] = "none"
  /\ Goto(c, "connected")
  /\ UNCHANGED <<programVars, expired, stalled, statVars, gaugeVars, algorithm,
                 roundRobinVars, pickVars>>

(* The client closes an idle connection, or Shutdown does.                 *)
Disconnect(c) ==
  /\ pc[c] = "connected"
  /\ Goto(c, "none")
  /\ UNCHANGED <<programVars, expired, stalled, statVars, gaugeVars, algorithm,
                 roundRobinVars, pickVars>>

-----------------------------------------------------------------------------
(* ServeHTTP.                                                              *)

(* A request may still arrive on a connection that was accepted before     *)
(* Shutdown closed the listener.  It is counted before its goroutine can   *)
(* read the count.                                                         *)
Arrive(c) ==
  /\ pc[c] = "connected"
  /\ total < MaxRequests
  /\ total' = total + 1
  /\ activeForwards' = activeForwards + 1
  /\ due' = IF algorithm = "prequal" /\ PerQuery THEN due + 1 ELSE due
  /\ Goto(c, "select")
  /\ UNCHANGED <<phase, stopCh, over, expired, stalled, successful, failed, aborted,
                 activeRequests, algorithm, roundRobinVars, pickVars>>

(* The next value of a uint32, and the mutant that never wraps.            *)
UnwrappedAfter(index) == index + 1
IndexAfter(index) == (index + 1) % IndexWrap

(* Whose turn it is at an index, and the mutant that leaves out the last.  *)
TurnOfFewer(index) == IF NumServers = 1 THEN 0 ELSE index % (NumServers - 1)
TurnOf(index) == index % NumServers

(* forwardRequest begins.                                                  *)
BeginForward(c) ==
  /\ Goto(c, "forward")
  /\ activeRequests' = activeRequests + 1

(* selectServerRR takes the index before its atomic increment.             *)
PickRoundRobin(c) ==
  /\ algorithm = "roundrobin"
  /\ pc[c] = "select"
  /\ rrIndex' = IndexAfter(rrIndex)
  /\ wraps' = IF rrIndex' = 0 THEN wraps + 1 ELSE wraps
  /\ turns' = [turns EXCEPT ![TurnOf(rrIndex)] = @ + 1]
  /\ BeginForward(c)
  /\ UNCHANGED <<programVars, expired, stalled, statVars, activeForwards, algorithm, pickVars>>

(* selectServerPrequal has picked; if the log is on it still has to record *)
(* its pick.                                                               *)
PickPrequal(c) ==
  /\ algorithm = "prequal"
  /\ pc[c] = "select"
  /\ picks' = picks + 1
  /\ IF EnablePickLog
       THEN /\ pick' = [pick EXCEPT ![c] = picks']
            /\ Goto(c, "record")
            /\ UNCHANGED activeRequests
       ELSE BeginForward(c) /\ UNCHANGED pick
  /\ UNCHANGED <<programVars, expired, stalled, statVars, activeForwards, algorithm,
                 roundRobinVars, slots, next, fill>>

RecordPick(c) ==
  /\ pc[c] = "record"
  /\ Picks!Push(pick[c])
  /\ pick' = [pick EXCEPT ![c] = NoPick]
  /\ BeginForward(c)
  /\ UNCHANGED <<programVars, expired, stalled, statVars, activeForwards, algorithm,
                 roundRobinVars, picks>>

-----------------------------------------------------------------------------
(* forwardRequest: the reverse proxy waits for the server's answer and     *)
(* then copies it to the client.                                           *)

(* Whether the request has a deadline, and the mutant that forgets to give *)
(* it the context.                                                         *)
WithoutContext == FALSE
HasDeadline == ForwardTimeout > 0

Expire(c) ==
  /\ HasDeadline
  /\ pc[c] \in Forwarding
  /\ c \notin expired
  /\ expired' = expired \cup {c}
  /\ UNCHANGED <<programVars, pc, stalled, statVars, gaugeVars, algorithm, roundRobinVars,
                 pickVars>>

Answer(c) ==
  /\ pc[c] = "forward"
  /\ Goto(c, "copy")
  /\ UNCHANGED <<programVars, expired, stalled, statVars, gaugeVars, algorithm,
                 roundRobinVars, pickVars>>

(* A client that stops reading blocks the copy, whatever the deadline: the *)
(* http.Server has no WriteTimeout.                                        *)
Stall(c) ==
  /\ pc[c] = "copy"
  /\ c \notin stalled
  /\ stalled' = stalled \cup {c}
  /\ UNCHANGED <<programVars, pc, expired, statVars, gaugeVars, algorithm, roundRobinVars,
                 pickVars>>

(* The deferred calls of forwardRequest, which also cancel the deadline.   *)
EndForward(c, outcome) ==
  /\ Goto(c, outcome)
  /\ activeRequests' = activeRequests - 1
  /\ expired' = expired \ {c}
  /\ stalled' = stalled \ {c}
  /\ UNCHANGED <<programVars, total, successful, aborted, activeForwards, algorithm,
                 roundRobinVars, pickVars>>

(* ErrorHandler: the server cannot be reached, the client is gone or the   *)
(* deadline has passed.                                                    *)
Refuse(c) ==
  /\ pc[c] = "forward"
  /\ EndForward(c, "refused")
  /\ failed' = failed + 1

(* The copy is complete, or fails: ReverseProxy then panics.               *)
EndCopy(c) ==
  /\ pc[c] = "copy"
  /\ EndForward(c, "answered") \/ EndForward(c, "panicked")
  /\ UNCHANGED failed

(* What counts as a success, and the mutant whose ErrorHandler leaves ok   *)
(* alone.                                                                  *)
Returned(c) == pc[c] # "panicked"
IsOk(c) == pc[c] = "answered"

(* The deferred decrement; in the mutant it is not deferred, and a panic   *)
(* skips it.                                                               *)
FewerUnlessPanicked(n, c) == IF pc[c] = "panicked" THEN n ELSE n - 1
Fewer(n, c) == n - 1

(* ServeHTTP is over.  The connection is kept unless Shutdown has begun or *)
(* the handler panicked.                                                   *)
Return(c) ==
  /\ pc[c] \in Ended
  /\ successful' = IF IsOk(c) THEN successful + 1 ELSE successful
  /\ aborted' = IF pc[c] = "panicked" THEN aborted + 1 ELSE aborted
  /\ activeForwards' = Fewer(activeForwards, c)
  /\ Goto(c, IF phase # "serving" \/ pc[c] = "panicked" THEN "none" ELSE "connected")
  /\ UNCHANGED <<programVars, expired, stalled, total, failed, activeRequests, algorithm,
                 roundRobinVars, pickVars>>

-----------------------------------------------------------------------------
(* The program.                                                            *)

RequestsUnchanged ==
  UNCHANGED <<requestVars, statVars, gaugeVars, algorithm, roundRobinVars, pickVars>>

(* onQueryArrival triggers its probes.  Nothing waits for it: not its      *)
(* request, not Shutdown, not Stop.                                        *)
OnQueryArrival ==
  /\ due > 0
  /\ due' = due - 1
  /\ UNCHANGED <<phase, stopCh, over>> /\ RequestsUnchanged

(* A signal arrives and Shutdown closes the listener.                      *)
Signal ==
  /\ phase = "serving"
  /\ phase' = "draining"
  /\ UNCHANGED <<stopCh, over, due>> /\ RequestsUnchanged

Drained == At({"none"}) = Clients

(* Shutdown returns, or its context of ten seconds expires.                *)
EndShutdown ==
  /\ phase = "draining"
  /\ \/ Drained /\ phase' = "drained"
     \/ phase' = "late"
  /\ UNCHANGED <<stopCh, over, due>> /\ RequestsUnchanged

Stop ==
  /\ phase \in {"drained", "late"}
  /\ ~stopCh
  /\ stopCh' = TRUE
  /\ UNCHANGED <<phase, over, due>> /\ RequestsUnchanged

(* ListenAndServe returns as soon as Shutdown has closed the listener, and *)
(* main with it, which ends the process whatever is still running.         *)
Exit ==
  /\ phase # "serving"
  /\ over' = TRUE
  /\ UNCHANGED <<phase, stopCh, due>> /\ RequestsUnchanged

-----------------------------------------------------------------------------
Request(c) ==
  \/ Connect(c) \/ Disconnect(c) \/ Arrive(c)
  \/ PickRoundRobin(c) \/ PickPrequal(c) \/ RecordPick(c)
  \/ Expire(c) \/ Answer(c) \/ Stall(c) \/ Refuse(c) \/ EndCopy(c) \/ Return(c)

Program == OnQueryArrival \/ Signal \/ EndShutdown \/ Stop \/ Exit

Next == ~over /\ (Program \/ \E c \in Clients : Request(c))

Spec == Init /\ [][Next]_vars

(* The steps that must come once a request has the handler: the scheduler  *)
(* runs its goroutine, no one holds picksMutex for longer than a step, and *)
(* past the deadline the transport gives up on the server.                 *)
FairSpec ==
  /\ Spec
  /\ WF_vars(~over /\ OnQueryArrival)
  /\ \A c \in Clients :
       /\ WF_vars(~over /\ (PickRoundRobin(c) \/ PickPrequal(c) \/ RecordPick(c) \/ Return(c)))
       /\ WF_vars(~over /\ Expire(c))
       /\ WF_vars(~over /\ c \in expired /\ Refuse(c))
       /\ WF_vars(~over /\ c \in expired \ stalled /\ EndCopy(c))

-----------------------------------------------------------------------------
(* Properties *)

(* Every request that has arrived is being handled or has exactly one      *)
(* outcome: stats counts it as successful or failed, or its handler        *)
(* panicked, the one outcome that stats does not know.                     *)
RequestsAccounted ==
  total = successful + failed + aborted + Cardinality(At(Handled \ {"refused"}))

(* activeForwards, the load that adaptive probing reads, and the gauge of  *)
(* active requests come down again on every way out of the handler.        *)
ForwardsBalance ==
  /\ activeForwards = Cardinality(At(Handled))
  /\ activeRequests = Cardinality(At(Forwarding))

(* Round robin gives every server its share: any two differ by one turn,   *)
(* and where the number of servers does not divide the range of the index, *)
(* by one more for each time the index has wrapped.                        *)
RoundRobinEven ==
  \A s, t \in Servers :
    turns[s] - turns[t] <= 1 + (IF IndexWrap % NumServers = 0 THEN 0 ELSE wraps)

(* Requests record their picks in the order in which they get the mutex,   *)
(* and a slow one pushes out a pick newer than its own.  Even so, of the   *)
(* last PicksCap picks the log shows all but at most one per other         *)
(* request, or they are about to be recorded.                              *)
RecentPicksLogged ==
  EnablePickLog =>
    \A n \in 1 .. picks :
      picks - n < PicksCap - (Cardinality(Clients) - 1) =>
        \/ \E k \in 1 .. fill : Picks!Newest[k] = n
        \/ \E c \in Clients : pick[c] = n

(* With a ForwardTimeout, a request leaves the handler, however its server *)
(* behaves, unless its client stops reading or the process ends.           *)
RequestsEnd ==
  \A c \in Clients : pc[c] \in Handled ~> pc[c] \notin Handled \/ c \in stalled \/ over

=============================================================================
