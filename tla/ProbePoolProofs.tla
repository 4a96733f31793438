--------------------------- MODULE ProbePoolProofs ---------------------------
(***************************************************************************)
(* Proofs about ProbePool, for any number of probes and of concurrent      *)
(* requests, any capacity, expiry time, removal rate and quantile.         *)
(*                                                                         *)
(* The argument rests on four groups of facts.  Sections: only the worker  *)
(* that holds poolWriteMutex has a copy of the slice, and the copy holds   *)
(* nothing the slice does not.  Snapshots: what a request holds of an      *)
(* earlier slice are entries that were appended, whose results no longer   *)
(* change and whose RIF only grows.  Budgets: the budget of an entry is at *)
(* or below zero exactly when some worker has taken it there, and each of  *)
(* those workers counts once.  Removers: a worker that took a budget to    *)
(* zero or below is about to remove the entry, or the entry is gone from   *)
(* the slice and from what that worker has loaded since.                   *)
(***************************************************************************)
EXTENDS ProbePool, FiniteSetTheorems, WellFoundedInduction, TLAPS

USE DEF Exceeds, MayLock, Remainder, Unlock, IsHot, IsCold, Coolest, Spent

Appended == {e \in Probes : stage[e] \in {"pooled", "done"}}

Sections ==
  /\ pool \subseteq Appended
  /\ work \subseteq pool
  /\ mutex = None => work = {}
  /\ \A w \in Workers : pc[w] \in {"remove", "victim"} <=> mutex = w

Ranks ==
  /\ \A e \in Appended : ord[e] <= appends
  /\ \A e, f \in Appended : ord[e] = ord[f] => e = f

(* What a request holds of the slice it loaded.                            *)
Snapshot(w) ==
  /\ snap[w] \subseteq Appended
  /\ todo[w] \subseteq Appended
  /\ unread[w] \subseteq snap[w]
  /\ pc[w] \notin {"scan", "bump", "drop"} => snap[w] = {}
  /\ pc[w] \in {"bump", "drop"} <=> winner[w] # None
  /\ winner[w] # None => winner[w] \in snap[w] /\ unread[w] = {}
  /\ \A e \in snap[w] \ unread[w] : seen[w][e] <= rif[e]

(* What the scan established when it settled on the winner.                *)
Choice(w) ==
  winner[w] # None =>
    IF seen[w][winner[w]] > theta[w]
      THEN \A e \in snap[w] : /\ seen[w][e] > theta[w]
                              /\ seen[w][e] >= seen[w][winner[w]]
      ELSE \A e \in snap[w] : seen[w][e] <= theta[w] => Lat(winner[w]) <= Lat(e)

Scans == \A w \in Workers : Snapshot(w) /\ Choice(w)

Budget ==
  \A e \in Probes :
    /\ e \notin Appended => over[e] = {}
    /\ stage[e] # "inflight" =>
         IF uses[e] > 0 THEN over[e] = {} ELSE uses[e] = 1 - Cardinality(over[e])

Removers ==
  \A e \in Probes : \A w \in over[e] :
    \/ pc[w] = "drop" /\ winner[w] = e
    \/ e \notin pool /\ e \notin snap[w]

IInv == TypeOK /\ Sections /\ Ranks /\ Scans /\ Budget /\ Removers

-----------------------------------------------------------------------------
(* Type correctness *)

LEMMA InitType == Init => TypeOK
<1>1. (CHOOSE r \in Results : TRUE) \in Results
  BY ProbePoolAssumption DEF ProbePoolAssumption
<1>2. 0 \in 0 .. RemoveDen - 1
  BY ProbePoolAssumption DEF ProbePoolAssumption
<1> SUFFICES ASSUME Init PROVE TypeOK
  OBVIOUS
<1>3. report \in [Probes -> Results]
  BY <1>1 DEF Init
<1>4. seen \in [Workers -> [Probes -> Nat]] /\ pc \in [Workers -> Locations]
  BY DEF Init, Locations
<1>5. theta \in [Workers -> Thetas \cup {-1}] /\ winner \in [Workers -> Probes \cup {None}]
  BY DEF Init
<1>6. /\ snap \in [Workers -> SUBSET Probes] /\ unread \in [Workers -> SUBSET Probes]
      /\ todo \in [Workers -> SUBSET Probes] /\ over \in [Probes -> SUBSET Workers]
  BY DEF Init
<1>7. /\ now \in Nat /\ appends \in Nat /\ left \in Nat /\ thr \in Nat /\ gauge \in Nat
      /\ unloaded \subseteq Probes /\ loaded \in [Probes -> Nat]
      /\ debt \in 0 .. RemoveDen - 1
  BY <1>2 DEF Init
<1>8. /\ at \in [Probes -> Nat] /\ rif \in [Probes -> Nat] /\ ord \in [Probes -> Nat]
      /\ uses \in [Probes -> Int] /\ size \in [Probes -> Nat]
      /\ stage \in [Probes -> {"inflight", "received", "pooled", "done"}]
  BY DEF Init
<1>9. /\ pool \subseteq Probes /\ work \subseteq Probes /\ altOldest \in BOOLEAN
      /\ mutex \in Workers \cup {None}
  BY DEF Init
<1> QED BY <1>3, <1>4, <1>5, <1>6, <1>7, <1>8, <1>9 DEF TypeOK

(* debt stays a fraction of one entry and the whole entries are removed.   *)
LEMMA DebtSplits ==
  ASSUME NEW d \in 0 .. RemoveDen - 1
  PROVE  /\ (d + RemoveNum) % RemoveDen \in 0 .. RemoveDen - 1
         /\ (d + RemoveNum) \div RemoveDen \in 0 .. MaxOwed
<1>1. RemoveNum \in Nat /\ RemoveDen \in Nat /\ RemoveDen > 0
  BY ProbePoolAssumption DEF ProbePoolAssumption
<1>2. (d + RemoveNum) % RemoveDen \in 0 .. RemoveDen - 1
  BY <1>1
<1>3. (d + RemoveNum) \div RemoveDen \in Nat
  BY <1>1
<1>4. (d + RemoveNum) \div RemoveDen <= MaxOwed
  BY <1>1 DEF MaxOwed
<1> QED BY <1>2, <1>3, <1>4, <1>1 DEF MaxOwed

LEMMA FiniteSize ==
  ASSUME NEW S \in SUBSET Probes
  PROVE  IsFiniteSet(S) /\ Cardinality(S) \in Nat
BY ProbePoolAssumption, FS_Subset, FS_CardinalityType DEF ProbePoolAssumption

LEMMA HandlerType ==
  ASSUME TypeOK, NEW p \in Probes, Handler(p)
  PROVE  TypeOK'
<1> USE ProbePoolAssumption DEF ProbePoolAssumption
<1>1. CASE Receive(p)
  BY <1>1 DEF TypeOK, Receive, sectionVars, scanVars, gaugeVars
<1>2. CASE Append(p)
  <2>1. pool' \in SUBSET Probes
    BY <1>2 DEF TypeOK, Append, AppendPool, Kept, Earliest
  <2>2. Cardinality(pool') \in Nat
    BY <2>1, FiniteSize
  <2> QED BY <1>2, <2>1, <2>2 DEF TypeOK, Append, sectionVars, scanVars
<1>3. CASE PublishSize(p)
  BY <1>3 DEF TypeOK, PublishSize, sectionVars, scanVars
<1> QED BY <1>1, <1>2, <1>3 DEF Handler

LEMMA RemovalType ==
  ASSUME TypeOK, NEW w \in Workers,
         \/ BeginRequest(w) \/ StartRemove(w) \/ RemoveOldest(w)
         \/ LoadRIF(w) \/ ReadThreshold(w) \/ RemoveWorst(w)
  PROVE  TypeOK'
<1> USE ProbePoolAssumption DEF ProbePoolAssumption
<1>1. CASE StartRemove(w)
  <2>1. debt' \in 0 .. RemoveDen - 1 /\ left' \in Nat
    BY <1>1, DebtSplits DEF TypeOK, StartRemove, MaxOwed
  <2>2. unloaded' \subseteq Probes
    BY <1>1 DEF TypeOK, StartRemove
  <2> QED BY <1>1, <2>1, <2>2 DEF TypeOK, StartRemove, entryVars, scanVars, gaugeVars, Locations
<1>2. CASE BeginRequest(w)
  BY <1>2 DEF TypeOK, BeginRequest, entryVars, sectionVars, scanVars, gaugeVars, Locations
<1>3. ASSUME NEW V, EndIteration(w, V),
             UNCHANGED <<now, entryVars, debt, scanVars, over, gaugeVars>>
      PROVE  TypeOK'
  <2>1. /\ work' \subseteq Probes /\ left' \in Nat /\ thr' \in Nat
        /\ unloaded' \subseteq Probes /\ loaded' \in [Probes -> Nat]
    BY <1>3 DEF TypeOK, EndIteration
  <2>2. /\ pool' \subseteq Probes /\ mutex' \in Workers \cup {None} /\ altOldest' \in BOOLEAN
        /\ pc' \in [Workers -> Locations]
    BY <1>3 DEF TypeOK, EndIteration, Locations
  <2> QED BY <1>3, <2>1, <2>2 DEF TypeOK, entryVars, scanVars, gaugeVars
<1>4. CASE ReadThreshold(w)
  <2>1. thr' \in Nat
    BY <1>4 DEF TypeOK, ReadThreshold, QuantileIn
  <2> QED BY <1>4, <2>1 DEF TypeOK, ReadThreshold, entryVars, scanVars, gaugeVars, Locations
<1>5. CASE LoadRIF(w)
  <2>1. PICK e \in Earliest(unloaded) :
          loaded' = [loaded EXCEPT ![e] = rif[e]] /\ unloaded' = unloaded \ {e}
    BY <1>5 DEF LoadRIF
  <2>2. e \in Probes
    BY DEF TypeOK, Earliest
  <2> QED BY <1>5, <2>1, <2>2 DEF TypeOK, LoadRIF, entryVars, scanVars, gaugeVars
<1> QED BY <1>1, <1>2, <1>3, <1>4, <1>5 DEF RemoveOldest, RemoveWorst

LEMMA ScanType ==
  ASSUME TypeOK, NEW w \in Workers, Load(w) \/ PickRandom(w) \/ ReadRIF(w) \/ Select(w)
  PROVE  TypeOK'
<1>1. CASE Load(w)
  BY <1>1 DEF TypeOK, Load, Fresh, entryVars, sectionVars, gaugeVars, Locations
<1>2. CASE PickRandom(w)
  BY <1>2 DEF TypeOK, PickRandom, entryVars, sectionVars, scanVars, gaugeVars, Locations
<1>3. CASE ReadRIF(w)
  <2>1. PICK e \in Earliest(unread[w]) :
          /\ seen' = [seen EXCEPT ![w][e] = rif[e]]
          /\ unread' = [unread EXCEPT ![w] = @ \ {e}]
    BY <1>3 DEF ReadRIF
  <2>2. e \in Probes
    BY DEF TypeOK, Earliest
  <2> QED BY <1>3, <2>1, <2>2 DEF TypeOK, ReadRIF, entryVars, sectionVars, gaugeVars
<1>4. CASE Select(w)
  <2>1. PICK e \in HCL(snap[w], seen[w], theta[w]) :
          /\ winner' = [winner EXCEPT ![w] = e]
          /\ todo' = [todo EXCEPT ![w] = {f \in pool : Srv(f) = Srv(e)}]
    BY <1>4 DEF Select
  <2>2. e \in Probes
    BY DEF TypeOK, HCL, Earliest
  <2> QED BY <1>4, <2>1, <2>2 DEF TypeOK, Select, entryVars, sectionVars, gaugeVars, Locations
<1> QED BY <1>1, <1>2, <1>3, <1>4

LEMMA ConsumeType ==
  ASSUME TypeOK, NEW w \in Workers, BumpRIF(w) \/ ConsumeUse(w) \/ DropEntry(w)
  PROVE  TypeOK'
<1>1. CASE BumpRIF(w)
  <2>1. PICK e \in Earliest(todo[w]) :
          /\ rif' = [rif EXCEPT ![e] = @ + 1]
          /\ todo' = [todo EXCEPT ![w] = @ \ {e}]
    BY <1>1 DEF BumpRIF
  <2>2. e \in Probes
    BY DEF TypeOK, Earliest
  <2>3. rif' \in [Probes -> Nat] /\ todo' \in [Workers -> SUBSET Probes]
    BY <2>1, <2>2 DEF TypeOK
  <2> QED BY <1>1, <2>3 DEF TypeOK, BumpRIF, sectionVars, gaugeVars
<1>2. CASE ConsumeUse(w)
  <2>0. /\ uses \in [Probes -> Int] /\ over \in [Probes -> SUBSET Workers]
        /\ winner[w] \in Probes \cup {None}
    BY DEF TypeOK
  <2>1. uses' \in [Probes -> Int]
    <3>1. uses' = [uses EXCEPT ![winner[w]] = @ - 1]
      BY <1>2 DEF ConsumeUse
    <3>2. CASE winner[w] \in Probes
      BY <2>0, <3>1, <3>2
    <3>3. CASE winner[w] \notin Probes
      BY <2>0, <3>1, <3>3
    <3> QED BY <3>2, <3>3
  <2>2. over' \in [Probes -> SUBSET Workers]
    <3>1. over' = over \/ over' = [over EXCEPT ![winner[w]] = @ \cup {w}]
      <4>1. CASE uses'[winner[w]] > 0
        BY <1>2, <4>1 DEF ConsumeUse
      <4>2. CASE ~ (uses'[winner[w]] > 0)
        BY <1>2, <4>2 DEF ConsumeUse
      <4> QED BY <4>1, <4>2
    <3> QED BY <2>0, <3>1
  <2>3. UNCHANGED <<now, stage, report, at, rif, ord, appends, pool, sectionVars, gaugeVars>>
    BY <1>2 DEF ConsumeUse
  <2>4. /\ pc' \in [Workers -> Locations]
        /\ theta' \in [Workers -> Thetas \cup {-1}]
        /\ snap' \in [Workers -> SUBSET Probes]
        /\ unread' \in [Workers -> SUBSET Probes]
        /\ seen' \in [Workers -> [Probes -> Nat]]
        /\ winner' \in [Workers -> Probes \cup {None}]
        /\ todo' \in [Workers -> SUBSET Probes]
    <3>1. CASE Leave(w)
      BY <3>1 DEF TypeOK, Leave, Locations
    <3>2. CASE pc' = [pc EXCEPT ![w] = "drop"] /\ UNCHANGED scanVars
      BY <3>2 DEF TypeOK, scanVars, Locations
    <3> QED BY <1>2, <3>1, <3>2 DEF ConsumeUse
  <2> QED BY <2>1, <2>2, <2>3, <2>4 DEF TypeOK, sectionVars, gaugeVars
<1>3. CASE DropEntry(w)
  BY <1>3 DEF TypeOK, DropEntry, Leave, entryVars, sectionVars, gaugeVars, Locations
<1> QED BY <1>1, <1>2, <1>3

LEMMA NextType == TypeOK /\ [Next]_vars => TypeOK'
<1> SUFFICES ASSUME TypeOK, [Next]_vars PROVE TypeOK'
  OBVIOUS
<1>1. CASE Tick
  BY <1>1 DEF TypeOK, Tick, entryVars, sectionVars, scanVars, gaugeVars
<1>2. CASE \E p \in Probes : Handler(p)
  BY <1>2, HandlerType
<1>3. CASE \E w \in Workers : Request(w)
  BY <1>3, RemovalType, ScanType, ConsumeType DEF Request
<1>4. CASE UNCHANGED vars
  BY <1>4 DEF TypeOK, vars, entryVars, sectionVars, scanVars, gaugeVars
<1> QED BY <1>1, <1>2, <1>3, <1>4 DEF Next

(* The state of the pool keeps its types: the debt stays below one entry,  *)
(* budgets and RIFs stay integers, and what a request holds are entries.   *)
THEOREM TypeCorrect == Spec => []TypeOK
BY InitType, NextType, PTL DEF Spec

-----------------------------------------------------------------------------
(* What every step leaves as it is *)

(* A result that is in the slice, or has been, no longer changes; its RIF  *)
(* only grows.                                                             *)
LEMMA ResultsFixed ==
  ASSUME TypeOK, [Next]_vars
  PROVE  \A e \in Appended : /\ e \in Appended'
                             /\ report'[e] = report[e] /\ ord'[e] = ord[e]
                             /\ rif'[e] >= rif[e]
<1> USE DEF Appended
<1>1. ASSUME UNCHANGED <<stage, report, ord, rif>>
      PROVE  \A e \in Appended : /\ e \in Appended'
                                 /\ report'[e] = report[e] /\ ord'[e] = ord[e]
                                 /\ rif'[e] >= rif[e]
  BY <1>1 DEF TypeOK
<1>2. ASSUME NEW p \in Probes, Handler(p)
      PROVE  \A e \in Appended : /\ e \in Appended'
                                 /\ report'[e] = report[e] /\ ord'[e] = ord[e]
                                 /\ rif'[e] >= rif[e]
  <2>1. CASE Receive(p)
    BY <2>1 DEF TypeOK, Receive
  <2>2. CASE Append(p)
    BY <2>2 DEF TypeOK, Append
  <2>3. CASE PublishSize(p)
    BY <2>3 DEF TypeOK, PublishSize
  <2> QED BY <1>2, <2>1, <2>2, <2>3 DEF Handler
<1>3. ASSUME NEW w \in Workers, Request(w)
      PROVE  UNCHANGED <<stage, report, ord>> /\ \A e \in Probes : rif'[e] >= rif[e]
  <2>1. CASE BumpRIF(w)
    BY <2>1 DEF TypeOK, BumpRIF, Earliest
  <2>2. CASE ~BumpRIF(w)
    <3>1. UNCHANGED <<stage, report, ord, rif>>
      BY <1>3, <2>2 DEF Request, BeginRequest, StartRemove, RemoveOldest, LoadRIF, ReadThreshold,
         RemoveWorst, Load, PickRandom, ReadRIF, Select, ConsumeUse, DropEntry, entryVars
    <3> QED BY <3>1 DEF TypeOK
  <2> QED BY <2>1, <2>2
<1>4. CASE Tick \/ UNCHANGED vars
  BY <1>1, <1>4 DEF Tick, vars, entryVars
<1> QED BY <1>2, <1>3, <1>4 DEF Next

(* Appending adds the new entry and nothing else.                          *)
LEMMA AppendAdds ==
  ASSUME TypeOK, NEW p \in Probes, Append(p)
  PROVE  /\ pool' \subseteq pool \cup {p}
         /\ stage[p] = "received" /\ mutex = None
         /\ Appended' = Appended \cup {p}
<1>1. pool' \subseteq pool \cup {p}
  BY DEF Append, AppendPool, Kept, Earliest
<1>2. stage[p] = "received" /\ mutex = None /\ \A e \in Probes \ {p} : stage'[e] = stage[e]
  BY DEF Append, TypeOK
<1>3. stage'[p] \in {"pooled", "done"}
  BY DEF Append, TypeOK
<1> QED BY <1>1, <1>2, <1>3 DEF Appended

LEMMA SectionsKept ==
  ASSUME IInv, [Next]_vars
  PROVE  Sections'
<1> USE DEF IInv
<1>1. ASSUME UNCHANGED <<stage, pool, mutex, work>>,
             \A w \in Workers : pc'[w] \in {"remove", "victim"} <=> pc[w] \in {"remove", "victim"}
      PROVE  Sections'
  BY <1>1 DEF Sections, Appended
<1>2. ASSUME NEW p \in Probes, Handler(p)
      PROVE  Sections'
  <2>1. CASE Receive(p)
    BY <2>1 DEF TypeOK, Receive, Sections, Appended, sectionVars
  <2>2. CASE Append(p)
    BY <2>2, AppendAdds DEF Append, Sections, sectionVars
  <2>3. CASE PublishSize(p)
    BY <2>3 DEF TypeOK, PublishSize, Sections, Appended, sectionVars
  <2> QED BY <1>2, <2>1, <2>2, <2>3 DEF Handler
<1>3. ASSUME NEW w \in Workers, Request(w)
      PROVE  Sections'
  <2>1. CASE StartRemove(w)
    BY <2>1, ProbePoolAssumption
       DEF TypeOK, StartRemove, Sections, Appended, entryVars, ProbePoolAssumption
  <2>2. ASSUME NEW V, EndIteration(w, V), UNCHANGED entryVars, pc[w] \in {"remove", "victim"}
        PROVE  Sections'
    <3>1. mutex = w /\ None \notin Workers /\ work \subseteq pool /\ pool \subseteq Appended
      BY <2>2, ProbePoolAssumption DEF Sections, ProbePoolAssumption
    <3>2. Appended' = Appended
      BY <2>2 DEF Appended, entryVars
    <3>3. CASE left > 1 /\ work \ V # {}
      <4>1. UNCHANGED <<pool, mutex>> /\ work' = work \ V /\ pc' = [pc EXCEPT ![w] = "remove"]
        BY <2>2, <3>3 DEF EndIteration
      <4> QED BY <3>1, <3>2, <4>1 DEF TypeOK, Sections
    <3>4. CASE ~ (left > 1 /\ work \ V # {})
      <4>1. /\ pool' = work \ V /\ mutex' = None /\ work' = {}
            /\ pc' = [pc EXCEPT ![w] = "load"]
        BY <2>2, <3>4 DEF EndIteration
      <4> QED BY <3>1, <3>2, <4>1 DEF TypeOK, Sections
    <3> QED BY <3>3, <3>4
  <2>3. CASE RemoveOldest(w) \/ RemoveWorst(w)
    BY <2>2, <2>3 DEF RemoveOldest, RemoveWorst
  <2>4. CASE LoadRIF(w) \/ ReadThreshold(w)
    BY <1>1, <2>4 DEF TypeOK, LoadRIF, ReadThreshold, entryVars
  <2>5. CASE BeginRequest(w) \/ Load(w) \/ PickRandom(w) \/ ReadRIF(w) \/ Select(w)
    BY <1>1, <2>5
       DEF TypeOK, BeginRequest, Load, PickRandom, ReadRIF, Select, entryVars, sectionVars
  <2>6. CASE BumpRIF(w)
    BY <1>1, <2>6 DEF TypeOK, BumpRIF, sectionVars
  <2>7. CASE ConsumeUse(w)
    <3>1. UNCHANGED <<stage, pool, mutex, work>>
      BY <2>7 DEF ConsumeUse, sectionVars
    <3>2. pc[w] = "bump" /\ (pc' = [pc EXCEPT ![w] = "idle"] \/ pc' = [pc EXCEPT ![w] = "drop"])
      BY <2>7 DEF ConsumeUse, Leave
    <3> QED BY <1>1, <3>1, <3>2 DEF TypeOK
  <2>8. CASE DropEntry(w)
    BY <2>8 DEF TypeOK, DropEntry, Leave, Sections, Appended, entryVars, sectionVars
  <2> QED BY <1>3, <2>1, <2>3, <2>4, <2>5, <2>6, <2>7, <2>8 DEF Request
<1>4. CASE Tick \/ UNCHANGED vars
  BY <1>1, <1>4 DEF Tick, vars, entryVars, sectionVars
<1> QED BY <1>2, <1>3, <1>4 DEF Next

(* Of the entries appended before a step, those outside the slice stay     *)
(* outside.                                                                *)
LEMMA NoReturnStep ==
  ASSUME IInv, [Next]_vars
  PROVE  pool' \cap Appended \subseteq pool
<1> USE DEF IInv
<1>1. ASSUME NEW p \in Probes, Handler(p)
      PROVE  pool' \cap Appended \subseteq pool
  <2>1. CASE Append(p)
    BY <2>1, AppendAdds DEF Appended
  <2>2. CASE Receive(p) \/ PublishSize(p)
    BY <2>2 DEF Receive, PublishSize
  <2> QED BY <1>1, <2>1, <2>2 DEF Handler
<1>2. ASSUME NEW w \in Workers, Request(w)
      PROVE  pool' \subseteq pool
  <2>1. CASE RemoveOldest(w) \/ RemoveWorst(w)
    BY <2>1 DEF RemoveOldest, RemoveWorst, EndIteration, Sections
  <2>2. CASE DropEntry(w)
    BY <2>2 DEF DropEntry
  <2>3. CASE ~ (RemoveOldest(w) \/ RemoveWorst(w) \/ DropEntry(w))
    BY <1>2, <2>3 DEF Request, BeginRequest, StartRemove, LoadRIF, ReadThreshold, Load, PickRandom,
       ReadRIF, Select, BumpRIF, ConsumeUse
  <2> QED BY <2>1, <2>2, <2>3
<1>3. CASE Tick \/ UNCHANGED vars
  BY <1>3 DEF Tick, vars
<1> QED BY <1>1, <1>2, <1>3 DEF Next

LEMMA RanksKept ==
  ASSUME IInv, [Next]_vars
  PROVE  Ranks'
<1> USE DEF IInv
<1>1. ASSUME UNCHANGED <<ord, appends, Appended>>
      PROVE  Ranks'
  BY <1>1 DEF Ranks
<1>2. ASSUME NEW p \in Probes, Handler(p)
      PROVE  Ranks'
  <2>1. CASE Receive(p)
    BY <1>1, <2>1 DEF TypeOK, Receive, Appended
  <2>2. CASE Append(p)
    <3>1. appends' = appends + 1 /\ ord' = [ord EXCEPT ![p] = appends + 1]
      BY <2>2 DEF Append
    <3> QED BY <2>2, <3>1, AppendAdds DEF TypeOK, Ranks, Appended
  <2>3. CASE PublishSize(p)
    BY <1>1, <2>3 DEF TypeOK, PublishSize, Appended
  <2> QED BY <1>2, <2>1, <2>2, <2>3 DEF Handler
<1>3. ASSUME NEW w \in Workers, Request(w)
      PROVE  UNCHANGED <<ord, appends, stage>>
  BY <1>3 DEF Request, BeginRequest, StartRemove, RemoveOldest, LoadRIF, ReadThreshold, RemoveWorst,
     Load, PickRandom, ReadRIF, Select, BumpRIF, ConsumeUse, DropEntry, entryVars
<1>4. CASE Tick \/ UNCHANGED vars
  BY <1>1, <1>4 DEF Tick, vars, entryVars, Appended
<1> QED BY <1>1, <1>2, <1>3, <1>4 DEF Next, Appended

-----------------------------------------------------------------------------
(* Requests and what they hold *)

(* A request touches only its own locals.                                  *)
LEMMA OwnLocals ==
  ASSUME TypeOK, NEW w \in Workers, Request(w), NEW v \in Workers \ {w}
  PROVE  UNCHANGED <<pc[v], theta[v], snap[v], unread[v], seen[v], winner[v], todo[v]>>
<1>1. CASE BeginRequest(w) \/ StartRemove(w) \/ LoadRIF(w) \/ ReadThreshold(w) \/ PickRandom(w)
  BY <1>1 DEF TypeOK, BeginRequest, StartRemove, LoadRIF, ReadThreshold, PickRandom, scanVars
<1>2. CASE RemoveOldest(w) \/ RemoveWorst(w)
  BY <1>2 DEF TypeOK, RemoveOldest, RemoveWorst, EndIteration, scanVars
<1>3. CASE Load(w)
  BY <1>3 DEF TypeOK, Load
<1>4. CASE ReadRIF(w)
  BY <1>4 DEF TypeOK, ReadRIF
<1>5. CASE Select(w)
  BY <1>5 DEF TypeOK, Select
<1>6. CASE BumpRIF(w)
  BY <1>6 DEF TypeOK, BumpRIF
<1>7. CASE ConsumeUse(w)
  <2>1. Leave(w) \/ (pc' = [pc EXCEPT ![w] = "drop"] /\ UNCHANGED scanVars)
    BY <1>7 DEF ConsumeUse
  <2>2. CASE Leave(w)
    BY <2>2 DEF TypeOK, Leave
  <2>3. CASE pc' = [pc EXCEPT ![w] = "drop"] /\ UNCHANGED scanVars
    BY <2>3 DEF TypeOK, scanVars
  <2> QED BY <2>1, <2>2, <2>3
<1>8. CASE DropEntry(w)
  BY <1>8 DEF TypeOK, DropEntry, Leave
<1> QED BY <1>1, <1>2, <1>3, <1>4, <1>5, <1>6, <1>7, <1>8 DEF Request

(* What a request holds stays right as the entries change under it.        *)
LEMMA ScanFrame ==
  ASSUME IInv, [Next]_vars, NEW v \in Workers,
         UNCHANGED <<theta[v], snap[v], unread[v], seen[v], winner[v]>>,
         todo'[v] \subseteq todo[v],
         \/ pc'[v] = pc[v]
         \/ {pc[v], pc'[v]} \subseteq {"bump", "drop"}
         \/ {pc[v], pc'[v]} \cap {"scan", "bump", "drop"} = {}
  PROVE  Snapshot(v)' /\ Choice(v)'
<1> DEFINE Held == snap[v]
<1>1. TypeOK /\ TypeOK' /\ Snapshot(v) /\ Choice(v)
  BY NextType DEF IInv, Scans
<1>2. \A e \in Held : /\ e \in Appended' /\ report'[e] = report[e]
                      /\ rif'[e] >= rif[e] /\ rif[e] \in Nat /\ rif'[e] \in Nat
                      /\ seen[v][e] \in Nat
  BY <1>1, ResultsFixed DEF Snapshot, TypeOK
<1>3. todo'[v] \subseteq Appended'
  BY <1>1, ResultsFixed DEF Snapshot
<1>4. Snapshot(v)'
  <2>1. snap'[v] = Held /\ unread'[v] = unread[v] /\ seen'[v] = seen[v] /\ winner'[v] = winner[v]
    OBVIOUS
  <2>2. /\ snap'[v] \subseteq Appended'
        /\ unread'[v] \subseteq snap'[v]
        /\ winner'[v] # None => winner'[v] \in snap'[v] /\ unread'[v] = {}
    BY <1>1, <1>2, <2>1 DEF Snapshot
  <2>3. /\ pc'[v] \notin {"scan", "bump", "drop"} => snap'[v] = {}
        /\ pc'[v] \in {"bump", "drop"} <=> winner'[v] # None
    BY <1>1, <2>1 DEF Snapshot
  <2>4. \A e \in snap'[v] \ unread'[v] : seen'[v][e] <= rif'[e]
    BY <1>1, <1>2, <2>1 DEF Snapshot
  <2> QED BY <1>3, <2>2, <2>3, <2>4 DEF Snapshot
<1>5. Choice(v)'
  BY <1>1, <1>2 DEF Snapshot, Choice, Lat
<1> QED BY <1>4, <1>5

(* A request that leaves holds nothing any more.                           *)
LEMMA LeaveHolds ==
  ASSUME IInv, [Next]_vars, NEW w \in Workers, Leave(w), pc[w] \in {"bump", "drop"}
  PROVE  Snapshot(w)' /\ Choice(w)'
<1>1. TypeOK /\ Snapshot(w)
  BY DEF IInv, Scans
<1>2. snap'[w] = {} /\ winner'[w] = None /\ pc'[w] = "idle"
      /\ todo'[w] = todo[w] /\ unread'[w] = unread[w]
  BY <1>1 DEF TypeOK, Leave
<1>3. todo'[w] \subseteq Appended' /\ unread'[w] = {}
  BY <1>1, <1>2, ResultsFixed DEF Snapshot
<1> QED BY <1>2, <1>3 DEF Snapshot, Choice

LEMMA ThetaInt ==
  ASSUME TypeOK, NEW w \in Workers
  PROVE  theta[w] \in Int
<1>1. theta[w] \in Thetas \cup {-1}
  BY DEF TypeOK
<1>2. Thetas \subseteq Int /\ -1 \in Int
  BY ProbePoolAssumption DEF ProbePoolAssumption
<1> QED BY <1>1, <1>2

(* Settling on the entry that the hot-cold rule names.                     *)
LEMMA SelectHolds ==
  ASSUME IInv, [Next]_vars, NEW w \in Workers, Select(w)
  PROVE  Snapshot(w)' /\ Choice(w)'
<1>1. TypeOK /\ Snapshot(w) /\ pool \subseteq Appended /\ None \notin Probes
  BY ProbePoolAssumption DEF IInv, Scans, Sections, ProbePoolAssumption
<1>2. PICK e \in HCL(snap[w], seen[w], theta[w]) :
        /\ winner' = [winner EXCEPT ![w] = e]
        /\ todo' = [todo EXCEPT ![w] = {f \in pool : Srv(f) = Srv(e)}]
  BY DEF Select
<1>3. /\ e \in snap[w] /\ e \in Probes
      /\ IF \E x \in snap[w] : seen[w][x] <= theta[w]
           THEN /\ seen[w][e] <= theta[w]
                /\ \A x \in snap[w] : seen[w][x] <= theta[w] => Lat(e) <= Lat(x)
           ELSE \A x \in snap[w] : seen[w][e] <= seen[w][x]
  BY <1>1 DEF TypeOK, HCL, Earliest
<1>4. /\ winner'[w] = e /\ todo'[w] \subseteq pool /\ pc'[w] = "bump"
      /\ unread[w] = {}
      /\ UNCHANGED <<theta, snap, unread, seen, entryVars>>
  BY <1>1, <1>2 DEF TypeOK, Select
<1>5. UNCHANGED Appended /\ UNCHANGED rif /\ \A x \in Probes : UNCHANGED Lat(x)
  BY <1>4 DEF Appended, entryVars, Lat
<1>6. Snapshot(w)'
  BY <1>1, <1>3, <1>4, <1>5 DEF Snapshot
<1>7. \A x \in snap[w] : seen[w][x] \in Nat /\ x \in Probes
  BY <1>1 DEF TypeOK
<1>8. theta[w] \in Int
  BY <1>1, ThetaInt
<1>9. Choice(w)'
  BY <1>3, <1>4, <1>5, <1>7, <1>8 DEF Choice
<1> QED BY <1>6, <1>9

LEMMA ScansKept ==
  ASSUME IInv, [Next]_vars
  PROVE  Scans'
<1>1. TypeOK /\ \A w \in Workers : Snapshot(w)
  BY DEF IInv, Scans
<1>2. ASSUME UNCHANGED <<pc, scanVars>>
      PROVE  Scans'
  BY <1>2, ScanFrame DEF scanVars, Scans
<1>3. ASSUME NEW p \in Probes, Handler(p)
      PROVE  Scans'
  BY <1>2, <1>3 DEF Handler, Receive, Append, PublishSize
<1>4. ASSUME NEW w \in Workers, Request(w)
      PROVE  Scans'
  <2>1. ASSUME NEW v \in Workers \ {w} PROVE Snapshot(v)' /\ Choice(v)'
    BY <1>1, <1>4, <2>1, OwnLocals, ScanFrame
  <2>2. Snapshot(w)' /\ Choice(w)'
    <3>1. CASE \/ BeginRequest(w) \/ StartRemove(w) \/ LoadRIF(w) \/ ReadThreshold(w)
               \/ PickRandom(w) \/ RemoveOldest(w) \/ RemoveWorst(w)
      <4>1. UNCHANGED scanVars
        BY <3>1 DEF BeginRequest, StartRemove, LoadRIF, ReadThreshold, PickRandom, RemoveOldest,
           RemoveWorst
      <4>2. {pc[w], pc'[w]} \cap {"scan", "bump", "drop"} = {}
        BY <1>1, <3>1 DEF TypeOK, BeginRequest, StartRemove, LoadRIF, ReadThreshold, PickRandom,
           RemoveOldest, RemoveWorst, EndIteration
      <4> QED BY <4>1, <4>2, ScanFrame DEF scanVars
    <3>2. CASE Load(w)
      <4>1. /\ snap'[w] = Fresh /\ unread'[w] = Fresh /\ pc'[w] = "scan"
            /\ winner'[w] = None /\ todo'[w] = todo[w]
        BY <1>1, <3>2 DEF TypeOK, Load, Snapshot
      <4>2. Fresh \subseteq Appended /\ todo[w] \subseteq Appended
        BY <1>1 DEF IInv, Sections, Fresh, Snapshot
      <4>3. Fresh \subseteq Appended' /\ todo'[w] \subseteq Appended'
        BY <1>1, <4>1, <4>2, ResultsFixed
      <4> QED BY <4>1, <4>3 DEF Snapshot, Choice
    <3>3. CASE ReadRIF(w)
      <4>1. PICK e \in Earliest(unread[w]) :
              /\ seen' = [seen EXCEPT ![w][e] = rif[e]]
              /\ unread' = [unread EXCEPT ![w] = @ \ {e}]
        BY <3>3 DEF ReadRIF
      <4>2. e \in Probes /\ Snapshot(w) /\ pc[w] = "scan" /\ winner[w] = None
        BY <1>1, <3>3 DEF TypeOK, Earliest, ReadRIF, Snapshot
      <4>3. /\ unread'[w] = unread[w] \ {e}
            /\ seen'[w][e] = rif[e] /\ \A x \in Probes \ {e} : seen'[w][x] = seen[w][x]
            /\ UNCHANGED <<Appended, rif, pc, winner, snap, todo>>
        BY <1>1, <3>3, <4>1, <4>2 DEF TypeOK, ReadRIF, entryVars, Appended
      <4>4. snap[w] \subseteq Probes /\ rif[e] \in Nat
        BY <1>1, <4>2 DEF TypeOK
      <4>5. \A x \in snap'[w] \ unread'[w] : seen'[w][x] <= rif'[x]
        BY <4>2, <4>3, <4>4 DEF Snapshot
      <4>6. /\ snap'[w] \subseteq Appended' /\ todo'[w] \subseteq Appended'
            /\ unread'[w] \subseteq snap'[w]
            /\ pc'[w] = "scan" /\ winner'[w] = None
        BY <4>2, <4>3 DEF Snapshot
      <4> QED BY <4>5, <4>6 DEF Snapshot, Choice
    <3>4. CASE Select(w)
      BY <3>4, SelectHolds
    <3>5. CASE BumpRIF(w)
      <4>1. UNCHANGED <<pc, theta, snap, unread, seen, winner>> /\ todo'[w] \subseteq todo[w]
        BY <1>1, <3>5 DEF TypeOK, BumpRIF
      <4> QED BY <4>1, ScanFrame
    <3>6. CASE ConsumeUse(w)
      <4>1. pc[w] = "bump" /\ (Leave(w) \/ (pc' = [pc EXCEPT ![w] = "drop"] /\ UNCHANGED scanVars))
        BY <3>6 DEF ConsumeUse
      <4>2. CASE Leave(w)
        BY <4>1, <4>2, LeaveHolds
      <4>3. CASE pc' = [pc EXCEPT ![w] = "drop"] /\ UNCHANGED scanVars
        <5>1. {pc[w], pc'[w]} \subseteq {"bump", "drop"}
          BY <1>1, <4>1, <4>3 DEF TypeOK
        <5> QED BY <4>3, <5>1, ScanFrame DEF scanVars
      <4> QED BY <4>1, <4>2, <4>3
    <3>7. CASE DropEntry(w)
      BY <3>7, LeaveHolds DEF DropEntry
    <3> QED BY <1>4, <3>1, <3>2, <3>3, <3>4, <3>5, <3>6, <3>7 DEF Request
  <2> QED BY <2>1, <2>2 DEF Scans
<1>5. CASE Tick \/ UNCHANGED vars
  BY <1>2, <1>5 DEF Tick, vars
<1> QED BY <1>3, <1>4, <1>5 DEF Next

-----------------------------------------------------------------------------
(* Budgets *)

(* The winner that a request is about to charge has not been charged by it *)
(* before.                                                                 *)
LEMMA FreshCharge ==
  ASSUME IInv, NEW w \in Workers, ConsumeUse(w)
  PROVE  /\ winner[w] \in Probes /\ winner[w] \in Appended /\ winner[w] \in snap[w]
         /\ w \notin over[winner[w]]
<1>1. TypeOK /\ Snapshot(w) /\ None \notin Probes /\ pc[w] = "bump"
  BY ProbePoolAssumption DEF IInv, Scans, ConsumeUse, ProbePoolAssumption
<1>2. winner[w] \in snap[w] /\ winner[w] \in Appended
  BY <1>1 DEF Snapshot
<1>3. winner[w] \in Probes
  BY <1>2 DEF Appended
<1>4. w \notin over[winner[w]]
  BY <1>1, <1>2, <1>3 DEF IInv, Removers
<1> QED BY <1>2, <1>3, <1>4

(* What charging an entry does to its budget and its overdrawers.          *)
LEMMA ChargeEffect ==
  ASSUME IInv, NEW w \in Workers, ConsumeUse(w), NEW e \in Probes
  PROVE  /\ e # winner[w] => uses'[e] = uses[e] /\ over'[e] = over[e]
         /\ e = winner[w] => uses'[e] = uses[e] - 1
         /\ e = winner[w] /\ uses'[e] > 0 => over'[e] = over[e] /\ Leave(w)
         /\ e = winner[w] /\ ~ (uses'[e] > 0) =>
              /\ over'[e] = over[e] \cup {w}
              /\ pc' = [pc EXCEPT ![w] = "drop"] /\ UNCHANGED scanVars
<1>1. /\ uses \in [Probes -> Int] /\ over \in [Probes -> SUBSET Workers]
      /\ winner[w] \in Probes
  BY FreshCharge DEF IInv, TypeOK
<1>2. uses' = [uses EXCEPT ![winner[w]] = @ - 1]
  BY DEF ConsumeUse
<1>0. uses'[winner[w]] > 0 <=> ~ (uses'[winner[w]] <= 0)
  BY <1>1, <1>2
<1>3. CASE uses'[winner[w]] > 0
  <2>1. Leave(w) /\ over' = over
    BY <1>0, <1>3 DEF ConsumeUse
  <2> QED BY <1>1, <1>2, <1>3, <2>1
<1>4. CASE ~ (uses'[winner[w]] > 0)
  <2>1. /\ over' = [over EXCEPT ![winner[w]] = @ \cup {w}]
        /\ pc' = [pc EXCEPT ![w] = "drop"] /\ UNCHANGED scanVars
    BY <1>0, <1>4 DEF ConsumeUse
  <2> QED BY <1>1, <1>2, <1>4, <2>1
<1> QED BY <1>3, <1>4

LEMMA BudgetKept ==
  ASSUME IInv, [Next]_vars
  PROVE  Budget'
<1>1. TypeOK /\ Budget
  BY DEF IInv
<1>2. ASSUME UNCHANGED <<stage, uses, over>>
      PROVE  Budget'
  BY <1>1, <1>2 DEF Budget, Appended
<1>3. ASSUME NEW p \in Probes, Handler(p)
      PROVE  Budget'
  <2>1. CASE Receive(p)
    <3>1. UNCHANGED over /\ over[p] = {}
      BY <1>1, <2>1 DEF Receive, Budget, Appended
    <3>2. uses'[p] > 0 /\ stage'[p] = "received"
      BY <1>1, <2>1, ProbePoolAssumption DEF TypeOK, Receive, ProbePoolAssumption
    <3>3. \A e \in Probes \ {p} : uses'[e] = uses[e] /\ stage'[e] = stage[e]
      BY <1>1, <2>1 DEF TypeOK, Receive
    <3> QED BY <1>1, <3>1, <3>2, <3>3 DEF Budget, Appended
  <2>2. CASE Append(p) \/ PublishSize(p)
    <3>1. UNCHANGED <<uses, over>>
      BY <2>2 DEF Append, PublishSize
    <3>2. \A e \in Probes : /\ stage'[e] \notin {"pooled", "done"} => stage'[e] = stage[e]
                            /\ stage'[e] # "inflight" => stage[e] # "inflight"
      BY <1>1, <2>2 DEF TypeOK, Append, PublishSize
    <3> QED BY <1>1, <3>1, <3>2 DEF Budget, Appended
  <2> QED BY <1>3, <2>1, <2>2 DEF Handler
<1>4. ASSUME NEW w \in Workers, Request(w)
      PROVE  Budget'
  <2>1. CASE ConsumeUse(w)
    <3>1. UNCHANGED stage
      BY <2>1 DEF ConsumeUse
    <3>2. SUFFICES ASSUME NEW e \in Probes, e = winner[w]
                   PROVE  /\ e \in Appended
                          /\ IF uses'[e] > 0 THEN over'[e] = {}
                             ELSE uses'[e] = 1 - Cardinality(over'[e])
      BY <1>1, <2>1, <3>1, ChargeEffect DEF Budget, Appended
    <3>3. e \in Appended /\ w \notin over[e] /\ stage[e] # "inflight"
      BY <2>1, <3>2, FreshCharge DEF Appended
    <3>4. uses[e] \in Int /\ over[e] \subseteq Workers /\ uses'[e] = uses[e] - 1
      BY <1>1, <2>1, <3>2, ChargeEffect DEF TypeOK
    <3>5. CASE uses'[e] > 0
      <4>1. over'[e] = over[e] /\ uses[e] > 0
        BY <2>1, <3>2, <3>4, <3>5, ChargeEffect
      <4> QED BY <1>1, <3>3, <3>5, <4>1 DEF Budget
    <3>6. CASE ~ (uses'[e] > 0)
      <4>1. over'[e] = over[e] \cup {w}
        BY <2>1, <3>2, <3>6, ChargeEffect
      <4>2. IsFiniteSet(over[e])
        BY <3>4, FS_Subset, ProbePoolAssumption DEF ProbePoolAssumption
      <4>3. Cardinality(over'[e]) = Cardinality(over[e]) + 1 /\ Cardinality(over[e]) \in Nat
        BY <3>3, <4>1, <4>2, FS_AddElement, FS_CardinalityType
      <4>4. uses[e] = 1 - Cardinality(over[e]) \/ (uses[e] = 1 /\ Cardinality(over[e]) = 0)
        <5>1. IF uses[e] > 0 THEN over[e] = {} ELSE uses[e] = 1 - Cardinality(over[e])
          BY <1>1, <3>3 DEF Budget
        <5>2. CASE uses[e] > 0
          <6>1. uses[e] = 1
            BY <3>4, <3>6, <5>2
          <6>2. over[e] = {} /\ Cardinality({}) = 0
            BY <5>1, <5>2, FS_EmptySet
          <6> QED BY <6>1, <6>2
        <5> QED BY <5>1, <5>2
      <4> QED BY <3>3, <3>4, <3>6, <4>3, <4>4
    <3> QED BY <3>3, <3>5, <3>6
  <2>2. CASE ~ConsumeUse(w)
    BY <1>2, <1>4, <2>2 DEF Request, BeginRequest, StartRemove, RemoveOldest, LoadRIF,
       ReadThreshold, RemoveWorst, Load, PickRandom, ReadRIF, Select, BumpRIF, DropEntry, entryVars
  <2> QED BY <2>1, <2>2
<1>5. CASE Tick \/ UNCHANGED vars
  BY <1>2, <1>5 DEF Tick, vars, entryVars
<1> QED BY <1>3, <1>4, <1>5 DEF Next

LEMMA RemoversKept ==
  ASSUME IInv, [Next]_vars
  PROVE  Removers'
<1>1. TypeOK /\ Removers /\ Budget
  BY DEF IInv
<1>2. ASSUME NEW e \in Probes, NEW v \in over[e], v \in Workers,
             UNCHANGED <<pc[v], winner[v]>> \/ ~ (pc[v] = "drop" /\ winner[v] = e),
             snap'[v] \subseteq snap[v] \cup pool
      PROVE  \/ pc'[v] = "drop" /\ winner'[v] = e
             \/ e \notin pool' /\ e \notin snap'[v]
  <2>1. CASE pc[v] = "drop" /\ winner[v] = e
    BY <1>2, <2>1
  <2>2. CASE e \notin pool /\ e \notin snap[v]
    <3>1. e \in Appended
      BY <1>1, <1>2 DEF Budget
    <3>2. e \notin pool'
      BY <2>2, <3>1, NoReturnStep
    <3> QED BY <1>2, <2>2, <3>2
  <2> QED BY <1>1, <1>2, <2>1, <2>2 DEF Removers
<1>3. ASSUME UNCHANGED <<pc, winner, snap, over>>
      PROVE  Removers'
  BY <1>1, <1>2, <1>3 DEF TypeOK, Removers
<1>4. ASSUME NEW p \in Probes, Handler(p)
      PROVE  Removers'
  BY <1>3, <1>4 DEF Handler, Receive, Append, PublishSize, scanVars
<1>5. ASSUME NEW w \in Workers, Request(w)
      PROVE  Removers'
  <2>1. SUFFICES ASSUME NEW e \in Probes, NEW v \in over'[e]
                 PROVE  \/ pc'[v] = "drop" /\ winner'[v] = e
                        \/ e \notin pool' /\ e \notin snap'[v]
    BY DEF Removers
  <2>2. v \in Workers
    BY <1>1, NextType DEF TypeOK
  <2>3. CASE ConsumeUse(w) /\ v = w /\ e = winner[w]
    <3>1. w \notin over[e]
      BY <2>3, FreshCharge
    <3>2. ~ (uses'[e] > 0)
      BY <2>3, <3>1, ChargeEffect
    <3>3. pc' = [pc EXCEPT ![w] = "drop"] /\ UNCHANGED scanVars
      BY <2>3, <3>2, ChargeEffect
    <3> QED BY <1>1, <2>3, <3>3 DEF TypeOK, scanVars
  <2>4. CASE ~ (ConsumeUse(w) /\ v = w /\ e = winner[w])
    <3>1. v \in over[e]
      <4>1. CASE ConsumeUse(w)
        BY <2>4, <4>1, ChargeEffect
      <4>2. CASE ~ConsumeUse(w)
        <5>1. UNCHANGED over
          BY <1>5, <4>2 DEF Request, BeginRequest, StartRemove, RemoveOldest, LoadRIF,
             ReadThreshold, RemoveWorst, Load, PickRandom, ReadRIF, Select, BumpRIF, DropEntry
        <5> QED BY <5>1
      <4> QED BY <4>1, <4>2
    <3>2. CASE v # w
      BY <1>1, <1>2, <1>5, <2>2, <3>1, <3>2, OwnLocals
    <3>3. CASE v = w /\ DropEntry(w)
      <4>1. pool' = pool \ {winner[w]} /\ snap'[w] = {}
        BY <1>1, <3>3 DEF TypeOK, DropEntry, Leave
      <4>2. e \notin pool'
        BY <1>1, <3>1, <3>3, <4>1 DEF Removers
      <4> QED BY <3>3, <4>1, <4>2
    <3>4. CASE v = w /\ ~DropEntry(w)
      <4>1. pc[w] # "drop"
        BY <1>5, <3>4 DEF Request, BeginRequest, StartRemove, RemoveOldest, LoadRIF, ReadThreshold,
           RemoveWorst, Load, PickRandom, ReadRIF, Select, BumpRIF, ConsumeUse
      <4>2. snap'[w] \subseteq snap[w] \cup pool
        <5>1. CASE Load(w)
          BY <1>1, <5>1 DEF TypeOK, Load, Fresh
        <5>2. CASE ~Load(w)
          <6>1. UNCHANGED snap \/ snap' = [snap EXCEPT ![w] = {}]
            BY <1>5, <3>4, <5>2 DEF Request, BeginRequest, StartRemove, RemoveOldest, LoadRIF,
               ReadThreshold, RemoveWorst, PickRandom, ReadRIF, Select, BumpRIF, ConsumeUse, Leave,
               scanVars
          <6> QED BY <1>1, <6>1 DEF TypeOK
        <5> QED BY <5>1, <5>2
      <4> QED BY <1>2, <2>2, <3>1, <3>4, <4>1, <4>2
    <3> QED BY <3>2, <3>3, <3>4
  <2> QED BY <2>3, <2>4
<1>6. CASE Tick \/ UNCHANGED vars
  BY <1>3, <1>6 DEF Tick, vars, scanVars
<1> QED BY <1>4, <1>5, <1>6 DEF Next

-----------------------------------------------------------------------------
(* The theorems *)

(* The four groups of facts hold together with the types: no step of a     *)
(* request or of a probe's goroutine breaks any of them.                   *)
THEOREM Inductive == Spec => []IInv
<1>1. Init => IInv
  <2> SUFFICES ASSUME Init PROVE IInv
    OBVIOUS
  <2>2. TypeOK
    BY InitType
  <2>3. Appended = {}
    BY DEF Init, Appended
  <2>4. Sections
    BY <2>3, ProbePoolAssumption DEF Init, Sections, ProbePoolAssumption
  <2>5. Ranks /\ Budget /\ Removers
    BY <2>3 DEF Init, Ranks, Budget, Removers
  <2>6. Scans
    BY <2>3 DEF Init, Scans, Snapshot, Choice
  <2> QED BY <2>2, <2>4, <2>5, <2>6 DEF IInv
<1>2. IInv /\ [Next]_vars => IInv'
  <2> SUFFICES ASSUME IInv, [Next]_vars PROVE IInv'
    OBVIOUS
  <2>2. TypeOK'
    BY NextType DEF IInv
  <2> QED BY <2>2, SectionsKept, RanksKept, ScansKept, BudgetKept, RemoversKept DEF IInv
<1> QED BY <1>1, <1>2, PTL DEF Spec

(* While an entry without uses is in the slice, a request that chose it is *)
(* on its way to remove it: consumeEntry leaves no exhausted entry behind. *)
THEOREM ExhaustedAreRemoved == Spec => []ExhaustedHasRemover
<1>1. IInv => ExhaustedHasRemover
  <2>1. SUFFICES ASSUME IInv, NEW e \in pool, uses[e] <= 0
                 PROVE  \E w \in Workers : pc[w] = "drop" /\ winner[w] = e
    BY DEF ExhaustedHasRemover
  <2>2. e \in Appended /\ e \in Probes /\ uses[e] \in Int /\ over[e] \subseteq Workers
    BY <2>1 DEF IInv, Sections, Appended, TypeOK
  <2>3. uses[e] = 1 - Cardinality(over[e])
    BY <2>1, <2>2 DEF IInv, Budget, Appended
  <2>4. over[e] # {}
    BY <2>1, <2>3, FS_EmptySet
  <2>5. PICK w \in over[e] : TRUE
    BY <2>4
  <2> QED BY <2>1, <2>2, <2>5 DEF IInv, Removers
<1> QED BY <1>1, Inductive, PTL

(* However requests interleave, each of them overdraws the budget of an    *)
(* entry at most once.                                                     *)
THEOREM OveruseIsBounded == Spec => []OveruseBounded
<1>1. IInv => OveruseBounded
  <2> SUFFICES ASSUME IInv, NEW e \in Probes, stage[e] # "inflight"
               PROVE  uses[e] + Cardinality(Workers) > 0
    BY DEF OveruseBounded
  <2>1. uses[e] \in Int /\ over[e] \subseteq Workers /\ IsFiniteSet(Workers)
    BY ProbePoolAssumption DEF IInv, TypeOK, ProbePoolAssumption
  <2>2. /\ Cardinality(over[e]) \in Nat /\ Cardinality(Workers) \in Nat
        /\ Cardinality(over[e]) <= Cardinality(Workers)
    BY <2>1, FS_Subset, FS_CardinalityType
  <2>3. uses[e] > 0 \/ uses[e] = 1 - Cardinality(over[e])
    BY DEF IInv, Budget
  <2> QED BY <2>1, <2>2, <2>3
<1> QED BY <1>1, Inductive, PTL

(* An entry that has left the slice never comes back, whichever requests   *)
(* and probe results publish slices after that.                            *)
THEOREM EntriesNeverReturn == Spec => NoReturn
<1>1. IInv /\ [Next]_vars =>
        [\A e \in Probes : stage[e] \in {"pooled", "done"} /\ e \notin pool => e \notin pool']_vars
  BY NoReturnStep DEF Appended
<1> QED BY <1>1, Inductive, PTL DEF Spec, NoReturn

(* Choosing with RIFs that others increment meanwhile is still sound: when *)
(* a request settles on a hot entry all it considered are hot, and none    *)
(* has fewer requests than it counted there.                               *)
THEOREM HotPicksHold == Spec => []HotPickHolds
<1>1. IInv => HotPickHolds
  <2> SUFFICES ASSUME IInv, NEW w \in Workers, winner[w] # None,
                      seen[w][winner[w]] > theta[w], NEW e \in snap[w]
               PROVE  rif[e] > theta[w] /\ rif[e] >= seen[w][winner[w]]
    BY DEF HotPickHolds
  <2>1. TypeOK /\ Snapshot(w) /\ Choice(w)
    BY DEF IInv, Scans
  <2>2. theta[w] \in Int
    BY <2>1, ThetaInt
  <2>3. e \in Probes /\ winner[w] \in Probes /\ seen[w][e] \in Nat /\ rif[e] \in Nat
        /\ seen[w][winner[w]] \in Nat
    BY <2>1 DEF TypeOK, Snapshot
  <2>4. seen[w][e] <= rif[e] /\ seen[w][e] > theta[w] /\ seen[w][e] >= seen[w][winner[w]]
    BY <2>1 DEF Snapshot, Choice
  <2> QED BY <2>2, <2>3, <2>4
<1> QED BY <1>1, Inductive, PTL

(* When it settles on a cold entry, no entry that is still cold among      *)
(* those it considered has a lower latency.                                *)
THEOREM ColdPicksHold == Spec => []ColdPickHolds
<1>1. IInv => ColdPickHolds
  <2> SUFFICES ASSUME IInv, NEW w \in Workers, winner[w] # None,
                      seen[w][winner[w]] <= theta[w], NEW e \in snap[w], rif[e] <= theta[w]
               PROVE  Lat(winner[w]) <= Lat(e)
    BY DEF ColdPickHolds
  <2>1. TypeOK /\ Snapshot(w) /\ Choice(w)
    BY DEF IInv, Scans
  <2>2. theta[w] \in Int
    BY <2>1, ThetaInt
  <2>3. e \in Probes /\ winner[w] \in Probes /\ seen[w][e] \in Nat /\ rif[e] \in Nat
        /\ seen[w][winner[w]] \in Nat
    BY <2>1 DEF TypeOK, Snapshot
  <2>4. seen[w][e] <= theta[w]
    BY <2>1, <2>2, <2>3 DEF Snapshot
  <2> QED BY <2>1, <2>2, <2>3, <2>4 DEF Choice
<1> QED BY <1>1, Inductive, PTL

-----------------------------------------------------------------------------
(* The victims of removeWorst *)

(* What removeWorst has loaded belongs to the copy it works on, and RIFs   *)
(* only grow, so no entry of the slice has less than was loaded of it.     *)
Loads ==
  /\ unloaded \subseteq work
  /\ \A e \in Probes : loaded[e] <= rif[e]
  /\ \A e \in Probes \ Appended : loaded[e] = 0

LEMMA LoadsKept ==
  ASSUME IInv, Loads, [Next]_vars
  PROVE  Loads'
<1>1. /\ TypeOK /\ TypeOK' /\ work \subseteq Appended
      /\ \A e \in Appended : e \in Appended' /\ rif'[e] >= rif[e]
  BY NextType, ResultsFixed DEF IInv, Sections
<1>2. \A e \in Probes : {rif[e], rif'[e], loaded[e], loaded'[e]} \subseteq Nat
  BY <1>1 DEF TypeOK
<1>3. ASSUME UNCHANGED loaded, unloaded' \subseteq work'
      PROVE  Loads'
  <2>1. ASSUME NEW e \in Probes PROVE loaded'[e] <= rif'[e]
    BY <1>1, <1>2, <1>3 DEF Loads
  <2> QED BY <1>1, <1>3, <2>1 DEF Loads
<1>4. ASSUME loaded' = [p \in Probes |-> 0], unloaded' \subseteq work'
      PROVE  Loads'
  <2>1. ASSUME NEW e \in Probes PROVE loaded'[e] = 0 /\ loaded'[e] <= rif'[e]
    BY <1>2, <1>4
  <2> QED BY <1>4, <2>1 DEF Loads
<1>5. ASSUME UNCHANGED <<work, unloaded, loaded>>
      PROVE  Loads'
  BY <1>3, <1>5 DEF Loads
<1>6. CASE \E p \in Probes : Handler(p)
  BY <1>5, <1>6 DEF Handler, Receive, Append, PublishSize, sectionVars
<1>7. ASSUME NEW w \in Workers, Request(w)
      PROVE  Loads'
  <2>1. CASE StartRemove(w)
    BY <1>3, <2>1 DEF StartRemove, Loads
  <2>2. CASE RemoveOldest(w) \/ RemoveWorst(w)
    BY <1>4, <2>2 DEF RemoveOldest, RemoveWorst, EndIteration
  <2>3. CASE ReadThreshold(w)
    BY <1>4, <2>3 DEF ReadThreshold
  <2>4. CASE LoadRIF(w)
    <3>1. PICK e \in unloaded :
            loaded' = [loaded EXCEPT ![e] = rif[e]] /\ unloaded' = unloaded \ {e}
      BY <2>4 DEF LoadRIF, Earliest
    <3>2. e \in Appended /\ e \in Probes
      BY <1>1, <3>1 DEF Loads, TypeOK
    <3>3. work' = work /\ rif' = rif /\ Appended' = Appended
      BY <2>4 DEF LoadRIF, entryVars, Appended
    <3>4. \A f \in Probes : loaded'[f] = IF f = e THEN rif[e] ELSE loaded[f]
      BY <1>1, <3>1, <3>2 DEF TypeOK
    <3> QED BY <1>2, <3>1, <3>2, <3>3, <3>4 DEF Loads
  <2>5. CASE \/ BeginRequest(w) \/ Load(w) \/ PickRandom(w) \/ ReadRIF(w) \/ Select(w)
             \/ BumpRIF(w) \/ ConsumeUse(w) \/ DropEntry(w)
    <3>1. UNCHANGED sectionVars
      BY <2>5 DEF BeginRequest, Load, PickRandom, ReadRIF, Select, BumpRIF, ConsumeUse, DropEntry
    <3> QED BY <1>5, <3>1 DEF sectionVars
  <2> QED BY <1>7, <2>1, <2>2, <2>3, <2>4, <2>5 DEF Request
<1>8. CASE Tick \/ UNCHANGED vars
  BY <1>5, <1>8 DEF Tick, vars, sectionVars
<1> QED BY <1>6, <1>7, <1>8 DEF Next

(* An entry that is not above the threshold when removeWorst drops it has  *)
(* the highest latency of the copy: an entry that the second pass had      *)
(* found hot would still be above it, whatever requests did meanwhile.     *)
THEOREM ColdVictimsSlowest == Spec => ColdVictimSlowest
<1>1. Init => Loads
  BY DEF Init, Loads
<1>2. IInv /\ Loads /\ [Next]_vars =>
        [\A w \in Workers : pc[w] = "victim" /\ pc'[w] # "victim" =>
           \A v \in work \ (IF mutex' = w THEN work' ELSE pool') :
             rif[v] <= thr => \A e \in work : Lat(e) <= Lat(v)]_vars
  <2> SUFFICES ASSUME IInv, Loads, Next,
                      NEW w \in Workers, pc[w] = "victim", pc'[w] # "victim",
                      NEW v \in work, v \notin (IF mutex' = w THEN work' ELSE pool'), rif[v] <= thr
               PROVE  \A e \in work : Lat(e) <= Lat(v)
    OBVIOUS
  <2>1. TypeOK /\ mutex = w /\ None \notin Workers
    BY ProbePoolAssumption DEF IInv, Sections, ProbePoolAssumption
  <2>2. Request(w)
    <3>1. CASE Tick \/ \E p \in Probes : Handler(p)
      BY <3>1 DEF Tick, Handler, Receive, Append, PublishSize
    <3>2. ASSUME NEW x \in Workers, x # w, Request(x)
          PROVE  FALSE
      BY <2>1, <3>2, OwnLocals
    <3> QED BY <3>1, <3>2 DEF Next
  <2>3. RemoveWorst(w)
    BY <2>1, <2>2 DEF Request, BeginRequest, StartRemove, RemoveOldest, LoadRIF, ReadThreshold, Load,
       PickRandom, ReadRIF, Select, BumpRIF, ConsumeUse, DropEntry, TypeOK
  <2>4. EndIteration(w, Worst(work, thr))
    BY <2>3 DEF RemoveWorst
  <2>5. v \in Worst(work, thr)
    <3>1. CASE left > 1 /\ work \ Worst(work, thr) # {}
      BY <2>1, <2>4, <3>1 DEF EndIteration
    <3>2. CASE ~ (left > 1 /\ work \ Worst(work, thr) # {})
      BY <2>1, <2>4, <3>2 DEF EndIteration
    <3> QED BY <3>1, <3>2
  <2> DEFINE hot == {e \in work : loaded[e] > thr}
  <2>6. v \in (IF hot # {} THEN Earliest({e \in hot : \A f \in hot : loaded[f] <= loaded[e]})
                ELSE Earliest({e \in work : \A f \in work : Lat(f) <= Lat(e)}))
    BY <2>5 DEF Worst
  <2>7. v \notin hot
    <3>1. loaded[v] <= rif[v] /\ loaded[v] \in Nat /\ rif[v] \in Nat /\ thr \in Nat
      BY <2>1 DEF Loads, TypeOK
    <3> QED BY <3>1
  <2> HIDE DEF hot
  <2>8. v \in Earliest({e \in work : \A f \in work : Lat(f) <= Lat(e)})
    BY <2>6, <2>7 DEF Earliest
  <2> QED BY <2>8 DEF Earliest
<1>3. IInv /\ Loads /\ [Next]_vars => Loads'
  BY LoadsKept
<1> QED BY <1>1, <1>2, <1>3, Inductive, PTL DEF Spec, ColdVictimSlowest

-----------------------------------------------------------------------------
(* Sizes *)

(* Every set of naturals with an element has a least one.                  *)
LEMMA LeastNatural ==
  ASSUME NEW T \in SUBSET Nat, T # {}
  PROVE  \E m \in T : \A n \in T : m <= n
<1> DEFINE Less == {ss \in Nat \X Nat : ss[1] < ss[2]}
<1>1. IsWellFoundedOn(Less, Nat)
  BY NatLessThanWellFounded DEF OpToRel
<1>2. \A m, n \in Nat : <<n, m>> \in Less <=> n < m
  OBVIOUS
<1> HIDE DEF Less
<1>3. PICK m \in T : \A n \in T : <<n, m>> \notin Less
  BY <1>1, WFMin
<1>4. \A n \in T : ~ (n < m) /\ n \in Nat /\ m \in Nat
  BY <1>2, <1>3
<1>5. \A n \in T : m <= n
  BY <1>4
<1> QED BY <1>5

LEMMA EarliestExists ==
  ASSUME TypeOK, NEW S \in SUBSET Probes, S # {}
  PROVE  Earliest(S) # {}
<1> DEFINE T == {ord[e] : e \in S}
<1>1. T \in SUBSET Nat /\ T # {}
  BY DEF TypeOK
<1> HIDE DEF T
<1>2. PICK m \in T : \A n \in T : m <= n
  BY <1>1, LeastNatural
<1>3. PICK e \in S : ord[e] = m
  BY <1>2 DEF T
<1>4. \A f \in S : ord[e] <= ord[f]
  BY <1>2, <1>3 DEF T
<1> QED BY <1>3, <1>4 DEF Earliest

LEMMA EarliestUnique ==
  ASSUME TypeOK, Ranks, NEW S \in SUBSET Appended, NEW e \in Earliest(S), NEW f \in Earliest(S)
  PROVE  e = f
<1>1. e \in Appended /\ f \in Appended /\ ord[e] <= ord[f] /\ ord[f] <= ord[e]
  BY DEF Earliest
<1>2. ord[e] \in Nat /\ ord[f] \in Nat
  BY <1>1 DEF TypeOK, Appended
<1> QED BY <1>1, <1>2 DEF Ranks

(* appendPool keeps a slice within the capacity.                           *)
LEMMA AppendBounded ==
  ASSUME TypeOK, NEW S \in SUBSET Probes, NEW p \in Probes \ S, Cardinality(S) <= PoolCap
  PROVE  Cardinality(AppendPool(S, p)) <= PoolCap
<1>1. PoolCap \in Nat /\ PoolCap > 0 /\ IsFiniteSet(S) /\ Cardinality(S) \in Nat
  BY FiniteSize, ProbePoolAssumption DEF ProbePoolAssumption
<1>2. Cardinality(S \cup {p}) = Cardinality(S) + 1
  BY <1>1, FS_AddElement
<1>3. CASE Cardinality(S \cup {p}) > PoolCap
  <2>1. S # {}
    BY <1>1, <1>2, <1>3, FS_EmptySet
  <2>2. PICK e \in Earliest(S) : e \in S
    BY <2>1, EarliestExists DEF Earliest
  <2>3. IsFiniteSet(S \ {e}) /\ Cardinality(S \ {e}) = Cardinality(S) - 1
    BY <1>1, <2>2, FS_RemoveElement
  <2>4. IsFiniteSet(S \ Earliest(S)) /\ Cardinality(S \ Earliest(S)) <= Cardinality(S) - 1
    <3>1. S \ Earliest(S) \in SUBSET (S \ {e})
      BY <2>2
    <3> QED BY <2>3, <3>1, FS_Subset
  <2>5. Cardinality(S \ Earliest(S)) \in Nat
    BY <2>4, FS_CardinalityType
  <2> DEFINE Rest == S \ Earliest(S)
  <2>6. IsFiniteSet(Rest) /\ Cardinality(Rest) \in Nat /\ Cardinality(Rest) <= Cardinality(S) - 1
    BY <2>4, <2>5
  <2> HIDE DEF Rest
  <2>7. Cardinality(Rest \cup {p}) = Cardinality(Rest) + 1 \/ Cardinality(Rest \cup {p}) = Cardinality(Rest)
    BY <2>6, FS_AddElement
  <2>8. Cardinality(Rest \cup {p}) <= PoolCap
    BY <1>1, <2>6, <2>7
  <2> QED BY <1>3, <2>8 DEF AppendPool, Rest
<1>4. CASE ~ (Cardinality(S \cup {p}) > PoolCap)
  BY <1>1, <1>2, <1>4 DEF AppendPool
<1> QED BY <1>3, <1>4

(* The slice never holds more than PoolCap entries.                        *)
THEOREM PoolBounded == Spec => []PoolWithinCap
<1>1. Init => PoolWithinCap
  BY ProbePoolAssumption, FS_EmptySet DEF Init, PoolWithinCap, ProbePoolAssumption
<1>2. IInv /\ PoolWithinCap /\ [Next]_vars => PoolWithinCap'
  <2> SUFFICES ASSUME IInv, PoolWithinCap, [Next]_vars PROVE PoolWithinCap'
    OBVIOUS
  <2>1. TypeOK /\ TypeOK' /\ PoolCap \in Nat /\ pool \subseteq Appended
    BY NextType, ProbePoolAssumption DEF IInv, Sections, ProbePoolAssumption
  <2>2. CASE \E p \in Probes : Append(p)
    <3>1. PICK p \in Probes : Append(p)
      BY <2>2
    <3>2. p \notin Appended /\ p \notin Kept /\ Kept \in SUBSET pool
      BY <2>1, <3>1, AppendAdds DEF Kept, Appended
    <3>3. IsFiniteSet(pool) /\ Cardinality(pool) \in Nat /\ Kept \in SUBSET Probes
      BY <2>1, <3>2, FiniteSize DEF TypeOK
    <3>4. Cardinality(Kept) <= Cardinality(pool) /\ Cardinality(Kept) \in Nat
      BY <3>2, <3>3, FS_Subset, FiniteSize
    <3>5. Cardinality(Kept) <= PoolCap
      BY <2>1, <3>3, <3>4 DEF PoolWithinCap
    <3> QED BY <2>1, <3>1, <3>2, <3>3, <3>5, AppendBounded DEF Append, PoolWithinCap
  <2>3. CASE ~ \E p \in Probes : Append(p)
    <3>1. pool' \subseteq pool
      <4>1. pool' \cap Appended \subseteq pool
        BY NoReturnStep
      <4>2. CASE Appended' \subseteq Appended
        <5>1. pool' \subseteq Appended'
          BY SectionsKept DEF Sections
        <5> QED BY <4>1, <4>2, <5>1
      <4>3. Appended' \subseteq Appended
        <5>1. CASE \E p \in Probes : Handler(p)
          BY <2>1, <2>3, <5>1 DEF Handler, Receive, PublishSize, TypeOK, Appended
        <5>2. CASE ~ \E p \in Probes : Handler(p)
          <6>1. UNCHANGED stage
            BY <5>2 DEF Next, Tick, vars, Request, BeginRequest, StartRemove, RemoveOldest, LoadRIF,
               ReadThreshold, RemoveWorst, Load, PickRandom, ReadRIF, Select, BumpRIF, ConsumeUse,
               DropEntry, entryVars
          <6> QED BY <6>1 DEF Appended
        <5> QED BY <5>1, <5>2
      <4> QED BY <4>2, <4>3
    <3>2. IsFiniteSet(pool) /\ Cardinality(pool) \in Nat /\ Cardinality(pool') \in Nat
      BY <2>1, FiniteSize DEF TypeOK
    <3>3. Cardinality(pool') <= Cardinality(pool)
      BY <3>1, <3>2, FS_Subset
    <3> QED BY <2>1, <3>2, <3>3 DEF PoolWithinCap
  <2> QED BY <2>2, <2>3
<1> QED BY <1>1, <1>2, Inductive, PTL DEF Spec

(* An entry that appendPool gives up, and handleProbeResult has not pruned,*)
(* was the earliest of a full slice that had nothing to prune either.      *)
LEMMA AppendEvicts ==
  ASSUME IInv, PoolWithinCap, NEW p \in Probes, Append(p), NEW e \in Kept \ pool'
  PROVE  /\ pool' = (Kept \ {e}) \cup {p} /\ p \notin Kept
         /\ Cardinality(Kept) = PoolCap /\ Cardinality(pool') = PoolCap
         /\ \A f \in pool' : ord'[f] > ord[e]
<1>1. /\ TypeOK /\ Ranks /\ pool \in SUBSET Appended /\ pool \in SUBSET Probes
      /\ PoolCap \in Nat /\ p \notin Appended
  BY AppendAdds, ProbePoolAssumption DEF IInv, Sections, TypeOK, Appended, ProbePoolAssumption
<1>2. Kept \in SUBSET pool /\ Kept \in SUBSET Appended /\ p \notin Kept
  BY <1>1 DEF Kept
<1>3. IsFiniteSet(Kept) /\ Cardinality(Kept) \in Nat /\ Cardinality(Kept) <= PoolCap
  <2>1. IsFiniteSet(pool) /\ Cardinality(pool) \in Nat /\ Cardinality(pool) <= PoolCap
    BY <1>1, FiniteSize DEF PoolWithinCap
  <2>2. IsFiniteSet(Kept) /\ Cardinality(Kept) <= Cardinality(pool)
    BY <1>2, <2>1, FS_Subset
  <2>3. Cardinality(Kept) \in Nat
    BY <2>2, FS_CardinalityType
  <2> QED BY <1>1, <2>1, <2>2, <2>3
<1>4. Cardinality(Kept \cup {p}) = Cardinality(Kept) + 1
  BY <1>2, <1>3, FS_AddElement
<1>5. pool' = AppendPool(Kept, p)
  BY DEF Append
<1>6. Cardinality(Kept \cup {p}) > PoolCap /\ e \in Earliest(Kept)
  BY <1>5 DEF AppendPool
<1>7. Earliest(Kept) = {e}
  BY <1>1, <1>2, <1>6, EarliestUnique
<1>8. pool' = (Kept \ {e}) \cup {p}
  BY <1>5, <1>6, <1>7 DEF AppendPool
<1>9. Cardinality(pool') = PoolCap
  <2>1. IsFiniteSet(Kept \ {e}) /\ Cardinality(Kept \ {e}) = Cardinality(Kept) - 1 /\ p \notin Kept \ {e}
    BY <1>2, <1>3, FS_RemoveElement
  <2>2. Cardinality((Kept \ {e}) \cup {p}) = (Cardinality(Kept) - 1) + 1
    BY <2>1, FS_AddElement
  <2> QED BY <1>1, <1>3, <1>4, <1>6, <1>8, <2>2
<1>10. ASSUME NEW f \in pool' PROVE ord'[f] > ord[e]
  <2>1. ord[e] \in Nat /\ ord[e] <= appends /\ appends \in Nat
    BY <1>1, <1>2 DEF TypeOK, Ranks
  <2>2. CASE f = p
    <3>1. ord'[p] = appends + 1
      BY <1>1 DEF Append, TypeOK
    <3> QED BY <2>1, <2>2, <3>1
  <2>3. CASE f # p
    <3>1. f \in Kept /\ f # e /\ f \in Appended /\ e \in Appended
      BY <1>2, <1>8, <1>10, <2>3
    <3>2. ord'[f] = ord[f] /\ ord[f] \in Nat
      BY <1>1, <2>3, <3>1 DEF Append, TypeOK, Appended
    <3>3. ord[e] <= ord[f] /\ ord[e] # ord[f]
      BY <1>1, <1>6, <3>1 DEF Earliest, Ranks
    <3> QED BY <2>1, <3>2, <3>3
  <2> QED BY <2>2, <2>3
<1> QED BY <1>1, <1>2, <1>3, <1>4, <1>6, <1>8, <1>9, <1>10

(* Only a full slice of entries that are all newer and fresh gives up an   *)
(* entry that has not expired.                                             *)
THEOREM EvictsWhenFull == Spec => EvictsOnlyWhenFull
<1>1. IInv /\ PoolWithinCap /\ [Next]_vars =>
        [\A e \in pool \ pool' :
           appends' # appends /\ (PoolTTL = 0 \/ at[e] > now - PoolTTL) =>
             /\ Cardinality(pool') = PoolCap
             /\ \A f \in pool' : /\ ord'[f] > ord[e]
                                 /\ PoolTTL = 0 \/ f \notin pool \/ at[f] > now - PoolTTL]_vars
  <2> SUFFICES ASSUME IInv, PoolWithinCap, Next, NEW e \in pool \ pool', appends' # appends,
                      PoolTTL = 0 \/ at[e] > now - PoolTTL
               PROVE  /\ Cardinality(pool') = PoolCap
                      /\ \A f \in pool' : /\ ord'[f] > ord[e]
                                          /\ PoolTTL = 0 \/ f \notin pool \/ at[f] > now - PoolTTL
    OBVIOUS
  <2>1. PICK p \in Probes : Append(p)
    BY DEF Next, Tick, Handler, Receive, PublishSize, Request, BeginRequest, StartRemove,
       RemoveOldest, LoadRIF, ReadThreshold, RemoveWorst, Load, PickRandom, ReadRIF, Select,
       BumpRIF, ConsumeUse, DropEntry, entryVars
  <2>2. e \in Kept \ pool'
    BY DEF Kept
  <2>3. p \notin pool
    BY <2>1, AppendAdds DEF IInv, Sections, Appended
  <2>4. \A f \in pool' : f \in pool => f \in Kept
    BY <2>1, <2>2, <2>3, AppendEvicts
  <2> QED BY <2>1, <2>2, <2>4, AppendEvicts DEF Kept
<1> QED BY <1>1, Inductive, PoolBounded, PTL DEF Spec, EvictsOnlyWhenFull

(* One iteration of applyRRemove's loop removes at most one entry.         *)
LEMMA OneVictim ==
  ASSUME IInv, NEW w \in Workers, RemoveOldest(w) \/ RemoveWorst(w)
  PROVE  \E V : /\ EndIteration(w, V)
               /\ V \subseteq work /\ IsFiniteSet(V) /\ Cardinality(V) <= 1
<1>1. TypeOK /\ Ranks /\ work \subseteq Appended /\ work \subseteq Probes
  BY DEF IInv, Sections, TypeOK
<1>2. PICK S \in SUBSET work : EndIteration(w, Earliest(S))
  <2>1. CASE RemoveOldest(w)
    BY <2>1 DEF RemoveOldest
  <2>2. CASE RemoveWorst(w)
    <3> DEFINE hot == {e \in work : loaded[e] > thr}
    <3>1. Worst(work, thr) =
            IF hot # {} THEN Earliest({e \in hot : \A f \in hot : loaded[f] <= loaded[e]})
            ELSE Earliest({e \in work : \A f \in work : Lat(f) <= Lat(e)})
      BY DEF Worst
    <3>2. EndIteration(w, Worst(work, thr))
      BY <2>2 DEF RemoveWorst
    <3>3. {e \in hot : \A f \in hot : loaded[f] <= loaded[e]} \in SUBSET work
      OBVIOUS
    <3>4. {e \in work : \A f \in work : Lat(f) <= Lat(e)} \in SUBSET work
      OBVIOUS
    <3> HIDE DEF hot
    <3>5. CASE hot # {}
      BY <3>1, <3>2, <3>3, <3>5
    <3>6. CASE hot = {}
      BY <3>1, <3>2, <3>4, <3>6
    <3> QED BY <3>5, <3>6
  <2> QED BY <2>1, <2>2
<1>3. Earliest(S) \subseteq work
  BY DEF Earliest
<1>4. \A e, f \in Earliest(S) : e = f
  BY <1>1, EarliestUnique
<1>5. IsFiniteSet(Earliest(S)) /\ Cardinality(Earliest(S)) <= 1
  <2>1. CASE Earliest(S) = {}
    BY <2>1, FS_EmptySet
  <2>2. CASE Earliest(S) # {}
    <3>1. PICK e : e \in Earliest(S)
      BY <2>2
    <3>2. Earliest(S) = {e}
      BY <1>4, <3>1
    <3>3. IsFiniteSet({e}) /\ Cardinality({e}) = 1
      BY FS_Singleton
    <3> QED BY <3>2, <3>3
  <2> QED BY <2>1, <2>2
<1> QED BY <1>2, <1>3, <1>5

(* While applyRRemove works on its copy, the slice is the copy and what    *)
(* the loop has taken from it: what it publishes loses no other change.    *)
THEOREM SectionStaysCurrent == Spec => []SectionIsCurrent
<1> DEFINE Bound == mutex # None => Cardinality(pool \ work) + left <= MaxOwed
<1>1. Init => Bound
  BY DEF Init
<1>2. IInv /\ Bound /\ [Next]_vars => Bound'
  <2> SUFFICES ASSUME IInv, Bound, [Next]_vars, mutex' # None
               PROVE  Cardinality(pool' \ work') + left' <= MaxOwed
    OBVIOUS
  <2>1. /\ TypeOK /\ TypeOK' /\ IsFiniteSet(pool \ work) /\ Cardinality(pool \ work) \in Nat
        /\ left \in Nat /\ debt \in 0 .. RemoveDen - 1 /\ None \notin Workers
    BY NextType, FiniteSize, ProbePoolAssumption DEF IInv, TypeOK, ProbePoolAssumption
  <2>2. MaxOwed \in Nat
    <3>1. RemoveDen \in Nat /\ RemoveDen > 0 /\ RemoveDen - 1 + RemoveNum \in Nat
      BY ProbePoolAssumption DEF ProbePoolAssumption
    <3> QED BY <3>1 DEF MaxOwed
  <2>3. CASE UNCHANGED <<pool, work, left, mutex>>
    BY <2>3
  <2>4. ASSUME NEW w \in Workers, StartRemove(w)
        PROVE  Cardinality(pool' \ work') + left' <= MaxOwed
    <3>1. UNCHANGED mutex \/ (UNCHANGED pool /\ work' = pool /\ left' = (debt + RemoveNum) \div RemoveDen)
      <4>1. CASE (debt + RemoveNum) \div RemoveDen = 0 \/ pool = {}
        BY <2>4, <4>1 DEF StartRemove
      <4>2. CASE ~ ((debt + RemoveNum) \div RemoveDen = 0 \/ pool = {})
        BY <2>4, <4>2 DEF StartRemove
      <4> QED BY <4>1, <4>2
    <3>2. mutex = None
      BY <2>4 DEF StartRemove
    <3>3. pool' \ work' = {} /\ left' = (debt + RemoveNum) \div RemoveDen
      BY <3>1, <3>2
    <3>4. left' \in 0 .. MaxOwed
      BY <2>1, <3>3, DebtSplits
    <3>5. Cardinality(pool' \ work') = 0
      BY <3>3, FS_EmptySet
    <3>6. left' \in Int /\ left' <= MaxOwed
      BY <2>2, <3>4
    <3> QED BY <3>5, <3>6
  <2>5. ASSUME NEW w \in Workers, RemoveOldest(w) \/ RemoveWorst(w)
        PROVE  Cardinality(pool' \ work') + left' <= MaxOwed
    <3>1. PICK V : /\ EndIteration(w, V)
                   /\ V \subseteq work /\ IsFiniteSet(V) /\ Cardinality(V) <= 1
      BY <2>5, OneVictim
    <3>2. UNCHANGED <<pool, mutex>> /\ work' = work \ V /\ left' = left - 1
      BY <3>1 DEF EndIteration
    <3>3. work \subseteq pool /\ pool' \ work' = (pool \ work) \cup V /\ (pool \ work) \cap V = {}
      BY <3>1, <3>2 DEF IInv, Sections
    <3>4. Cardinality(pool' \ work') = Cardinality(pool \ work) + Cardinality(V) - Cardinality({})
      BY <2>1, <3>1, <3>3, FS_Union
    <3>5. Cardinality(V) \in Nat /\ Cardinality({}) = 0
      BY <3>1, FS_CardinalityType, FS_EmptySet
    <3>6. Cardinality(pool \ work) + left <= MaxOwed
      BY <3>2
    <3> QED BY <2>1, <2>2, <3>1, <3>2, <3>4, <3>5, <3>6
  <2>6. ASSUME NEW p \in Probes, Append(p)
        PROVE  FALSE
    BY <2>6 DEF Append, sectionVars
  <2>7. ASSUME NEW w \in Workers, DropEntry(w)
        PROVE  FALSE
    BY <2>7 DEF DropEntry, sectionVars
  <2>8. CASE /\ ~ \E p \in Probes : Append(p)
             /\ ~ \E w \in Workers : StartRemove(w) \/ RemoveOldest(w) \/ RemoveWorst(w) \/ DropEntry(w)
    <3>1. UNCHANGED <<pool, work, left, mutex>>
      BY <2>8 DEF Next, Tick, Handler, Receive, PublishSize, vars, Request, BeginRequest, LoadRIF,
         ReadThreshold, Load, PickRandom, ReadRIF, Select, BumpRIF, ConsumeUse, sectionVars
    <3> QED BY <2>3, <3>1
  <2> QED BY <2>4, <2>5, <2>6, <2>7, <2>8
<1>3. IInv /\ Bound => SectionIsCurrent
  BY DEF IInv, Sections, SectionIsCurrent
<1> QED BY <1>1, <1>2, <1>3, Inductive, PTL DEF Spec

-----------------------------------------------------------------------------
(* ProbePool implements AbstractPool: its initial state maps to the        *)
(* abstract one, and each of its steps to an admission, to a batch of      *)
(* deaths, or to no step at all.  The mapping takes the published slice    *)
(* for those alive; the copy applyRRemove works on shows only when it is   *)
(* published.                                                              *)

LEMMA MaxOwedNatural == MaxOwed \in Nat
<1>1. RemoveDen \in Nat /\ RemoveDen > 0 /\ RemoveDen - 1 + RemoveNum \in Nat
  BY ProbePoolAssumption DEF ProbePoolAssumption
<1> QED BY <1>1 DEF MaxOwed

Dead == Appended \ pool

(* The two modules mean the same by the size of a set.                     *)
LEMMA SameCardinality == \A S : Abstract!Cardinality(S) = Cardinality(S)
BY DEF Abstract!Cardinality, Cardinality

LEMMA DeadIsMapped ==
  /\ Dead = {e \in Probes : stage[e] \in {"pooled", "done"} /\ e \notin pool}
  /\ Dead' = {e \in Probes : stage'[e] \in {"pooled", "done"} /\ e \notin pool'}
BY DEF Dead, Appended

(* The loop of applyRRemove has always a removal left to make.             *)
RemovalsLeft == mutex # None => left >= 1

LEMMA SectionOwes == Spec => []RemovalsLeft
<1>1. Init => RemovalsLeft
  BY DEF Init, RemovalsLeft
<1>2. IInv /\ RemovalsLeft /\ [Next]_vars => RemovalsLeft'
  <2> SUFFICES ASSUME IInv, RemovalsLeft, [Next]_vars, mutex' # None
               PROVE  left' >= 1
    BY DEF RemovalsLeft
  <2>1. TypeOK /\ left \in Nat /\ debt \in 0 .. RemoveDen - 1
    BY DEF IInv, TypeOK
  <2>2. CASE UNCHANGED <<mutex, left>>
    BY <2>2 DEF RemovalsLeft
  <2>3. ASSUME NEW w \in Workers, StartRemove(w)
        PROVE  left' >= 1
    <3>1. (debt + RemoveNum) \div RemoveDen \in Nat
      BY <2>1, DebtSplits, MaxOwedNatural
    <3>2. mutex = None
      BY <2>3 DEF StartRemove
    <3>3. left' = (debt + RemoveNum) \div RemoveDen /\ (debt + RemoveNum) \div RemoveDen # 0
      BY <2>3, <3>2 DEF StartRemove
    <3> HIDE DEF RemovalsLeft
    <3> QED BY <3>1, <3>3
  <2>4. ASSUME NEW w \in Workers, RemoveOldest(w) \/ RemoveWorst(w)
        PROVE  left' >= 1
    <3>1. PICK V : EndIteration(w, V)
      BY <2>4, OneVictim
    <3>2. left > 1 /\ left' = left - 1
      BY <3>1 DEF EndIteration
    <3> QED BY <2>1, <3>2
  <2>5. CASE ~ \E w \in Workers : StartRemove(w) \/ RemoveOldest(w) \/ RemoveWorst(w)
    <3>1. UNCHANGED <<mutex, left>>
      BY <2>5 DEF Next, Tick, Handler, Receive, Append, PublishSize, vars, Request, BeginRequest,
         LoadRIF, ReadThreshold, Load, PickRandom, ReadRIF, Select, BumpRIF, ConsumeUse, DropEntry,
         sectionVars
    <3> QED BY <2>2, <3>1
  <2> QED BY <2>3, <2>4, <2>5
<1> QED BY <1>1, <1>2, Inductive, PTL DEF Spec

(* What appendPool gives up when nothing has expired: nothing, or one entry*)
(* of a full slice.                                                        *)
LEMMA AppendGivesUp ==
  ASSUME IInv, PoolWithinCap, NEW p \in Probes, Append(p), PoolTTL = 0
  PROVE  \/ pool \ pool' = {}
         \/ Cardinality(pool \ pool') = 1 /\ Cardinality(pool) = PoolCap
<1> SUFFICES ASSUME NEW e \in pool \ pool'
             PROVE  Cardinality(pool \ pool') = 1 /\ Cardinality(pool) = PoolCap
  OBVIOUS
<1>1. Kept = pool
  BY DEF Kept
<1>2. pool' = (pool \ {e}) \cup {p} /\ p \notin pool /\ Cardinality(pool) = PoolCap
  BY <1>1, AppendEvicts
<1>3. pool \ pool' = {e}
  BY <1>2
<1> QED BY <1>2, <1>3, FS_Singleton

LEMMA AppendAdmits ==
  ASSUME IInv, PoolWithinCap, PoolWithinCap', NEW p \in Probes, Append(p)
  PROVE  Abstract!Admit(p)
<1> DEFINE gone == pool \ pool'
<1>1. pool \subseteq Appended /\ TypeOK /\ PoolTTL \in Nat
  BY ProbePoolAssumption DEF IInv, Sections, ProbePoolAssumption
<1>2. p \notin Appended /\ Appended' = Appended \cup {p} /\ pool' \subseteq pool \cup {p}
  BY <1>1, AppendAdds DEF Appended
<1>3. p \in pool'
  BY DEF Append, AppendPool
<1>4. p \notin pool \cup Dead
  BY <1>1, <1>2 DEF Dead
<1>5. gone \subseteq pool /\ Dead' = Dead \cup gone /\ pool' = (pool \ gone) \cup {p}
  BY <1>1, <1>2, <1>3 DEF Dead
<1>6. ~ (PoolTTL > 0) => gone = {} \/ (Cardinality(gone) = 1 /\ Cardinality(pool) = PoolCap)
  BY <1>1, AppendGivesUp
<1>7. Cardinality(pool') <= PoolCap
  BY DEF PoolWithinCap
<1> HIDE DEF gone
<1> QED BY <1>4, <1>5, <1>6, <1>7, DeadIsMapped, SameCardinality DEF Abstract!Admit, Abstract!Die

(* A batch of entries leaves the slice and none joins it.                  *)
LEMMA LeaversRetire ==
  ASSUME IInv, NEW gone \in SUBSET pool, pool' = pool \ gone, UNCHANGED Appended,
         Cardinality(gone) <= 1 \/ Cardinality(gone) <= MaxOwed
  PROVE  Abstract!Retire
<1>1. pool \subseteq Appended
  BY DEF IInv, Sections
<1>2. Dead' = Dead \cup gone
  BY <1>1 DEF Dead
<1>3. IsFiniteSet(gone) /\ Cardinality(gone) \in Nat
  <2>1. gone \in SUBSET Probes
    BY DEF IInv, TypeOK
  <2> QED BY <2>1, FiniteSize
<1>4. MaxOwed \in Nat
  BY MaxOwedNatural
<1>5. Cardinality(gone) <= (IF MaxOwed > 1 THEN MaxOwed ELSE 1)
  BY <1>3, <1>4
<1> QED BY <1>2, <1>5, DeadIsMapped, SameCardinality DEF Abstract!Retire, Abstract!Die

LEMMA IterationRetires ==
  ASSUME IInv, SectionIsCurrent, RemovalsLeft, NEW w \in Workers, NEW V,
         EndIteration(w, V), V \subseteq work, IsFiniteSet(V), Cardinality(V) <= 1,
         mutex = w, UNCHANGED Appended
  PROVE  Abstract!Retire \/ UNCHANGED pool
<1>1. CASE UNCHANGED pool
  BY <1>1
<1>2. CASE ~ UNCHANGED pool
  <2> DEFINE gone == (pool \ work) \cup V
  <2>1. pool' = work \ V
    BY <1>2 DEF EndIteration
  <2>2. work \subseteq pool /\ mutex # None /\ left \in Nat /\ pool \in SUBSET Probes
    BY ProbePoolAssumption DEF SectionIsCurrent, IInv, Sections, TypeOK, ProbePoolAssumption
  <2>3. gone \in SUBSET pool /\ pool' = pool \ gone
    BY <2>1, <2>2
  <2>4. IsFiniteSet(pool \ work) /\ Cardinality(pool \ work) \in Nat
    BY <2>2, FiniteSize
  <2>5. Cardinality(gone) = Cardinality(pool \ work) + Cardinality(V) - Cardinality({})
    <3>1. (pool \ work) \cap V = {}
      OBVIOUS
    <3> QED BY <2>4, <3>1, FS_Union
  <2>6. Cardinality(V) \in Nat /\ Cardinality({}) = 0
    BY FS_CardinalityType, FS_EmptySet
  <2>7. Cardinality(pool \ work) + left <= MaxOwed /\ left >= 1 /\ MaxOwed \in Nat
    BY <2>2, MaxOwedNatural DEF SectionIsCurrent, RemovalsLeft
  <2>8. Cardinality(gone) <= MaxOwed
    BY <2>2, <2>4, <2>5, <2>6, <2>7
  <2> HIDE DEF gone
  <2> QED BY <2>3, <2>8, LeaversRetire
<1> QED BY <1>1, <1>2

LEMMA StepRefines ==
  ASSUME IInv, PoolWithinCap, PoolWithinCap', SectionIsCurrent, RemovalsLeft, [Next]_vars
  PROVE  [Abstract!Next]_(Abstract!vars)
<1>1. CASE UNCHANGED <<pool, Appended>>
  <2>1. UNCHANGED Dead
    BY <1>1 DEF Dead
  <2> QED BY <1>1, <2>1, DeadIsMapped DEF Abstract!vars
<1>2. ASSUME NEW p \in Probes, Append(p)
      PROVE  Abstract!Next
  BY <1>2, AppendAdmits DEF Abstract!Next
<1>3. ASSUME NEW w \in Workers, RemoveOldest(w) \/ RemoveWorst(w)
      PROVE  Abstract!Next \/ UNCHANGED <<pool, Appended>>
  <2>1. PICK V : /\ EndIteration(w, V)
                 /\ V \subseteq work /\ IsFiniteSet(V) /\ Cardinality(V) <= 1
    BY <1>3, OneVictim
  <2>2. mutex = w /\ UNCHANGED Appended
    BY <1>3 DEF IInv, Sections, RemoveOldest, RemoveWorst, entryVars, Appended
  <2> QED BY <2>1, <2>2, IterationRetires DEF Abstract!Next
<1>4. ASSUME NEW w \in Workers, DropEntry(w)
      PROVE  Abstract!Next
  <2>1. pool' = pool \ (pool \cap {winner[w]}) /\ UNCHANGED Appended
    BY <1>4 DEF DropEntry, entryVars, Appended
  <2>2. Cardinality(pool \cap {winner[w]}) <= 1
    <3>1. Cardinality({}) = 0 /\ Cardinality({winner[w]}) = 1
      BY FS_EmptySet, FS_Singleton
    <3>2. pool \cap {winner[w]} = {} \/ pool \cap {winner[w]} = {winner[w]}
      OBVIOUS
    <3> QED BY <3>1, <3>2
  <2>3. Abstract!Retire
    BY <2>1, <2>2, LeaversRetire
  <2> QED BY <2>3 DEF Abstract!Next
<1>5. CASE /\ ~ \E p \in Probes : Append(p)
           /\ ~ \E w \in Workers : RemoveOldest(w) \/ RemoveWorst(w) \/ DropEntry(w)
  <2>1. CASE \E p \in Probes : Handler(p)
    <3>1. UNCHANGED pool /\ \A e \in Probes : stage'[e] \in {"pooled", "done"} <=> stage[e] \in {"pooled", "done"}
      BY <1>5, <2>1 DEF Handler, Receive, PublishSize, IInv, TypeOK
    <3> QED BY <1>1, <3>1 DEF Appended
  <2>2. CASE ~ \E p \in Probes : Handler(p)
    <3>1. UNCHANGED <<pool, stage>>
      BY <1>5, <2>2 DEF Next, Tick, vars, Request, BeginRequest, StartRemove, LoadRIF,
         ReadThreshold, Load, PickRandom, ReadRIF, Select, BumpRIF, ConsumeUse, entryVars
    <3> QED BY <1>1, <3>1 DEF Appended
  <2> QED BY <2>1, <2>2
<1> QED BY <1>1, <1>2, <1>3, <1>4, <1>5

(* ProbePool implements AbstractPool: under every interleaving of requests *)
(* and probe results, handleProbeResult, applyRRemove and consumeEntry     *)
(* together admit each entry once, let it die once, and give up entries    *)
(* only in batches no larger than what is owed or to make room.            *)
THEOREM PoolRefines == Spec => ImplementsAbstractPool
<1>1. Init => Abstract!Init
  BY DEF Init, Abstract!Init
<1>2. Spec => [][Abstract!Next]_(Abstract!vars)
  BY StepRefines, Inductive, PoolBounded, SectionStaysCurrent, SectionOwes, PTL DEF Spec
<1> QED BY <1>1, <1>2 DEF Spec, ImplementsAbstractPool, Abstract!Spec
=============================================================================
