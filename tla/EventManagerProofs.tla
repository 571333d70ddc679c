------------------------- MODULE EventManagerProofs -------------------------
(***************************************************************************)
(* Proofs about EventManager, for any number of tasks.                     *)
(*                                                                         *)
(* The invariant has two halves.  IInv is about the host thread: its stack *)
(* of calls and the iterator they share.  GraphOK is about the objects:    *)
(* who observes whom, who owns whom, and which notifications are still on  *)
(* their way; EventOK ties an event to the tasks that were joined into it. *)
(* The parts of the second half take the state as arguments, because the   *)
(* start of a task changes the graph twice in one step.                    *)
(***************************************************************************)
EXTENDS EventManager, FiniteSetTheorems, WellFoundedInduction, TLAPS

(* A set of naturals that is not empty has a least element: what Min and    *)
(* the searches of the code for the first free place return exists.         *)
LEMMA LeastNatural ==
  ASSUME NEW S \in SUBSET Nat, S # {}
  PROVE  \E m \in S : \A k \in S : m <= k
<1> DEFINE R == {p \in Nat \X Nat : p[1] < p[2]}
<1>1. IsWellFoundedOn(R, Nat)
  BY NatLessThanWellFounded DEF OpToRel
<1> HIDE DEF R
<1>2. PICK m \in S : \A k \in S : <<k, m>> \notin R
  BY <1>1, WFMin
<1>3. \A k \in S : ~(k < m)
  BY <1>2 DEF R
<1> QED
  BY <1>3

Objects ==
  [kind : {"none", "op", "chain", "poll", "and"},
   state : {"none", "run", "First", "Second", "Start", "Busy", "Finish"},
   operands : SUBSET Ids, observers : SUBSET Ids, owner : 0 .. MaxId]

(* Types of the graph: n the next id, o the objects, T the tasks, P the     *)
(* passive tasks.                                                           *)
GraphType(n, o, T, P) ==
  /\ n \in 1 .. MaxId + 1
  /\ o \in [Ids -> Objects]
  /\ T \subseteq 1 .. n - 1
  /\ P \subseteq 1 .. n - 1

(* Ids that were not given out have no object.                              *)
Unused(n, o) == \A i \in Ids : i >= n => o[i] = NoObject

(* Only a TaskLogicalAnd is passive.                                        *)
KindsOK(o, T, P) ==
  /\ \A i \in T : o[i].kind \in {"op", "chain", "poll"}
  /\ \A i \in P : o[i].kind = "and" /\ o[i].owner = Null

(* The observers of a registered task are ands that still count it.         *)
Watched(o, T, P) ==
  \A i \in T \cup P : \A q \in o[i].observers : q \in P /\ i \in o[q].operands

(* An and has operands left, older than itself; each is registered and will *)
(* notify it, or the notification is on its way (D).                        *)
OperandsOK(o, T, P, D) ==
  \A q \in P :
    /\ o[q].operands # {}
    /\ \A x \in o[q].operands :
         /\ x < q
         /\ (x \in T \cup P /\ q \in o[x].observers) \/ <<q, x>> \in D

InProgress(o, w) == o[w].kind = "chain" /\ o[w].state \in {"First", "Second"}

(* An operation with an owner is the one its chain is waiting for: there is *)
(* no other one, and none whose end is still to be notified.                *)
Owned(o, T, D) ==
  \A i \in T : o[i].owner # Null =>
    /\ o[i].kind = "op"
    /\ o[i].owner \in T
    /\ InProgress(o, o[i].owner)
    /\ \A j \in T : o[j].owner = o[i].owner => j = i
    /\ \A d \in D : d[1] # o[i].owner

(* A notification is about a task that is gone, and reaches an and that     *)
(* counts it or a chain that waits for nothing else.                        *)
Pending(n, o, T, P, D) ==
  \A d \in D :
    /\ d[2] \in 1 .. n - 1
    /\ d[2] \notin T \cup P
    /\ \/ d[1] \in P /\ d[2] \in o[d[1]].operands
       \/ d[1] \in T /\ InProgress(o, d[1]) /\ \A c \in D : c[1] = d[1] => c = d

GraphOK(n, o, T, P, D) ==
  /\ GraphType(n, o, T, P)
  /\ D \subseteq Ids \X Ids
  /\ Unused(n, o)
  /\ KindsOK(o, T, P)
  /\ Watched(o, T, P)
  /\ OperandsOK(o, T, P, D)
  /\ Owned(o, T, D)
  /\ Pending(n, o, T, P, D)

UpClosed(S, o) == \A x \in S : o[x].observers \subseteq S

DownClosed(W, o, P) == \A q \in W \cap P : o[q].operands \subseteq W

(* From every task that was joined into an event and is still registered, a *)
(* chain of observers leads to the task of the event; and what is reached   *)
(* from that over operands are tasks that were joined, and ands.            *)
EventOK(e, n, o, T, P) ==
  /\ e.id \in 0 .. n - 1
  /\ e.joined \subseteq 1 .. n - 1
  /\ \A t \in e.joined \cap T : \A S \in SUBSET Ids :
       t \in S /\ UpClosed(S, o) => e.id \in S
  /\ e.id \in T \cup P =>
       \E W \in SUBSET (1 .. n - 1) :
         e.id \in W /\ DownClosed(W, o, P) /\ W \cap T \subseteq e.joined

(* The invariant of the whole event system.                                 *)
Inv ==
  /\ IInv
  /\ GraphOK(nextId, obj, tasks, passive, pend)
  /\ EventOK(base, nextId, obj, tasks, passive)
  /\ EventOK(acc, nextId, obj, tasks, passive)
-----------------------------------------------------------------------------
(* How the graph may change without a change of what events mean.           *)
Grown(n, o, P, n2, o2, P2) ==
  /\ n2 \in Int /\ n <= n2
  /\ \A i \in Ids : o[i].observers \subseteq o2[i].observers
  /\ \A i \in 1 .. n - 1 : i \in P2 => i \in P
  /\ \A i \in P : o2[i].operands \subseteq o[i].operands

(* What an event means does not depend on which tasks have been created,    *)
(* deleted or notified since: observers are never taken away, operands      *)
(* never added, and no id is used again.                                    *)
LEMMA EventKept ==
  ASSUME NEW e, NEW n \in Int, NEW o, NEW T, NEW P,
         NEW n2, NEW o2, NEW T2, NEW P2,
         EventOK(e, n, o, T, P), Grown(n, o, P, n2, o2, P2),
         \A i \in 1 .. n - 1 : i \in T2 => i \in T,
         0 \notin T2 \cup P2
  PROVE  EventOK(e, n2, o2, T2, P2)
<1> USE DEF EventOK, Grown
<1>1. e.id \in 0 .. n2 - 1 /\ e.joined \subseteq 1 .. n2 - 1
  OBVIOUS
<1>2. ASSUME NEW t \in e.joined \cap T2, NEW S \in SUBSET Ids, t \in S, UpClosed(S, o2)
      PROVE  e.id \in S
  <2>1. t \in T
    OBVIOUS
  <2>2. UpClosed(S, o)
    BY <1>2 DEF UpClosed
  <2> QED
    BY <1>2, <2>1, <2>2
<1>3. ASSUME e.id \in T2 \cup P2
      PROVE  \E W \in SUBSET (1 .. n2 - 1) :
               e.id \in W /\ DownClosed(W, o2, P2) /\ W \cap T2 \subseteq e.joined
  <2>1. e.id \in T \cup P
    BY <1>3
  <2>2. PICK W \in SUBSET (1 .. n - 1) :
          e.id \in W /\ DownClosed(W, o, P) /\ W \cap T \subseteq e.joined
    BY <2>1
  <2>3. W \in SUBSET (1 .. n2 - 1)
    OBVIOUS
  <2>4. DownClosed(W, o2, P2)
    BY <2>2 DEF DownClosed
  <2>5. W \cap T2 \subseteq e.joined
    BY <2>2
  <2> QED
    BY <2>2, <2>3, <2>4, <2>5
<1> QED
  BY <1>1, <1>2, <1>3, Zenon

(* A new task: it observes nothing and nobody observes it.  If it belongs   *)
(* to a chain, the chain must be waiting for nothing else.                  *)
LEMMA Created ==
  ASSUME NEW n, NEW o, NEW T, NEW P, NEW D,
         GraphOK(n, o, T, P, D), n <= MaxId,
         NEW k \in {"op", "chain", "poll"}, NEW s \in {"run", "First", "Start"},
         NEW w \in 0 .. MaxId,
         w # Null => /\ k = "op" /\ w \in T /\ InProgress(o, w)
                     /\ \A j \in T : o[j].owner # w
                     /\ \A d \in D : d[1] # w
  PROVE  GraphOK(n + 1, [o EXCEPT ![n] = Task(k, s, w)], T \cup {n}, P, D)
<1> USE MaxIdAssumption DEF Ids, Null
<1> DEFINE o2 == [o EXCEPT ![n] = Task(k, s, w)]
<1> DEFINE T2 == T \cup {n}
<1>0. /\ GraphType(n, o, T, P) /\ D \subseteq Ids \X Ids /\ Unused(n, o) /\ KindsOK(o, T, P)
      /\ Watched(o, T, P) /\ OperandsOK(o, T, P, D) /\ Owned(o, T, D) /\ Pending(n, o, T, P, D)
  BY DEF GraphOK
<1>1. n \in Ids /\ n + 1 \in 1 .. MaxId + 1 /\ n \notin T \cup P /\ o \in [Ids -> Objects]
      /\ T \subseteq Ids /\ P \subseteq Ids
  BY <1>0 DEF GraphType
<1>2. Task(k, s, w) \in Objects /\ Task(k, s, w).observers = {} /\ Task(k, s, w).operands = {}
      /\ Task(k, s, w).owner = w /\ Task(k, s, w).kind = k /\ Task(k, s, w).state = s
  BY DEF Task, Objects
<1>3. o2[n] = Task(k, s, w) /\ (\A i \in Ids : i # n => o2[i] = o[i]) /\ o2 \in [Ids -> Objects]
  BY <1>1, <1>2
<1> HIDE DEF o2
<1>4. \A i \in T \cup P : o2[i] = o[i]
  BY <1>1, <1>3
<1>5. GraphType(n + 1, o2, T2, P)
  BY <1>0, <1>1, <1>3 DEF GraphType
<1>6. Unused(n + 1, o2)
  BY <1>0, <1>1, <1>3 DEF Unused, GraphType
<1>7. KindsOK(o2, T2, P)
  BY <1>0, <1>2, <1>3, <1>4 DEF KindsOK
<1>8. Watched(o2, T2, P)
  BY <1>0, <1>2, <1>3, <1>4 DEF Watched
<1>9. OperandsOK(o2, T2, P, D)
  BY <1>0, <1>2, <1>3, <1>4 DEF OperandsOK
<1>10. Owned(o2, T2, D)
  <2> SUFFICES ASSUME NEW i \in T2, o2[i].owner # Null
               PROVE  /\ o2[i].kind = "op"
                      /\ o2[i].owner \in T2
                      /\ InProgress(o2, o2[i].owner)
                      /\ \A j \in T2 : o2[j].owner = o2[i].owner => j = i
                      /\ \A d \in D : d[1] # o2[i].owner
    BY DEF Owned
  <2>1. CASE i = n
    BY <2>1, <1>2, <1>3, <1>4 DEF InProgress
  <2>2. CASE i \in T
    <3>1. o2[i] = o[i]
      BY <2>2, <1>4
    <3>2. /\ o[i].kind = "op" /\ o[i].owner \in T /\ InProgress(o, o[i].owner)
          /\ \A j \in T : o[j].owner = o[i].owner => j = i
          /\ \A d \in D : d[1] # o[i].owner
      BY <2>2, <3>1, <1>0 DEF Owned
    <3>3. InProgress(o2, o[i].owner)
      BY <3>2, <1>4 DEF InProgress
    <3>4. o2[n].owner # o[i].owner
      BY <1>2, <1>3, <3>1, <2>2
    <3> QED
      BY <3>1, <3>2, <3>3, <3>4, <1>4
  <2> QED
    BY <2>1, <2>2
<1>11. Pending(n + 1, o2, T2, P, D)
  <2> SUFFICES ASSUME NEW d \in D
               PROVE  /\ d[2] \in 1 .. n
                      /\ d[2] \notin T2 \cup P
                      /\ \/ d[1] \in P /\ d[2] \in o2[d[1]].operands
                         \/ d[1] \in T2 /\ InProgress(o2, d[1]) /\ \A c \in D : c[1] = d[1] => c = d
    BY <1>1 DEF Pending
  <2>1. d[2] \in 1 .. n - 1 /\ d[2] \notin T \cup P
    BY <1>0 DEF Pending
  <2>2. \/ d[1] \in P /\ d[2] \in o[d[1]].operands
        \/ d[1] \in T /\ InProgress(o, d[1]) /\ \A c \in D : c[1] = d[1] => c = d
    BY <1>0 DEF Pending
  <2>3. d[2] \in 1 .. n /\ d[2] # n
    BY <2>1, <1>1
  <2> QED
    BY <2>1, <2>2, <2>3, <1>4 DEF InProgress
<1> QED
  BY <1>0, <1>5, <1>6, <1>7, <1>8, <1>9, <1>10, <1>11 DEF GraphOK, o2

(* The objects after a TaskLogicalAnd n of the tasks a and b was created.   *)
AndOf(o, n, a, b) ==
  [o EXCEPT ![n] = [Task("and", "none", Null) EXCEPT !.operands = {a, b}],
            ![a] = [o[a] EXCEPT !.observers = @ \cup {n}],
            ![b] = [o[b] EXCEPT !.observers = @ \cup {n}]]

(* What the objects are then.                                               *)
LEMMA AndObjects ==
  ASSUME NEW n \in Ids, NEW o \in [Ids -> Objects], NEW a \in Ids, NEW b \in Ids,
         n # a, n # b, a # b,
         NEW o2, o2 = AndOf(o, n, a, b)
  PROVE
         /\ o2 \in [Ids -> Objects]
         /\ o2[n].kind = "and" /\ o2[n].owner = Null /\ o2[n].operands = {a, b}
         /\ o2[n].observers = {}
         /\ \A i \in Ids : i # n =>
              /\ o2[i].kind = o[i].kind /\ o2[i].state = o[i].state
              /\ o2[i].owner = o[i].owner /\ o2[i].operands = o[i].operands
         /\ \A i \in Ids : i \notin {n, a, b} => o2[i] = o[i]
         /\ o2[a].observers = o[a].observers \cup {n}
         /\ o2[b].observers = o[b].observers \cup {n}
<1> USE MaxIdAssumption DEF Ids, Null
<1> DEFINE x == [Task("and", "none", Null) EXCEPT !.operands = {a, b}]
           wa == [o[a] EXCEPT !.observers = @ \cup {n}]
           wb == [o[b] EXCEPT !.observers = @ \cup {n}]
<1>1. x \in Objects /\ x.kind = "and" /\ x.owner = Null /\ x.operands = {a, b} /\ x.observers = {}
  BY DEF Task, Objects
<1>2. ASSUME NEW c \in Ids, NEW y, y = [o[c] EXCEPT !.observers = @ \cup {n}]
      PROVE  /\ y \in Objects /\ y.kind = o[c].kind /\ y.state = o[c].state
             /\ y.owner = o[c].owner /\ y.operands = o[c].operands
             /\ y.observers = o[c].observers \cup {n}
  <2>1. o[c] \in Objects
    OBVIOUS
  <2> QED
    BY <1>2, <2>1 DEF Objects
<1>3. /\ wa \in Objects /\ wa.kind = o[a].kind /\ wa.state = o[a].state
      /\ wa.owner = o[a].owner /\ wa.operands = o[a].operands
      /\ wa.observers = o[a].observers \cup {n}
  BY <1>2
<1>4. /\ wb \in Objects /\ wb.kind = o[b].kind /\ wb.state = o[b].state
      /\ wb.owner = o[b].owner /\ wb.operands = o[b].operands
      /\ wb.observers = o[b].observers \cup {n}
  BY <1>2
<1>5. o2 = [o EXCEPT ![n] = x, ![a] = wa, ![b] = wb]
  BY DEF AndOf
<1> HIDE DEF x, wa, wb
<1>6. /\ o2 \in [Ids -> Objects] /\ o2[n] = x /\ o2[a] = wa /\ o2[b] = wb
      /\ \A i \in Ids : i \notin {n, a, b} => o2[i] = o[i]
  BY <1>1, <1>3, <1>4, <1>5
<1>7. ASSUME NEW i \in Ids, i # n
      PROVE  /\ o2[i].kind = o[i].kind /\ o2[i].state = o[i].state
             /\ o2[i].owner = o[i].owner /\ o2[i].operands = o[i].operands
  BY <1>3, <1>4, <1>6, <1>7
<1> QED
  BY <1>1, <1>3, <1>4, <1>6, <1>7

(* The id zero, of the event of no task, is never registered.               *)
LEMMA NoneIsNoTask ==
  ASSUME NEW n, NEW o, NEW T, NEW P, GraphType(n, o, T, P)
  PROVE  0 \notin T \cup P
BY DEF GraphType

(* A TaskLogicalAnd of two registered tasks.                                *)
LEMMA AndCreated ==
  ASSUME NEW n \in Int, NEW o, NEW T, NEW P, NEW D, D = {},
         GraphOK(n, o, T, P, D), n <= MaxId,
         NEW a, NEW b, a \in T \cup P, b \in T \cup P, a # b,
         NEW o2, o2 = AndOf(o, n, a, b)
  PROVE  GraphOK(n + 1, o2, T, P \cup {n}, D)
<1> USE MaxIdAssumption DEF Ids, Null
<1> DEFINE P2 == P \cup {n}
<1>0. /\ GraphType(n, o, T, P) /\ Unused(n, o) /\ KindsOK(o, T, P)
      /\ Watched(o, T, P) /\ OperandsOK(o, T, P, {}) /\ Owned(o, T, {})
  BY DEF GraphOK
<1>1. n \in Ids /\ n + 1 \in 1 .. MaxId + 1 /\ n \notin T \cup P /\ o \in [Ids -> Objects]
      /\ T \subseteq Ids /\ P \subseteq Ids /\ a \in Ids /\ b \in Ids /\ n # a /\ n # b
      /\ a < n /\ b < n
  BY <1>0 DEF GraphType
<1>2. /\ o2 \in [Ids -> Objects]
      /\ o2[n].kind = "and" /\ o2[n].owner = Null /\ o2[n].operands = {a, b}
      /\ o2[n].observers = {}
  BY <1>1, AndObjects
<1>3. \A i \in Ids : i # n =>
        /\ o2[i].kind = o[i].kind /\ o2[i].state = o[i].state
        /\ o2[i].owner = o[i].owner /\ o2[i].operands = o[i].operands
  BY <1>1, AndObjects
<1>4. /\ \A i \in Ids : i \notin {n, a, b} => o2[i] = o[i]
      /\ o2[a].observers = o[a].observers \cup {n}
      /\ o2[b].observers = o[b].observers \cup {n}
  <2>1. \A i \in Ids : i \notin {n, a, b} => o2[i] = o[i]
    BY <1>1, AndObjects
  <2>2. o2[a].observers = o[a].observers \cup {n}
    BY <1>1, AndObjects
  <2>3. o2[b].observers = o[b].observers \cup {n}
    BY <1>1, AndObjects
  <2> QED
    BY <2>1, <2>2, <2>3
<1>5. o[n].observers = {}
  BY <1>0, <1>1 DEF Unused, NoObject, GraphType
<1>6. \A i \in Ids : o[i].observers \subseteq o2[i].observers
                     /\ o2[i].observers \subseteq o[i].observers \cup {n}
                     /\ (n \in o2[i].observers => n \in o[i].observers \/ i \in {a, b})
  BY <1>2, <1>4, <1>5
<1>7. GraphType(n + 1, o2, T, P2)
  <2>1. T \subseteq 1 .. n - 1 /\ P \subseteq 1 .. n - 1
    BY <1>0 DEF GraphType
  <2>2. T \subseteq 1 .. (n + 1) - 1
    BY <2>1
  <2>3. P2 \subseteq 1 .. (n + 1) - 1
    BY <1>1, <2>1
  <2> QED
    BY <1>1, <1>2, <2>2, <2>3 DEF GraphType
<1>8. Unused(n + 1, o2)
  BY <1>0, <1>1, <1>4 DEF Unused, GraphType
<1>9. KindsOK(o2, T, P2)
  BY <1>0, <1>1, <1>2, <1>3, ZenonT(60) DEF KindsOK
<1>10. Watched(o2, T, P2)
  <2> SUFFICES ASSUME NEW i \in T \cup P2, NEW q \in o2[i].observers
               PROVE  q \in P2 /\ i \in o2[q].operands
    BY DEF Watched
  <2>1. i \in T \cup P
    BY <1>2
  <2>2. i \in Ids
    BY <2>1, <1>1
  <2>3. CASE q \in o[i].observers
    <3>1. q \in P /\ i \in o[q].operands
      BY <2>1, <2>3, <1>0 DEF Watched
    <3> QED
      BY <3>1, <1>1, <1>3
  <2>4. CASE q = n /\ i \in {a, b}
    BY <2>4, <1>2
  <2> QED
    BY <2>2, <2>3, <2>4, <1>6
<1>11. OperandsOK(o2, T, P2, {})
  <2> SUFFICES ASSUME NEW q \in P2
               PROVE  /\ o2[q].operands # {}
                      /\ \A x \in o2[q].operands :
                           /\ x < q
                           /\ (x \in T \cup P2 /\ q \in o2[x].observers) \/ <<q, x>> \in {}
    BY Zenon DEF OperandsOK
  <2>1. CASE q = n
    BY <2>1, <1>1, <1>2, <1>4
  <2>2. CASE q \in P
    <3>1. o2[q].operands = o[q].operands
      BY <2>2, <1>1, <1>3
    <3>2. o[q].operands # {}
          /\ \A x \in o[q].operands : x < q /\ x \in T \cup P /\ q \in o[x].observers
      BY <2>2, <1>0 DEF OperandsOK
    <3> QED
      BY <3>1, <3>2, <1>1, <1>6
  <2> QED
    BY <2>1, <2>2
<1>12. Owned(o2, T, {})
  <2>1. \A i \in T : o2[i].kind = o[i].kind /\ o2[i].state = o[i].state /\ o2[i].owner = o[i].owner
    BY <1>1, <1>3
  <2> QED
    BY <2>1, <1>0 DEF Owned, InProgress
<1>13. Pending(n + 1, o2, T, P2, {})
  BY DEF Pending
<1>14. GraphOK(n + 1, o2, T, P2, {})
  BY <1>7, <1>8, <1>9, <1>10, <1>11, <1>12, <1>13 DEF GraphOK
<1> QED
  BY <1>14

(* Whom the deletion of task i notifies.                                    *)
Told(o, i) == {<<q, i>> : q \in o[i].observers \cup ({o[i].owner} \ {Null})}

(* A task is deleted that is not a chain with an operation under way.       *)
LEMMA Removed ==
  ASSUME NEW n, NEW o, NEW T, NEW P,
         GraphOK(n, o, T, P, {}), NEW i \in T, ~InProgress(o, i)
  PROVE  GraphOK(n, o, T \ {i}, P, Told(o, i))
<1> USE MaxIdAssumption DEF Ids, Null
<1> DEFINE D2 == Told(o, i)
<1> DEFINE T2 == T \ {i}
<1>0. /\ GraphType(n, o, T, P) /\ Unused(n, o) /\ KindsOK(o, T, P)
      /\ Watched(o, T, P) /\ OperandsOK(o, T, P, {}) /\ Owned(o, T, {})
  BY DEF GraphOK
<1>1. n \in 1 .. MaxId + 1 /\ o \in [Ids -> Objects] /\ T \subseteq Ids /\ P \subseteq Ids
      /\ T \subseteq 1 .. n - 1 /\ P \subseteq 1 .. n - 1 /\ i \in Ids
  BY <1>0 DEF GraphType
<1>2. o[i].observers \subseteq Ids /\ o[i].owner \in 0 .. MaxId
  BY <1>1 DEF Objects
<1>3. \A d \in D2 : d = <<d[1], i>> /\ d[2] = i /\ d[1] \in Ids
                    /\ (d[1] \in o[i].observers \/ (d[1] = o[i].owner /\ d[1] # Null))
  BY <1>2 DEF Told
<1>4. \A q \in o[i].observers : <<q, i>> \in D2
  BY DEF Told
<1>5. D2 \subseteq Ids \X Ids
  BY <1>1, <1>2 DEF Told
<1>6. i \notin P
  BY <1>0 DEF KindsOK
<1> HIDE DEF D2
<1>7. GraphType(n, o, T2, P) /\ KindsOK(o, T2, P) /\ Watched(o, T2, P)
  BY <1>0 DEF GraphType, KindsOK, Watched
<1>8. OperandsOK(o, T2, P, D2)
  <2>1. \A q \in P : /\ o[q].operands # {}
                     /\ \A x \in o[q].operands : x < q /\ x \in T \cup P /\ q \in o[x].observers
    BY <1>0 DEF OperandsOK
  <2> QED
    BY <2>1, <1>4, <1>6 DEF OperandsOK
<1>9. Owned(o, T2, D2)
  <2> SUFFICES ASSUME NEW j \in T2, o[j].owner # Null
               PROVE  /\ o[j].kind = "op"
                      /\ o[j].owner \in T2
                      /\ InProgress(o, o[j].owner)
                      /\ \A k \in T2 : o[k].owner = o[j].owner => k = j
                      /\ \A d \in D2 : d[1] # o[j].owner
    BY DEF Owned
  <2>1. /\ o[j].kind = "op" /\ o[j].owner \in T /\ InProgress(o, o[j].owner)
        /\ \A k \in T : o[k].owner = o[j].owner => k = j
    BY <1>0 DEF Owned
  <2>2. o[j].owner # i
    BY <2>1
  <2>3. o[j].owner # o[i].owner
    BY <2>1
  <2>4. o[j].owner \notin o[i].observers
    BY <2>1, <1>0 DEF Watched, KindsOK, InProgress
  <2> QED
    BY <2>1, <2>2, <2>3, <2>4, <1>3
<1>10. Pending(n, o, T2, P, D2)
  <2> SUFFICES ASSUME NEW d \in D2
               PROVE  /\ d[2] \in 1 .. n - 1
                      /\ d[2] \notin T2 \cup P
                      /\ \/ d[1] \in P /\ d[2] \in o[d[1]].operands
                         \/ d[1] \in T2 /\ InProgress(o, d[1]) /\ \A c \in D2 : c[1] = d[1] => c = d
    BY DEF Pending
  <2>1. d[2] \in 1 .. n - 1 /\ d[2] \notin T2 \cup P
    BY <1>1, <1>3, <1>6
  <2>2. CASE d[1] \in o[i].observers
    BY <2>1, <2>2, <1>0, <1>3 DEF Watched
  <2>3. CASE d[1] = o[i].owner /\ d[1] # Null
    <3>1. d[1] \in T /\ InProgress(o, d[1])
      BY <2>3, <1>0 DEF Owned
    <3>2. \A c \in D2 : c[1] = d[1] => c = d
      BY <1>3
    <3> QED
      BY <2>1, <3>1, <3>2
  <2> QED
    BY <2>2, <2>3, <1>3
<1> QED
  BY <1>0, <1>5, <1>7, <1>8, <1>9, <1>10 DEF GraphOK, D2

SetState(o, w, s) == [o EXCEPT ![w].state = s]

SetOperands(o, w, left) == [o EXCEPT ![w].operands = left]

(* The passive tasks and the notifications after the and w was notified of  *)
(* d and has the operands left.                                             *)
PassiveAfter(P, w, left) == IF left = {} THEN P \ {w} ELSE P

PendAfter(o, D, d, w, left) ==
  (D \ {d}) \cup (IF left = {} THEN {<<q, w>> : q \in o[w].observers} ELSE {})

AfterAnd(n, o, T, o2, P2, D2) ==
  /\ GraphOK(n, o2, T, P2, D2)
  /\ \A i \in Ids : o2[i].observers = o[i].observers /\ o2[i].operands \subseteq o[i].operands
                    /\ o2[i].kind = o[i].kind /\ o2[i].state = o[i].state

(* TaskLogicalAnd::event.                                                   *)
LEMMA AndNotified ==
  ASSUME NEW n, NEW o, NEW T, NEW P, NEW D,
         GraphOK(n, o, T, P, D), NEW d \in D, o[d[1]].kind = "and",
         NEW w, w = d[1], NEW left, left = o[w].operands \ {d[2]},
         NEW o2, o2 = SetOperands(o, w, left),
         NEW P2, P2 = PassiveAfter(P, w, left),
         NEW D2, D2 = PendAfter(o, D, d, w, left)
  PROVE  AfterAnd(n, o, T, o2, P2, D2)
<1> USE MaxIdAssumption DEF Ids, Null, SetOperands, PassiveAfter, PendAfter
<1>0. /\ GraphType(n, o, T, P) /\ D \subseteq Ids \X Ids /\ Unused(n, o) /\ KindsOK(o, T, P)
      /\ Watched(o, T, P) /\ OperandsOK(o, T, P, D) /\ Owned(o, T, D) /\ Pending(n, o, T, P, D)
  BY DEF GraphOK
<1>1. n \in 1 .. MaxId + 1 /\ o \in [Ids -> Objects] /\ T \subseteq Ids /\ P \subseteq Ids
      /\ T \subseteq 1 .. n - 1 /\ P \subseteq 1 .. n - 1
  BY <1>0 DEF GraphType
<1>2. w \in P /\ d[2] \in o[w].operands /\ d[2] \notin T \cup P /\ w \in Ids
  BY <1>0, <1>1 DEF Pending, InProgress, KindsOK
<1>3. o[w] \in Objects /\ left \in SUBSET Ids /\ o[w].observers \subseteq Ids
  BY <1>1, <1>2 DEF Objects
<1>4. o2 \in [Ids -> Objects]
  <2>1. [o[w] EXCEPT !.operands = left] \in Objects
    BY <1>3 DEF Objects
  <2> QED
    BY <2>1, <1>1, <1>2
<1>5. /\ \A i \in Ids : i # w => o2[i] = o[i]
      /\ o2[w].operands = left /\ o2[w].observers = o[w].observers /\ o2[w].kind = o[w].kind
      /\ o2[w].owner = o[w].owner /\ o2[w].state = o[w].state
  BY <1>1, <1>2, <1>3 DEF Objects
<1>6. \A i \in Ids : /\ o2[i].observers = o[i].observers /\ o2[i].operands \subseteq o[i].operands
                     /\ o2[i].kind = o[i].kind /\ o2[i].state = o[i].state
                     /\ o2[i].owner = o[i].owner
  BY <1>5
<1>7. T \cap P = {}
  BY <1>0 DEF KindsOK
<1>8. GraphType(n, o2, T, P2)
  BY <1>0, <1>4 DEF GraphType
<1>9. Unused(n, o2)
  BY <1>0, <1>1, <1>2, <1>5 DEF Unused
<1>10. KindsOK(o2, T, P2)
  BY <1>0, <1>1, <1>6 DEF KindsOK
<1>11. \A i \in T \cup P : \A q \in o[i].observers : q \in P /\ i \in o[q].operands /\ i < q
  BY <1>0 DEF Watched, OperandsOK
<1>12. Watched(o2, T, P2)
  <2> SUFFICES ASSUME NEW i \in T \cup P2, NEW q \in o2[i].observers
               PROVE  q \in P2 /\ i \in o2[q].operands
    BY DEF Watched
  <2>1. i \in T \cup P /\ q \in o[i].observers
    BY <1>1, <1>6
  <2>2. q \in P /\ i \in o[q].operands
    BY <2>1, <1>11
  <2>3. i # d[2]
    BY <2>1, <1>2
  <2>4. i \in o2[q].operands
    BY <2>2, <2>3, <1>1, <1>5
  <2>5. q = w => left # {}
    BY <2>2, <2>3
  <2> QED
    BY <2>2, <2>4, <2>5
<1>13. OperandsOK(o2, T, P2, D2)
  <2> SUFFICES ASSUME NEW q \in P2
               PROVE  /\ o2[q].operands # {}
                      /\ \A x \in o2[q].operands :
                           /\ x < q
                           /\ (x \in T \cup P2 /\ q \in o2[x].observers) \/ <<q, x>> \in D2
    BY Zenon DEF OperandsOK
  <2>1. q \in P /\ q \in Ids
    BY <1>1
  <2>2. o2[q].operands # {}
    BY <2>1, <1>0, <1>5 DEF OperandsOK
  <2>3. ASSUME NEW x \in o2[q].operands
        PROVE  x < q /\ ((x \in T \cup P2 /\ q \in o2[x].observers) \/ <<q, x>> \in D2)
    <3>1. x \in o[q].operands
      BY <2>1, <1>6
    <3>2. x < q /\ ((x \in T \cup P /\ q \in o[x].observers) \/ <<q, x>> \in D)
      BY <2>1, <3>1, <1>0 DEF OperandsOK
    <3>3. CASE <<q, x>> \in D
      <4>1. <<q, x>> # d
        BY <1>5
      <4> QED
        BY <3>2, <3>3, <4>1
    <3>4. CASE x \in T \cup P /\ q \in o[x].observers
      <4>1. q \in o2[x].observers
        BY <3>4, <1>1, <1>6
      <4>2. CASE x \in T \cup P2
        BY <3>2, <4>1, <4>2
      <4>3. CASE x \notin T \cup P2
        <5>1. x = w /\ left = {}
          BY <3>4, <4>3
        <5> QED
          BY <5>1, <3>2, <3>4
      <4> QED
        BY <4>2, <4>3
    <3> QED
      BY <3>2, <3>3, <3>4
  <2> QED
    BY <2>2, <2>3
<1>14. \A c \in D2 : c \in D \/ (left = {} /\ c = <<c[1], w>> /\ c[2] = w /\ c[1] \in o[w].observers
                                 /\ c[1] \in P)
  BY <1>2, <1>11
<1>15. Owned(o2, T, D2)
  <2>1. \A i \in T : o2[i].kind = o[i].kind /\ o2[i].state = o[i].state /\ o2[i].owner = o[i].owner
    BY <1>1, <1>6
  <2>2. \A i \in T : o[i].owner # Null => o[i].owner \in T /\ o[i].owner \notin P
    BY <1>0, <1>7 DEF Owned
  <2> QED
    BY <2>1, <2>2, <1>0, <1>14 DEF Owned, InProgress
<1>16. Pending(n, o2, T, P2, D2)
  <2> SUFFICES ASSUME NEW c \in D2
               PROVE  /\ c[2] \in 1 .. n - 1
                      /\ c[2] \notin T \cup P2
                      /\ \/ c[1] \in P2 /\ c[2] \in o2[c[1]].operands
                         \/ c[1] \in T /\ InProgress(o2, c[1]) /\ \A b \in D2 : b[1] = c[1] => b = c
    BY DEF Pending
  <2>1. CASE c \in D /\ c # d
    <3>1. /\ c[2] \in 1 .. n - 1
          /\ c[2] \notin T \cup P
          /\ \/ c[1] \in P /\ c[2] \in o[c[1]].operands
             \/ c[1] \in T /\ InProgress(o, c[1]) /\ \A b \in D : b[1] = c[1] => b = c
      BY <2>1, <1>0 DEF Pending
    <3>2. CASE c[1] \in P /\ c[2] \in o[c[1]].operands
      <4>1. c = <<c[1], c[2]>> /\ d = <<d[1], d[2]>>
        BY <1>0, <2>1
      <4>2. c[1] = w => c[2] # d[2]
        BY <2>1, <4>1
      <4>3. c[2] \in o2[c[1]].operands
        BY <3>2, <4>2, <1>1, <1>5
      <4>4. c[1] \in P2
        BY <3>2, <4>2
      <4> QED
        BY <3>1, <4>3, <4>4
    <3>3. CASE c[1] \in T /\ InProgress(o, c[1]) /\ \A b \in D : b[1] = c[1] => b = c
      <4>1. InProgress(o2, c[1])
        BY <3>3, <1>1, <1>6 DEF InProgress
      <4>2. \A b \in D2 : b[1] = c[1] => b = c
        BY <3>3, <1>7, <1>14
      <4> QED
        BY <3>1, <3>3, <4>1, <4>2
    <3> QED
      BY <3>1, <3>2, <3>3
  <2>2. CASE left = {} /\ c = <<c[1], w>> /\ c[1] \in o[w].observers /\ c[2] = w
    <3>1. c[1] \in P /\ w \in o[c[1]].operands /\ w < c[1]
      BY <2>2, <1>2, <1>11
    <3>2. c[1] # w
      BY <3>1, <1>1, <1>2
    <3>3. c[1] \in P2 /\ w \in o2[c[1]].operands
      BY <3>1, <3>2, <1>1, <1>5
    <3>4. w \in 1 .. n - 1 /\ w \notin T \cup P2
      BY <2>2, <1>1, <1>2, <1>7
    <3> QED
      BY <2>2, <3>3, <3>4
  <2>3. c = d => c \in {<<q, w>> : q \in o[w].observers} /\ left = {}
    OBVIOUS
  <2> QED
    BY <2>1, <2>2, <2>3, <1>14
<1>17. D2 \subseteq Ids \X Ids
  BY <1>0, <1>2, <1>3
<1> QED
  BY <1>6, <1>8, <1>9, <1>10, <1>12, <1>13, <1>15, <1>16, <1>17 DEF GraphOK, AfterAnd

AfterChain(n, o, T, P, D, d, w, s, o2) ==
  /\ GraphOK(n, o2, T, P, D \ {d})
  /\ w \in T /\ o2[w].kind = "chain" /\ o2[w].state = s
  /\ \A j \in T : o2[j].owner # w
  /\ \A c \in D \ {d} : c[1] # w
  /\ \A i \in Ids : /\ o2[i].observers = o[i].observers /\ o2[i].operands = o[i].operands
                    /\ o2[i].kind = o[i].kind
                    /\ i # w => o2[i].state = o[i].state

(* event() of a chain that an operation notifies: nothing else is on its    *)
(* way to the chain, and none of its operations is left.                    *)
LEMMA ChainNotified ==
  ASSUME NEW n, NEW o, NEW T, NEW P, NEW D,
         GraphOK(n, o, T, P, D), NEW d \in D, o[d[1]].kind = "chain",
         NEW w, w = d[1], NEW s \in {"Second", "Finish"},
         NEW o2, o2 = SetState(o, w, s)
  PROVE  AfterChain(n, o, T, P, D, d, w, s, o2)
<1> USE MaxIdAssumption DEF Ids, Null, SetState
<1>0. /\ GraphType(n, o, T, P) /\ D \subseteq Ids \X Ids /\ Unused(n, o) /\ KindsOK(o, T, P)
      /\ Watched(o, T, P) /\ OperandsOK(o, T, P, D) /\ Owned(o, T, D) /\ Pending(n, o, T, P, D)
  BY DEF GraphOK
<1>1. n \in 1 .. MaxId + 1 /\ o \in [Ids -> Objects] /\ T \subseteq Ids /\ P \subseteq Ids
      /\ T \subseteq 1 .. n - 1 /\ P \subseteq 1 .. n - 1
  BY <1>0 DEF GraphType
<1>2. w \in T /\ w \in Ids /\ \A c \in D : c[1] = w => c = d
  BY <1>0, <1>1 DEF Pending, KindsOK
<1>3. o2 \in [Ids -> Objects]
  <2>1. [o[w] EXCEPT !.state = s] \in Objects
    BY <1>1, <1>2, SMTT(30) DEF Objects
  <2> QED
    BY <2>1, <1>1, <1>2
<1>4. /\ \A i \in Ids : i # w => o2[i] = o[i]
      /\ o2[w].operands = o[w].operands /\ o2[w].observers = o[w].observers
      /\ o2[w].kind = o[w].kind /\ o2[w].owner = o[w].owner /\ o2[w].state = s
  BY <1>1, <1>2 DEF Objects
<1>5. \A i \in Ids : /\ o2[i].observers = o[i].observers /\ o2[i].operands = o[i].operands
                     /\ o2[i].kind = o[i].kind /\ o2[i].owner = o[i].owner
                     /\ (i # w => o2[i].state = o[i].state)
  BY <1>4
<1>6. \A j \in T : o[j].owner # w
  BY <1>0, <1>1, <1>2 DEF Owned
<1>7. GraphType(n, o2, T, P) /\ Unused(n, o2) /\ KindsOK(o2, T, P) /\ Watched(o2, T, P)
  <2>1. GraphType(n, o2, T, P) /\ Unused(n, o2)
    BY <1>0, <1>1, <1>2, <1>3, <1>4 DEF GraphType, Unused
  <2>2. KindsOK(o2, T, P)
    BY <1>0, <1>1, <1>5 DEF KindsOK
  <2>3. Watched(o2, T, P)
    <3> SUFFICES ASSUME NEW i \in T \cup P, NEW q \in o2[i].observers
                 PROVE  q \in P /\ i \in o2[q].operands
      BY DEF Watched
    <3>1. q \in o[i].observers
      BY <1>1, <1>5
    <3>2. q \in P /\ i \in o[q].operands
      BY <3>1, <1>0 DEF Watched
    <3> QED
      BY <3>2, <1>1, <1>5
  <2> QED
    BY <2>1, <2>2, <2>3
<1>8. OperandsOK(o2, T, P, D \ {d})
  <2> SUFFICES ASSUME NEW q \in P
               PROVE  /\ o2[q].operands # {}
                      /\ \A x \in o2[q].operands :
                           /\ x < q
                           /\ (x \in T \cup P /\ q \in o2[x].observers) \/ <<q, x>> \in D \ {d}
    BY Zenon DEF OperandsOK
  <2>1. o2[q].operands = o[q].operands /\ q # w
    BY <1>0, <1>1, <1>5 DEF KindsOK
  <2>2. /\ o[q].operands # {}
        /\ \A x \in o[q].operands :
             x < q /\ ((x \in T \cup P /\ q \in o[x].observers) \/ <<q, x>> \in D)
    BY <1>0 DEF OperandsOK
  <2>3. \A x \in T \cup P : o2[x].observers = o[x].observers
    BY <1>1, <1>5
  <2> QED
    BY <2>1, <2>2, <2>3
<1>9. Owned(o2, T, D \ {d})
  <2>1. \A i \in T : o2[i].kind = o[i].kind /\ o2[i].owner = o[i].owner
                     /\ (i # w => o2[i].state = o[i].state)
    BY <1>1, <1>5
  <2> QED
    BY <2>1, <1>0, <1>6 DEF Owned, InProgress
<1>10. Pending(n, o2, T, P, D \ {d})
  <2> SUFFICES ASSUME NEW c \in D \ {d}
               PROVE  /\ c[2] \in 1 .. n - 1
                      /\ c[2] \notin T \cup P
                      /\ \/ c[1] \in P /\ c[2] \in o2[c[1]].operands
                         \/ c[1] \in T /\ InProgress(o2, c[1])
                            /\ \A b \in D \ {d} : b[1] = c[1] => b = c
    BY DEF Pending
  <2>1. /\ c[2] \in 1 .. n - 1
        /\ c[2] \notin T \cup P
        /\ \/ c[1] \in P /\ c[2] \in o[c[1]].operands
           \/ c[1] \in T /\ InProgress(o, c[1]) /\ \A b \in D : b[1] = c[1] => b = c
    BY <1>0 DEF Pending
  <2>2. c[1] # w
    BY <1>2
  <2> QED
    BY <2>1, <2>2, <1>1, <1>5 DEF InProgress
<1> QED
  BY <1>0, <1>2, <1>4, <1>5, <1>6, <1>7, <1>8, <1>9, <1>10 DEF GraphOK, AfterChain

(* The state of a polled task is nobody's concern.                          *)
LEMMA PollStateSet ==
  ASSUME NEW n, NEW o, NEW T, NEW P, NEW D,
         GraphOK(n, o, T, P, D), NEW w \in T, o[w].kind = "poll",
         NEW s \in {"Busy", "Finish"},
         NEW o2, o2 = SetState(o, w, s)
  PROVE  /\ GraphOK(n, o2, T, P, D)
         /\ o2[w].state = s
         /\ \A i \in Ids : /\ o2[i].observers = o[i].observers /\ o2[i].operands = o[i].operands
                           /\ o2[i].kind = o[i].kind
                           /\ i # w => o2[i].state = o[i].state
<1> USE MaxIdAssumption DEF Ids, Null, SetState
<1>0. /\ GraphType(n, o, T, P) /\ D \subseteq Ids \X Ids /\ Unused(n, o) /\ KindsOK(o, T, P)
      /\ Watched(o, T, P) /\ OperandsOK(o, T, P, D) /\ Owned(o, T, D) /\ Pending(n, o, T, P, D)
  BY DEF GraphOK
<1>1. n \in 1 .. MaxId + 1 /\ o \in [Ids -> Objects] /\ T \subseteq Ids /\ P \subseteq Ids
      /\ T \subseteq 1 .. n - 1 /\ P \subseteq 1 .. n - 1 /\ w \in Ids
  BY <1>0 DEF GraphType
<1>3. o2 \in [Ids -> Objects]
  <2>1. [o[w] EXCEPT !.state = s] \in Objects
    BY <1>1 DEF Objects
  <2> QED
    BY <2>1, <1>1
<1>4. /\ \A i \in Ids : i # w => o2[i] = o[i]
      /\ o2[w].operands = o[w].operands /\ o2[w].observers = o[w].observers
      /\ o2[w].kind = o[w].kind /\ o2[w].owner = o[w].owner /\ o2[w].state = s
  BY <1>1 DEF Objects
<1>5. \A i \in Ids : /\ o2[i].observers = o[i].observers /\ o2[i].operands = o[i].operands
                     /\ o2[i].kind = o[i].kind /\ o2[i].owner = o[i].owner
                     /\ (i # w => o2[i].state = o[i].state)
  BY <1>4
<1>6. \A i \in Ids : InProgress(o2, i) <=> InProgress(o, i)
  BY <1>4, <1>5 DEF InProgress
<1>7. GraphType(n, o2, T, P) /\ Unused(n, o2) /\ KindsOK(o2, T, P)
  <2>1. GraphType(n, o2, T, P) /\ Unused(n, o2)
    BY <1>0, <1>1, <1>3, <1>4 DEF GraphType, Unused
  <2>2. KindsOK(o2, T, P)
    BY <1>0, <1>1, <1>5 DEF KindsOK
  <2> QED
    BY <2>1, <2>2
<1>8. Watched(o2, T, P)
  <2> SUFFICES ASSUME NEW i \in T \cup P, NEW q \in o2[i].observers
               PROVE  q \in P /\ i \in o2[q].operands
    BY DEF Watched
  <2>1. q \in o[i].observers
    BY <1>1, <1>5
  <2>2. q \in P /\ i \in o[q].operands
    BY <2>1, <1>0 DEF Watched
  <2> QED
    BY <2>2, <1>1, <1>5
<1>9. OperandsOK(o2, T, P, D)
  <2>1. \A x \in T \cup P : o2[x].observers = o[x].observers /\ o2[x].operands = o[x].operands
    BY <1>1, <1>5
  <2> QED
    BY <2>1, <1>0 DEF OperandsOK
<1>10. Owned(o2, T, D)
  <2>1. \A i \in T : o2[i].kind = o[i].kind /\ o2[i].owner = o[i].owner
                     /\ (InProgress(o2, i) <=> InProgress(o, i))
    BY <1>1, <1>5, <1>6
  <2> SUFFICES ASSUME NEW i \in T, o2[i].owner # Null
               PROVE  /\ o2[i].kind = "op"
                      /\ o2[i].owner \in T
                      /\ InProgress(o2, o2[i].owner)
                      /\ \A j \in T : o2[j].owner = o2[i].owner => j = i
                      /\ \A d \in D : d[1] # o2[i].owner
    BY DEF Owned
  <2>2. o2[i].owner = o[i].owner
    BY <2>1
  <2>3. /\ o[i].kind = "op"
        /\ o[i].owner \in T
        /\ InProgress(o, o[i].owner)
        /\ \A j \in T : o[j].owner = o[i].owner => j = i
        /\ \A d \in D : d[1] # o[i].owner
    BY <2>2, <1>0 DEF Owned
  <2> QED
    BY <2>1, <2>2, <2>3
<1>11. Pending(n, o2, T, P, D)
  <2>1. \A x \in T \cup P : o2[x].operands = o[x].operands
                            /\ (InProgress(o2, x) <=> InProgress(o, x))
    BY <1>1, <1>5, <1>6
  <2> QED
    BY <2>1, <1>0 DEF Pending
<1> QED
  BY <1>0, <1>4, <1>5, <1>7, <1>8, <1>9, <1>10, <1>11 DEF GraphOK

(* The registered tasks are closed upwards: whoever observes one of them is *)
(* registered.                                                              *)
LEMMA LiveUpClosed ==
  ASSUME NEW n, NEW o, NEW T, NEW P, NEW D, GraphOK(n, o, T, P, D)
  PROVE  UpClosed(T \cup P, o) /\ T \cup P \in SUBSET Ids
BY MaxIdAssumption DEF GraphOK, GraphType, UpClosed, Watched, Ids

(* An event with an unfinished task in it is unfinished.                    *)
LEMMA JoinedKeepsEvent ==
  ASSUME NEW n, NEW o, NEW T, NEW P, NEW D, GraphOK(n, o, T, P, D),
         NEW e, EventOK(e, n, o, T, P), NEW t \in e.joined \cap T
  PROVE  e.id \in T \cup P
<1>1. UpClosed(T \cup P, o) /\ T \cup P \in SUBSET Ids
  BY LiveUpClosed
<1>2. PICK S \in SUBSET Ids : S = T \cup P
  BY <1>1
<1> QED
  BY <1>1, <1>2 DEF EventOK

(* Once all notifications are delivered, an unfinished event has an         *)
(* unfinished task in it: the oldest registered one below the event is no   *)
(* and, for the operands of an and are older and registered.                *)
LEMMA EventKeepsJoined ==
  ASSUME NEW n, NEW o, NEW T, NEW P, GraphOK(n, o, T, P, {}),
         NEW e, EventOK(e, n, o, T, P), e.id \in T \cup P
  PROVE  e.joined \cap T # {}
<1>1. PICK W \in SUBSET (1 .. n - 1) :
        e.id \in W /\ DownClosed(W, o, P) /\ W \cap T \subseteq e.joined
  BY DEF EventOK
<1> DEFINE L == W \cap (T \cup P)
<1>2. L \subseteq Nat /\ L # {}
  BY <1>1
<1>3. PICK m \in L : \A x \in L : m <= x
  BY <1>2, LeastNatural
<1>4. m \notin P
  <2> SUFFICES ASSUME m \in P PROVE FALSE
    OBVIOUS
  <2>1. PICK x \in o[m].operands : x < m /\ x \in T \cup P
    BY DEF GraphOK, OperandsOK
  <2>2. x \in W
    BY <1>1 DEF DownClosed
  <2>3. x \in L /\ m \in Nat /\ x \in Nat
    BY <2>1, <2>2, <1>2
  <2> QED
    BY <2>1, <2>3, <1>3
<1> QED
  BY <1>1, <1>4

(* Two events whose tasks are the same.                                     *)
LEMMA JoinSame ==
  ASSUME NEW n, NEW o, NEW T, NEW P,
         NEW e, EventOK(e, n, o, T, P), NEW f, EventOK(f, n, o, T, P), e.id = f.id,
         NEW g, g.id = e.id, g.joined = e.joined \cup f.joined
  PROVE  EventOK(g, n, o, T, P)
<1> USE DEF EventOK
<1>1. \A t \in g.joined \cap T : \A S \in SUBSET Ids : t \in S /\ UpClosed(S, o) => g.id \in S
  OBVIOUS
<1>2. ASSUME g.id \in T \cup P
      PROVE  \E W \in SUBSET (1 .. n - 1) :
               g.id \in W /\ DownClosed(W, o, P) /\ W \cap T \subseteq g.joined
  BY <1>2
<1> QED
  BY <1>1, <1>2

(* An event f that takes the place of a finished one.                       *)
LEMMA JoinFinished ==
  ASSUME NEW n, NEW o, NEW T, NEW P, NEW D, GraphOK(n, o, T, P, D),
         NEW e, EventOK(e, n, o, T, P), NEW f, EventOK(f, n, o, T, P), e.id \notin T \cup P,
         NEW g, g.id = f.id, g.joined = e.joined \cup f.joined
  PROVE  EventOK(g, n, o, T, P)
<1>1. e.joined \cap T = {}
  BY JoinedKeepsEvent
<1> USE DEF EventOK
<1>2. \A t \in g.joined \cap T : \A S \in SUBSET Ids : t \in S /\ UpClosed(S, o) => g.id \in S
  BY <1>1
<1>3. ASSUME g.id \in T \cup P
      PROVE  \E W \in SUBSET (1 .. n - 1) :
               g.id \in W /\ DownClosed(W, o, P) /\ W \cap T \subseteq g.joined
  BY <1>3
<1> QED
  BY <1>2, <1>3

(* The event of a TaskLogicalAnd of two unfinished events.                  *)
LEMMA JoinUnfinished ==
  ASSUME NEW n, NEW o, NEW T, NEW P, NEW D, D = {}, GraphOK(n, o, T, P, D), n <= MaxId,
         NEW e, EventOK(e, n, o, T, P), NEW f, EventOK(f, n, o, T, P),
         e.id \in T \cup P, f.id \in T \cup P, e.id # f.id,
         NEW o2, o2 = AndOf(o, n, e.id, f.id),
         NEW g, g.id = n, g.joined = e.joined \cup f.joined
  PROVE  EventOK(g, n + 1, o2, T, P \cup {n})
<1> USE MaxIdAssumption
<1>0. n \in 1 .. MaxId + 1 /\ T \subseteq 1 .. n - 1 /\ P \subseteq 1 .. n - 1
  BY DEF GraphOK, GraphType
<1>1. /\ n \in Ids /\ n \notin T \cup P
      /\ \A i \in Ids : o[i].observers \subseteq o2[i].observers
      /\ \A i \in P : o2[i].operands = o[i].operands
      /\ o2[n].operands = {e.id, f.id}
      /\ n \in o2[e.id].observers /\ n \in o2[f.id].observers
  <2>1. PICK a, b : a = e.id /\ b = f.id
    OBVIOUS
  <2>2. a \in T \cup P /\ b \in T \cup P /\ a # b /\ o2 = AndOf(o, n, a, b)
    BY <2>1
  <2>3. n \in Ids /\ n \notin T \cup P /\ a \in Ids /\ b \in Ids /\ n # a /\ n # b
        /\ o \in [Ids -> Objects] /\ P \subseteq Ids
    BY <1>0, <2>2 DEF Ids, GraphOK, GraphType
  <2>4. o[n].observers = {}
    BY <1>0, <2>3 DEF GraphOK, Unused, NoObject
  <2>5. /\ o2[n].operands = {a, b} /\ o2[n].observers = {}
        /\ o2[a].observers = o[a].observers \cup {n}
        /\ o2[b].observers = o[b].observers \cup {n}
        /\ \A i \in Ids : i # n => o2[i].operands = o[i].operands
        /\ \A i \in Ids : i \notin {n, a, b} => o2[i] = o[i]
    BY <2>2, <2>3, AndObjects
  <2>6. \A i \in Ids : o[i].observers \subseteq o2[i].observers
    BY <2>4, <2>5
  <2>7. \A i \in P : o2[i].operands = o[i].operands
    BY <2>3, <2>5
  <2> QED
    BY <2>1, <2>3, <2>5, <2>6, <2>7
<1>2. ASSUME NEW t \in g.joined \cap T, NEW S \in SUBSET Ids, t \in S, UpClosed(S, o2)
      PROVE  g.id \in S
  <2>1. UpClosed(S, o)
    BY <1>1, <1>2 DEF UpClosed
  <2>2. e.id \in S \/ f.id \in S
    BY <1>2, <2>1 DEF EventOK
  <2> QED
    BY <1>1, <1>2, <2>2 DEF UpClosed
<1>3. \E W \in SUBSET (1 .. n) :
        g.id \in W /\ DownClosed(W, o2, P \cup {n}) /\ W \cap T \subseteq g.joined
  <2>1. PICK We \in SUBSET (1 .. n - 1) :
          e.id \in We /\ DownClosed(We, o, P) /\ We \cap T \subseteq e.joined
    BY DEF EventOK
  <2>2. PICK Wf \in SUBSET (1 .. n - 1) :
          f.id \in Wf /\ DownClosed(Wf, o, P) /\ Wf \cap T \subseteq f.joined
    BY DEF EventOK
  <2> DEFINE W == We \cup Wf \cup {n}
  <2>3. W \in SUBSET (1 .. n)
    <3>1. n \in 1 .. n /\ \A x \in 1 .. n - 1 : x \in 1 .. n
      BY <1>0
    <3> QED
      BY <3>1
  <2>4. DownClosed(W, o2, P \cup {n})
    <3> SUFFICES ASSUME NEW q \in W \cap (P \cup {n})
                 PROVE  o2[q].operands \subseteq W
      BY DEF DownClosed
    <3>1. CASE q = n
      BY <3>1, <1>1, <2>1, <2>2
    <3>2. CASE q # n
      <4>1. q \in P /\ (q \in We \/ q \in Wf)
        BY <3>2
      <4> QED
        BY <4>1, <1>1, <2>1, <2>2 DEF DownClosed
    <3> QED
      BY <3>1, <3>2
  <2>5. W \cap T \subseteq g.joined
    BY <2>1, <2>2, <1>1
  <2> QED
    BY <2>3, <2>4, <2>5
<1>4. g.id \in 0 .. n /\ g.joined \subseteq 1 .. n
  BY <1>0 DEF EventOK
<1>5. (n + 1) - 1 = n
  BY <1>0
<1> QED
  BY <1>2, <1>3, <1>4, <1>5 DEF EventOK

(* EventTask::operator+=: the event it leaves stands for all tasks of both. *)
LEMMA Assigned ==
  ASSUME NEW n \in Int, NEW o, NEW T, NEW P, GraphOK(n, o, T, P, {}), n <= MaxId,
         NEW e \in Events, EventOK(e, n, o, T, P), NEW f \in Events, EventOK(f, n, o, T, P),
         NEW live, live = T \cup P,
         NEW s, s = [event |-> e, obj |-> o, passive |-> P, nextId |-> n],
         NEW r, r = PlusAssign(e, f, live, s)
  PROVE  /\ GraphOK(r.nextId, r.obj, T, r.passive, {})
         /\ EventOK(r.event, r.nextId, r.obj, T, r.passive)
         /\ r.event \in Events
         /\ Grown(n, o, P, r.nextId, r.obj, r.passive)
<1> USE MaxIdAssumption
<1>0. /\ GraphType(n, o, T, P) /\ Unused(n, o)
  BY DEF GraphOK
<1>1. PICK g : g = [id |-> IF e.id \in live THEN e.id ELSE f.id, joined |-> e.joined \cup f.joined]
  OBVIOUS
<1>2. g.id = (IF e.id \in live THEN e.id ELSE f.id) /\ g.joined = e.joined \cup f.joined
  BY <1>1
<1>3. /\ e.id \in 0 .. MaxId /\ e.joined \in SUBSET Ids
      /\ f.id \in 0 .. MaxId /\ f.joined \in SUBSET Ids
  BY DEF Events
<1>4. ASSUME NEW h, r = [s EXCEPT !.event = h], EventOK(h, n, o, T, P), h \in Events
      PROVE  /\ GraphOK(r.nextId, r.obj, T, r.passive, {})
             /\ EventOK(r.event, r.nextId, r.obj, T, r.passive)
             /\ r.event \in Events
             /\ Grown(n, o, P, r.nextId, r.obj, r.passive)
  <2>1. r.nextId = n /\ r.obj = o /\ r.passive = P /\ r.event = h
    BY <1>4
  <2>2. Grown(n, o, P, n, o, P)
    BY DEF Grown
  <2> QED
    BY <1>4, <2>1, <2>2
<1>5. CASE e.id = f.id
  <2>1. PICK h : h = [id |-> e.id, joined |-> e.joined \cup f.joined]
    OBVIOUS
  <2>2. r = [s EXCEPT !.event = h]
    BY <1>5, <2>1, Zenon DEF PlusAssign
  <2>3. h.id = e.id /\ h.joined = e.joined \cup f.joined
    BY <2>1
  <2>4. EventOK(h, n, o, T, P)
    BY <1>5, <2>3, JoinSame
  <2>5. h \in Events
    BY <2>1, <1>3 DEF Events
  <2> QED
    BY <1>4, <2>2, <2>4, <2>5
<1>6. CASE e.id # f.id /\ e.id \notin live
  <2>1. PICK h : h = [id |-> f.id, joined |-> e.joined \cup f.joined]
    OBVIOUS
  <2>2. r = [s EXCEPT !.event = h]
    BY <1>6, <2>1, Zenon DEF PlusAssign
  <2>3. h.id = f.id /\ h.joined = e.joined \cup f.joined
    BY <2>1
  <2>4. e.id \notin T \cup P
    BY <1>6
  <2>5. EventOK(h, n, o, T, P)
    BY <2>3, <2>4, JoinFinished
  <2>6. h \in Events
    BY <2>1, <1>3 DEF Events
  <2> QED
    BY <1>4, <2>2, <2>5, <2>6
<1>7. CASE e.id \in live /\ e.id # f.id /\ f.id \notin live
  <2>1. PICK h : h = [id |-> e.id, joined |-> e.joined \cup f.joined]
    OBVIOUS
  <2>2. r = [s EXCEPT !.event = h]
    BY <1>7, <2>1, Zenon DEF PlusAssign
  <2>3. h.id = e.id /\ h.joined = f.joined \cup e.joined
    BY <2>1
  <2>4. f.id \notin T \cup P
    BY <1>7
  <2>5. EventOK(h, n, o, T, P)
    BY <2>3, <2>4, JoinFinished
  <2>6. h \in Events
    BY <2>1, <1>3 DEF Events
  <2> QED
    BY <1>4, <2>2, <2>5, <2>6
<1>8. CASE e.id \in live /\ f.id \in live /\ e.id # f.id
  <2>1. PICK h : h = [id |-> n, joined |-> e.joined \cup f.joined]
    OBVIOUS
  <2>2. PICK o2 : o2 = AndOf(o, n, e.id, f.id)
    OBVIOUS
  <2>3. s.obj = o /\ s.passive = P /\ s.nextId = n
    OBVIOUS
  <2>4. r = [event |-> h, obj |-> o2, passive |-> P \cup {n}, nextId |-> n + 1]
    <3>1. r = [event |-> [id |-> s.nextId, joined |-> e.joined \cup f.joined],
               obj |-> [s.obj EXCEPT
                          ![s.nextId] = [Task("and", "none", Null) EXCEPT !.operands = {e.id, f.id}],
                          ![e.id] = [s.obj[e.id] EXCEPT !.observers = @ \cup {s.nextId}],
                          ![f.id] = [s.obj[f.id] EXCEPT !.observers = @ \cup {s.nextId}]],
               passive |-> s.passive \cup {s.nextId},
               nextId |-> s.nextId + 1]
      BY <1>8, Zenon DEF PlusAssign
    <3> QED
      BY <3>1, <2>1, <2>2, <2>3, Zenon DEF AndOf
  <2>5. r.event = h /\ r.obj = o2 /\ r.passive = P \cup {n} /\ r.nextId = n + 1
    <3>1. PICK P2, n2 : P2 = P \cup {n} /\ n2 = n + 1
      OBVIOUS
    <3>2. r = [event |-> h, obj |-> o2, passive |-> P2, nextId |-> n2]
      BY <2>4, <3>1, Zenon
    <3>3. r.event = h /\ r.obj = o2 /\ r.passive = P2 /\ r.nextId = n2
      BY <3>2
    <3> QED
      BY <3>1, <3>3, Zenon
  <2>6. h.id = n /\ h.joined = e.joined \cup f.joined
    BY <2>1
  <2>7. e.id \in T \cup P /\ f.id \in T \cup P
    BY <1>8
  <2>8. EventOK(h, n + 1, o2, T, P \cup {n})
    BY <1>8, <2>2, <2>6, <2>7, JoinUnfinished
  <2>9. GraphOK(n + 1, o2, T, P \cup {n}, {})
    BY <1>8, <2>2, <2>7, AndCreated, Zenon
  <2>10. h \in Events
    BY <2>1, <1>0, <1>3 DEF Events, GraphType
  <2>11. Grown(n, o, P, n + 1, o2, P \cup {n})
    <3>1. PICK a, b : a = e.id /\ b = f.id
      OBVIOUS
    <3>2. n \in Ids /\ n \notin T \cup P /\ a \in Ids /\ b \in Ids /\ n # a /\ n # b /\ a # b
          /\ o \in [Ids -> Objects] /\ P \subseteq Ids /\ o2 = AndOf(o, n, a, b)
      <4>1. o2 = AndOf(o, n, a, b)
        BY <2>2, <3>1
      <4>2. a \in T \cup P /\ b \in T \cup P /\ a # b
        BY <1>8, <2>7, <3>1
      <4>3. n \in Ids /\ n \notin T \cup P /\ o \in [Ids -> Objects] /\ P \subseteq Ids
            /\ T \subseteq Ids
        BY <1>0 DEF Ids, GraphType
      <4> QED
        BY <4>1, <4>2, <4>3
    <3>3. /\ o2[n].observers = {}
          /\ o2[a].observers = o[a].observers \cup {n}
          /\ o2[b].observers = o[b].observers \cup {n}
          /\ \A i \in Ids : i # n => o2[i].operands = o[i].operands
          /\ \A i \in Ids : i \notin {n, a, b} => o2[i] = o[i]
      BY <3>2, AndObjects
    <3>4. o[n].observers = {}
      BY <1>0, <3>2 DEF Unused, NoObject
    <3>5. \A i \in Ids : o[i].observers \subseteq o2[i].observers
      BY <3>3, <3>4
    <3>6. \A i \in P : o2[i].operands \subseteq o[i].operands
      BY <3>2, <3>3
    <3> QED
      BY <3>5, <3>6 DEF Grown
  <2> QED
    BY <2>5, <2>8, <2>9, <2>10, <2>11
<1> QED
  BY <1>5, <1>6, <1>7, <1>8

-----------------------------------------------------------------------------
(* The element of the map after i is a task with a larger id.               *)
LEMMA AfterIn ==
  ASSUME tasks \subseteq Nat, NEW i \in Nat
  PROVE  After(i) \in tasks \cup {Null} /\ (After(i) \in tasks => After(i) > i \/ After(i) = Null)
<1>1. CASE \E j \in tasks : j > i
  <2> DEFINE L == {j \in tasks : j > i}
  <2>1. PICK m \in L : \A x \in L : m <= x
    <3>1. L \subseteq Nat /\ L # {}
      BY <1>1
    <3> QED
      BY <3>1, LeastNatural
  <2>2. \E j \in tasks : j > i /\ \A k \in tasks : k > i => j <= k
    BY <2>1
  <2>3. After(i) = CHOOSE j \in tasks : j > i /\ \A k \in tasks : k > i => j <= k
    BY <1>1 DEF After
  <2>4. After(i) \in tasks /\ After(i) > i
    BY <2>2, <2>3
  <2> QED
    BY <2>4
<1>2. CASE ~\E j \in tasks : j > i
  BY <1>2 DEF After
<1> QED
  BY <1>1, <1>2

(* An id that was given out, or none, is within the bound.                  *)
LEMMA IdBound ==
  ASSUME NEW n \in 1 .. MaxId + 1, NEW T, T \subseteq 1 .. n - 1, NEW i, i \in T \/ i = 0
  PROVE  i \in 0 .. MaxId
<1>1. MaxId \in Nat /\ n \in Int /\ 1 <= n /\ n <= MaxId + 1
  BY MaxIdAssumption
<1>2. ASSUME NEW x \in 1 .. n - 1
      PROVE  x \in 0 .. MaxId
  BY <1>1
<1>3. 0 \in 0 .. MaxId
  BY <1>1
<1> QED
  BY <1>2, <1>3

(* Ids below n are below m, and none is zero.                               *)
LEMMA IdsBelow ==
  ASSUME NEW n \in Int, NEW m \in Int, n <= m, NEW S, S \subseteq 1 .. n - 1
  PROVE  S \subseteq 1 .. m - 1 /\ 0 \notin S
<1>1. \A x \in 1 .. n - 1 : x \in 1 .. m - 1 /\ x # 0
  OBVIOUS
<1> QED
  BY <1>1

(* The invariant after a step, from its parts.                              *)
LEMMA Rebuilt ==
  ASSUME GraphOK(nextId', obj', tasks', passive', pend'),
         EventOK(base', nextId', obj', tasks', passive'), base' \in Events,
         EventOK(acc', nextId', obj', tasks', passive'), acc' \in Events,
         ended' \subseteq 1 .. nextId' - 1,
         IteratorValid', stack' \in Seq(Frames),
         CallsNested', IteratorSettled', RunningBusy'
  PROVE  Inv'
<1> USE MaxIdAssumption
<1>1. GraphType(nextId', obj', tasks', passive') /\ pend' \subseteq Ids \X Ids
  BY DEF GraphOK
<1>2. iter' \in 0 .. MaxId
  <2>1. nextId' \in 1 .. MaxId + 1 /\ tasks' \subseteq 1 .. nextId' - 1
    BY <1>1 DEF GraphType
  <2>2. iter' \in tasks' \/ iter' = 0
    BY DEF IteratorValid, Null
  <2> QED
    BY <2>1, <2>2, IdBound
<1>3. TypeOK'
  BY <1>1, <1>2 DEF TypeOK, GraphType, Objects
<1> QED
  BY <1>3 DEF Inv, IInv

(* The parts of the invariant, as the proofs of the steps use them.         *)
LEMMA Parts ==
  ASSUME Inv
  PROVE  /\ GraphOK(nextId, obj, tasks, passive, pend)
         /\ EventOK(base, nextId, obj, tasks, passive) /\ base \in Events
         /\ EventOK(acc, nextId, obj, tasks, passive) /\ acc \in Events
         /\ ended \subseteq 1 .. nextId - 1
         /\ IteratorValid /\ stack \in Seq(Frames)
         /\ CallsNested /\ IteratorSettled /\ RunningBusy
         /\ nextId \in 1 .. MaxId + 1 /\ obj \in [Ids -> Objects]
         /\ tasks \subseteq 1 .. nextId - 1 /\ passive \subseteq 1 .. nextId - 1
         /\ tasks \subseteq Ids /\ tasks \subseteq Nat /\ passive \subseteq Ids /\ 0 \notin tasks \cup passive
         /\ iter \in Nat
BY MaxIdAssumption DEF Inv, IInv, TypeOK, Objects, Ids

(* A call returns, or several do: what is left of the stack is as it was.   *)
LEMMA Returned ==
  ASSUME stack \in Seq(Frames), CallsNested, RunningBusy,
         NEW m \in Nat, m <= Len(stack), stack' = SubSeq(stack, 1, m),
         \A d \in 1 .. m : stack[d].call = "task" =>
           stack[d].id \in tasks' /\ obj'[stack[d].id].kind = "poll"
             /\ obj'[stack[d].id].state = "Busy"
  PROVE  /\ stack' \in Seq(Frames) /\ CallsNested' /\ RunningBusy'
         /\ Len(stack') = m /\ \A d \in 1 .. m : stack'[d] = stack[d]
<1>0. Len(stack) \in Nat
  OBVIOUS
<1>1. stack' \in Seq(Frames) /\ Len(stack') = m /\ \A d \in 1 .. m : stack'[d] = stack[d]
  BY <1>0
<1>2. CallsNested'
  <2> SUFFICES ASSUME NEW d \in 1 .. Len(stack')
               PROVE  /\ stack'[d].call = "execute" => d > 1 /\ stack'[d - 1].call \in {"wait", "waitAll"}
                      /\ stack'[d].call = "task" => d > 1 /\ stack'[d - 1].call = "execute"
                      /\ stack'[d].call = "wait" => d = 1 \/ stack'[d - 1].call = "task"
                      /\ stack'[d].call = "waitAll" => d = 1
    BY DEF CallsNested
  <2>1. d \in 1 .. Len(stack) /\ stack'[d] = stack[d]
    BY <1>0, <1>1
  <2>2. d > 1 => stack'[d - 1] = stack[d - 1]
    BY <1>0, <1>1
  <2>3. /\ stack[d].call = "execute" => d > 1 /\ stack[d - 1].call \in {"wait", "waitAll"}
        /\ stack[d].call = "task" => d > 1 /\ stack[d - 1].call = "execute"
        /\ stack[d].call = "wait" => d = 1 \/ stack[d - 1].call = "task"
        /\ stack[d].call = "waitAll" => d = 1
    BY <2>1 DEF CallsNested
  <2>4. d = 1 \/ d > 1
    BY <1>1
  <2> QED
    BY <2>1, <2>2, <2>3, <2>4
<1>3. RunningBusy'
  <2>1. 1 .. m \subseteq 1 .. Len(stack)
    BY <1>0
  <2> QED
    BY <1>1, <2>1, SMTT(30) DEF RunningBusy
<1> QED
  BY <1>1, <1>2, <1>3

(* The stack is left alone.                                                 *)
LEMMA StackKept ==
  ASSUME stack \in Seq(Frames), CallsNested, RunningBusy, stack' = stack,
         \A d \in 1 .. Len(stack) : stack[d].call = "task" =>
           stack[d].id \in tasks' /\ obj'[stack[d].id].kind = "poll"
             /\ obj'[stack[d].id].state = "Busy"
  PROVE  stack' \in Seq(Frames) /\ CallsNested' /\ RunningBusy'
BY DEF CallsNested, RunningBusy

(* Outside the event system the stack parts of the invariant say nothing,   *)
(* and the iterator is at the end.                                          *)
LEMMA IdleParts ==
  ASSUME Inv, Idle
  PROVE  /\ iter = Null /\ stack = <<>> /\ pend = {}
         /\ (UNCHANGED <<iter, stack>> =>
               IteratorValid' /\ stack' \in Seq(Frames) /\ CallsNested' /\ IteratorSettled'
                 /\ RunningBusy')
<1>1. iter = Null /\ stack = <<>> /\ pend = {}
  BY Parts DEF Idle, IteratorSettled
<1>2. ASSUME UNCHANGED <<iter, stack>>
      PROVE  IteratorValid' /\ stack' \in Seq(Frames) /\ CallsNested' /\ IteratorSettled'
               /\ RunningBusy'
  <2>1. iter' = Null /\ stack' = <<>> /\ Len(stack') = 0
    BY <1>1, <1>2
  <2>2. stack' \in Seq(Frames)
    BY <2>1
  <2>3. IteratorValid' /\ IteratorSettled'
    BY <2>1 DEF IteratorValid, IteratorSettled
  <2>4. CallsNested' /\ RunningBusy'
    BY <2>1 DEF CallsNested, RunningBusy
  <2> QED
    BY <2>2, <2>3, <2>4
<1> QED
  BY <1>1, <1>2

(* The ids that are kept in reserve are a number.                           *)
LEMMA ReservedNat ==
  ASSUME Inv
  PROVE  Reserved \in Nat
<1>1. tasks \subseteq 1 .. nextId - 1 /\ nextId \in Int
  BY Parts
<1>2. IsFiniteSet(tasks)
  <2>1. IsFiniteSet(1 .. nextId - 1)
    BY <1>1, FS_Interval
  <2> QED
    BY <1>1, <2>1, FS_Subset
<1>3. \A S : S \subseteq tasks => Cardinality(S) \in Nat
  BY <1>2, FS_Subset, FS_CardinalityType
<1>4. /\ Cardinality({i \in tasks : obj[i].kind = "chain" /\ obj[i].state = "First"}) \in Nat
      /\ Cardinality({i \in tasks : obj[i].kind = "poll" /\ obj[i].state = "Start"}) \in Nat
  BY <1>3
<1> QED
  BY <1>4 DEF Reserved

(* A task that was created joins the event of the transaction.              *)
LEMMA StartJoins ==
  ASSUME Inv, Idle, UNCHANGED <<ended, iter, stack, pend, acc>>,
         NEW n \in Ids, NEW n1 \in Int, NEW o1, NEW T1,
         nextId <= n1, n1 <= MaxId, n < n1, n \in T1, tasks' = T1,
         GraphOK(n1, o1, T1, passive, {}),
         EventOK(base, n1, o1, T1, passive), EventOK(acc, n1, o1, T1, passive),
         NEW live, live = T1 \cup passive,
         NEW s, s = [event |-> base, obj |-> o1, passive |-> passive, nextId |-> n1],
         NEW r, r = PlusAssign(base, [id |-> n, joined |-> {n}], live, s),
         base' = r.event, obj' = r.obj, passive' = r.passive, nextId' = r.nextId
  PROVE  Inv'
<1> USE MaxIdAssumption
<1>1. PICK f : f = [id |-> n, joined |-> {n}]
  OBVIOUS
<1>2. f.id = n /\ f.joined = {n} /\ f \in Events
  BY <1>1 DEF Events, Ids
<1>3. n \notin passive
  BY DEF GraphOK, KindsOK
<1>4. EventOK(f, n1, o1, T1, passive)
  <2>1. f.id \in 0 .. n1 - 1 /\ f.joined \subseteq 1 .. n1 - 1 /\ n \in 1 .. n1 - 1
    BY <1>2 DEF Ids
  <2>2. \A t \in f.joined \cap T1 : \A S \in SUBSET Ids : t \in S /\ UpClosed(S, o1) => f.id \in S
    BY <1>2
  <2>3. {n} \in SUBSET (1 .. n1 - 1) /\ f.id \in {n} /\ DownClosed({n}, o1, passive)
        /\ {n} \cap T1 \subseteq f.joined
    BY <2>1, <1>2, <1>3 DEF DownClosed
  <2> QED
    BY <2>1, <2>2, <2>3 DEF EventOK
<1>5. base \in Events /\ acc \in Events /\ ended \subseteq 1 .. nextId - 1 /\ nextId \in Int
  BY Parts
<1>6. r = PlusAssign(base, f, live, s)
  BY <1>1
<1>7. /\ GraphOK(r.nextId, r.obj, T1, r.passive, {})
      /\ EventOK(r.event, r.nextId, r.obj, T1, r.passive)
      /\ r.event \in Events
      /\ Grown(n1, o1, passive, r.nextId, r.obj, r.passive)
  BY <1>2, <1>4, <1>5, <1>6, Assigned
<1>8. EventOK(acc, nextId', obj', tasks', passive')
  <2>1. \A i \in 1 .. n1 - 1 : i \in tasks' => i \in T1
    OBVIOUS
  <2>2. 0 \notin tasks' \cup passive'
    <3>1. GraphType(r.nextId, r.obj, T1, r.passive)
      BY <1>7 DEF GraphOK
    <3>2. 0 \notin T1 \cup r.passive
      BY <3>1, NoneIsNoTask
    <3> QED
      BY <3>2
  <2>3. Grown(n1, o1, passive, nextId', obj', passive')
    BY <1>7
  <2> QED
    BY <2>1, <2>2, <2>3, EventKept
<1>9. ended' \subseteq 1 .. nextId' - 1
  BY <1>5, <1>7 DEF Grown
<1>10. IteratorValid' /\ stack' \in Seq(Frames) /\ CallsNested' /\ IteratorSettled' /\ RunningBusy'
       /\ pend' = {}
  BY IdleParts
<1>11. GraphOK(nextId', obj', tasks', passive', pend')
       /\ EventOK(base', nextId', obj', tasks', passive') /\ base' \in Events
  BY <1>7, <1>10
<1> QED
  BY <1>5, <1>8, <1>9, <1>10, <1>11, Rebuilt

(* The creation of a task leaves the events what they are.                  *)
LEMMA CreatedGrows ==
  ASSUME NEW n \in Ids, NEW o \in [Ids -> Objects], NEW P, P \subseteq 1 .. n - 1,
         Unused(n, o), NEW x, x.observers = {}
  PROVE  Grown(n, o, P, n + 1, [o EXCEPT ![n] = x], P)
<1> USE MaxIdAssumption DEF Ids
<1> DEFINE o2 == [o EXCEPT ![n] = x]
<1>1. o2[n] = x /\ \A i \in Ids : i # n => o2[i] = o[i]
  OBVIOUS
<1>2. o[n].observers = {}
  BY DEF Unused, NoObject
<1>3. \A i \in Ids : o[i].observers \subseteq o2[i].observers
  BY <1>1, <1>2
<1>4. \A i \in P : i \in Ids /\ i # n
  OBVIOUS
<1>5. \A i \in P : o2[i].operands \subseteq o[i].operands
  BY <1>1, <1>4
<1> QED
  BY <1>3, <1>5 DEF Grown

(* Factory::startTask.                                                      *)
LEMMA StartTaskStep ==
  ASSUME Inv, NEW kind \in {"op", "chain", "poll"}, StartTask(kind)
  PROVE  Inv'
<1> USE MaxIdAssumption
<1> DEFINE n == nextId
<1>0. Idle /\ UNCHANGED <<ended, iter, stack, pend, acc>> /\ pend = {}
  BY IdleParts DEF StartTask
<1>1. /\ GraphOK(n, obj, tasks, passive, {})
      /\ EventOK(base, n, obj, tasks, passive) /\ EventOK(acc, n, obj, tasks, passive)
      /\ n \in 1 .. MaxId + 1 /\ tasks \subseteq 1 .. n - 1 /\ passive \subseteq 1 .. n - 1
      /\ obj \in [Ids -> Objects]
  BY <1>0, Parts
<1>2. /\ kind # "chain" => n + 1 <= MaxId
      /\ kind = "chain" => n + 3 <= MaxId
  <2>1. Room(IF kind = "op" THEN 2 ELSE IF kind = "chain" THEN 4 ELSE 3)
    BY DEF StartTask
  <2>2. Reserved \in Nat
    BY ReservedNat
  <2>3. CASE kind = "op"
    <3>1. Room(2)
      BY <2>1, <2>3
    <3> QED
      BY <2>2, <2>3, <3>1, <1>1 DEF Room
  <2>4. CASE kind = "chain"
    <3>1. Room(4)
      BY <2>1, <2>4
    <3> QED
      BY <2>2, <2>4, <3>1, <1>1 DEF Room
  <2>5. CASE kind = "poll"
    <3>1. Room(3)
      BY <2>1, <2>5
    <3> QED
      BY <2>2, <2>5, <3>1, <1>1 DEF Room
  <2> QED
    BY <2>3, <2>4, <2>5
<1>3. n \in Ids /\ n <= MaxId /\ 0 \notin tasks \cup passive
  BY <1>1, <1>2 DEF Ids
<1>4. Unused(n, obj)
  BY <1>1 DEF GraphOK
<1>5. CASE kind # "chain"
  <2>1. PICK st \in {"run", "Start"} : st = IF kind = "poll" THEN "Start" ELSE "run"
    OBVIOUS
  <2>2. PICK x : x = Task(kind, st, Null)
    OBVIOUS
  <2>3. PICK o1 : o1 = [obj EXCEPT ![n] = x]
    OBVIOUS
  <2>4. x.observers = {}
    BY <2>2 DEF Task
  <2>5. GraphOK(n + 1, o1, tasks \cup {n}, passive, {})
    <3>1. Null \in 0 .. MaxId /\ kind \in {"op", "chain", "poll"} /\ st \in {"run", "First", "Start"}
      BY DEF Null
    <3>2. GraphOK(n + 1, [obj EXCEPT ![n] = Task(kind, st, Null)], tasks \cup {n}, passive, {})
      BY <1>1, <1>3, <3>1, Created
    <3> QED
      BY <3>2, <2>2, <2>3
  <2>6. Grown(n, obj, passive, n + 1, o1, passive)
    BY <1>1, <1>3, <1>4, <2>3, <2>4, CreatedGrows
  <2>7. PICK T1 : T1 = tasks \cup {n}
    OBVIOUS
  <2>8. EventOK(base, n + 1, o1, T1, passive) /\ EventOK(acc, n + 1, o1, T1, passive)
    <3>1. \A i \in 1 .. n - 1 : i \in T1 => i \in tasks
      BY <2>7, <1>3 DEF Ids
    <3>2. 0 \notin T1 \cup passive /\ n \in Int
      BY <2>7, <1>3 DEF Ids
    <3> QED
      BY <1>1, <2>6, <3>1, <3>2, EventKept
  <2>9. Cardinality({n}) = 1
    BY FS_Singleton
  <2>10. PICK s : s = [event |-> base, obj |-> o1, passive |-> passive, nextId |-> n + 1]
    OBVIOUS
  <2>11. PICK r : r = PlusAssign(base, [id |-> n, joined |-> {n}], Registered \cup {n}, s)
    OBVIOUS
  <2>12. /\ tasks' = tasks \cup {n} /\ base' = r.event /\ obj' = r.obj
         /\ passive' = r.passive /\ nextId' = r.nextId
    <3>1. s = [event |-> base,
               obj |-> [obj EXCEPT ![n] = Task(kind, IF kind = "poll" THEN "Start" ELSE "run", Null)],
               passive |-> passive, nextId |-> n + Cardinality({n})]
      BY <2>1, <2>2, <2>3, <2>9, <2>10
    <3> QED
      BY <1>5, <2>11, <3>1 DEF StartTask
  <2>13. PICK live : live = Registered \cup {n} /\ live = T1 \cup passive
    BY <2>7 DEF Registered
  <2>14. r = PlusAssign(base, [id |-> n, joined |-> {n}], live, s)
    BY <2>11, <2>13
  <2>15. n + 1 \in Int /\ n <= n + 1 /\ n + 1 <= MaxId /\ n < n + 1 /\ n \in T1 /\ tasks' = T1
    BY <1>2, <1>3, <1>5, <2>7, <2>12 DEF Ids
  <2>16. GraphOK(n + 1, o1, T1, passive, {})
    BY <2>5, <2>7
  <2>17. PICK m \in Int : m = n + 1
    BY <2>15
  <2> QED
    BY <1>0, <1>3, <2>8, <2>10, <2>12, <2>13, <2>14, <2>15, <2>16, <2>17, StartJoins
<1>6. CASE kind = "chain"
  <2>2. PICK x, y : x = Task("chain", "First", Null) /\ y = Task("op", "run", n)
    OBVIOUS
  <2>3. PICK o0, o1 : o0 = [obj EXCEPT ![n] = x] /\ o1 = [o0 EXCEPT ![n + 1] = y]
    OBVIOUS
  <2>4. x.observers = {} /\ y.observers = {} /\ x.kind = "chain" /\ x.state = "First" /\ x.owner = Null
    BY <2>2 DEF Task
  <2>5. GraphOK(n + 1, o0, tasks \cup {n}, passive, {})
    <3>1. Null \in 0 .. MaxId
      BY DEF Null
    <3>2. GraphOK(n + 1, [obj EXCEPT ![n] = Task("chain", "First", Null)], tasks \cup {n}, passive, {})
      BY <1>1, <1>3, <3>1, Created
    <3> QED
      BY <3>2, <2>2, <2>3
  <2>6. Grown(n, obj, passive, n + 1, o0, passive)
    BY <1>1, <1>3, <1>4, <2>3, <2>4, CreatedGrows
  <2>7. PICK T0, T1 : T0 = tasks \cup {n} /\ T1 = T0 \cup {n + 1}
    OBVIOUS
  <2>8. EventOK(base, n + 1, o0, T0, passive) /\ EventOK(acc, n + 1, o0, T0, passive)
    <3>1. \A i \in 1 .. n - 1 : i \in T0 => i \in tasks
      BY <2>7, <1>3 DEF Ids
    <3>2. 0 \notin T0 \cup passive /\ n \in Int
      BY <2>7, <1>3 DEF Ids
    <3> QED
      BY <1>1, <2>6, <3>1, <3>2, EventKept
  <2>9. PICK m \in Ids : m = n + 1
    BY <1>2, <1>3, <1>6 DEF Ids
  <2>10. GraphOK(m, o0, T0, passive, {})
    BY <2>5, <2>7, <2>9
  <2>11. GraphOK(m + 1, o1, T1, passive, {})
    <3>1. n \in T0 /\ o0[n] = x /\ \A j \in tasks : o0[j] = obj[j]
      BY <1>1, <1>3, <2>3, <2>7 DEF Ids
    <3>2. InProgress(o0, n)
      BY <3>1, <2>4 DEF InProgress
    <3>3. \A j \in T0 : o0[j].owner # n
      <4>1. \A j \in tasks : obj[j].owner # n
        <5>1. \A j \in tasks : obj[j].owner # Null => obj[j].owner \in tasks
          BY <1>1 DEF GraphOK, Owned
        <5>2. n \notin tasks /\ n # Null
          BY <1>1, <1>3 DEF Ids, Null
        <5> QED
          BY <5>1, <5>2
      <4>2. o0[n].owner # n
        BY <3>1, <2>4, <1>3 DEF Ids, Null
      <4> QED
        BY <3>1, <4>1, <4>2, <2>7
    <3>4. m <= MaxId /\ n \in 0 .. MaxId
      BY <2>9, <1>3 DEF Ids
    <3>5. GraphOK(m + 1, [o0 EXCEPT ![m] = Task("op", "run", n)], T0 \cup {m}, passive, {})
      BY <2>10, <3>1, <3>2, <3>3, <3>4, Created
    <3> QED
      BY <3>5, <2>2, <2>3, <2>7, <2>9
  <2>12. EventOK(base, m + 1, o1, T1, passive) /\ EventOK(acc, m + 1, o1, T1, passive)
    <3>0. o0 \in [Ids -> Objects] /\ Unused(m, o0) /\ passive \subseteq 1 .. m - 1
      BY <2>10 DEF GraphOK, GraphType
    <3>1. Grown(m, o0, passive, m + 1, o1, passive)
      BY <3>0, <2>3, <2>4, <2>9, CreatedGrows
    <3>2. \A i \in 1 .. m - 1 : i \in T1 => i \in T0
      BY <2>7, <2>9 DEF Ids
    <3>3. 0 \notin T1 \cup passive /\ m \in Int
      BY <2>7, <2>9, <1>3 DEF Ids
    <3>4. EventOK(base, m, o0, T0, passive) /\ EventOK(acc, m, o0, T0, passive)
      BY <2>8, <2>9
    <3> QED
      BY <3>1, <3>2, <3>3, <3>4, EventKept
  <2>13. Cardinality({n, n + 1}) = 2
    <3>0. IsFiniteSet({n}) /\ Cardinality({n}) = 1
      BY FS_Singleton
    <3>1. n + 1 \notin {n}
      BY <1>3 DEF Ids
    <3>2. Cardinality({n} \cup {n + 1}) = 2
      BY <3>0, <3>1, FS_AddElement, SMTT(30)
    <3>3. {n} \cup {n + 1} = {n, n + 1}
      OBVIOUS
    <3> QED
      BY <3>2, <3>3
  <2>14. PICK s : s = [event |-> base, obj |-> o1, passive |-> passive, nextId |-> n + 2]
    OBVIOUS
  <2>15. PICK r : r = PlusAssign(base, [id |-> n, joined |-> {n}], Registered \cup {n, n + 1}, s)
    OBVIOUS
  <2>16. /\ tasks' = tasks \cup {n, n + 1} /\ base' = r.event /\ obj' = r.obj
         /\ passive' = r.passive /\ nextId' = r.nextId
    <3>1. s = [event |-> base,
               obj |-> [obj EXCEPT ![n] = Task("chain", "First", Null), ![n + 1] = Task("op", "run", n)],
               passive |-> passive, nextId |-> n + Cardinality({n, n + 1})]
      BY <2>2, <2>3, <2>13, <2>14
    <3> QED
      BY <1>6, <2>15, <3>1 DEF StartTask
  <2>17. PICK live : live = Registered \cup {n, n + 1} /\ live = T1 \cup passive
    BY <2>7 DEF Registered
  <2>18. r = PlusAssign(base, [id |-> n, joined |-> {n}], live, s)
    BY <2>15, <2>17
  <2>19. /\ m + 1 \in Int /\ n <= m + 1 /\ m + 1 <= MaxId /\ n < m + 1 /\ n \in T1 /\ tasks' = T1
         /\ n + 2 = m + 1
    BY <1>2, <1>3, <1>6, <2>7, <2>9, <2>16 DEF Ids
  <2>20. s = [event |-> base, obj |-> o1, passive |-> passive, nextId |-> m + 1]
    BY <2>14, <2>19
  <2> QED
    BY <1>0, <1>3, <2>11, <2>12, <2>16, <2>17, <2>18, <2>19, <2>20, StartJoins
<1> QED
  BY <1>5, <1>6

(* commEvent += __endTransaction().                                         *)
LEMMA EndTransactionStep ==
  ASSUME Inv, EndTransaction
  PROVE  Inv'
<1> USE MaxIdAssumption
<1>0. Idle /\ UNCHANGED <<tasks, ended, iter, stack, pend>> /\ pend = {} /\ base' = NoEvent
  BY IdleParts DEF EndTransaction
<1>1. /\ GraphOK(nextId, obj, tasks, passive, {})
      /\ EventOK(base, nextId, obj, tasks, passive) /\ EventOK(acc, nextId, obj, tasks, passive)
      /\ nextId \in 1 .. MaxId + 1 /\ tasks \subseteq 1 .. nextId - 1
      /\ base \in Events /\ acc \in Events /\ ended \subseteq 1 .. nextId - 1
  BY <1>0, Parts
<1>2. nextId <= MaxId /\ nextId \in Int
  <2>1. Room(1)
    BY DEF EndTransaction
  <2>2. Reserved \in Nat
    BY ReservedNat
  <2> QED
    BY <2>1, <2>2, <1>1 DEF Room
<1>3. PICK s : s = [event |-> acc, obj |-> obj, passive |-> passive, nextId |-> nextId]
  OBVIOUS
<1>4. PICK live : live = Registered /\ live = tasks \cup passive
  BY DEF Registered
<1>5. PICK r : r = PlusAssign(acc, base, live, s)
  OBVIOUS
<1>6. acc' = r.event /\ obj' = r.obj /\ passive' = r.passive /\ nextId' = r.nextId
  BY <1>3, <1>4, <1>5 DEF EndTransaction
<1>7. /\ GraphOK(r.nextId, r.obj, tasks, r.passive, {})
      /\ EventOK(r.event, r.nextId, r.obj, tasks, r.passive)
      /\ r.event \in Events
      /\ Grown(nextId, obj, passive, r.nextId, r.obj, r.passive)
  BY <1>1, <1>2, <1>3, <1>4, <1>5, Assigned
<1>8. /\ GraphOK(nextId', obj', tasks', passive', pend')
      /\ EventOK(acc', nextId', obj', tasks', passive') /\ acc' \in Events
      /\ nextId' \in Int /\ nextId <= nextId'
  BY <1>0, <1>6, <1>7 DEF Grown
<1>12. PICK m \in Int : m = nextId' /\ nextId <= m /\ 1 <= m
  BY <1>1, <1>8
<1>13. m \in Int /\ 1 <= m
  BY <1>12
<1>9. EventOK(base', nextId', obj', tasks', passive') /\ base' \in Events
  <2>1. base'.id = 0 /\ base'.joined = {} /\ base' \in Events
    BY <1>0 DEF NoEvent, Null, Events
  <2>2. tasks' \subseteq 1 .. m - 1 /\ passive' \subseteq 1 .. m - 1
    BY <1>8, <1>12 DEF GraphOK, GraphType
  <2>5. m <= m /\ 0 \in 0 .. m - 1
    BY <1>13
  <2>3. 0 \notin tasks' \cup passive' /\ 0 \in 0 .. m - 1
    BY <2>2, <2>5, IdsBelow
  <2>4. EventOK(base', m, obj', tasks', passive')
    BY <2>1, <2>3 DEF EventOK
  <2> QED
    BY <2>1, <2>4, <1>12
<1>10. ended' \subseteq 1 .. nextId' - 1
  <2>1. ended \subseteq 1 .. m - 1
    BY <1>1, <1>2, <1>12, IdsBelow
  <2> QED
    BY <2>1, <1>0, <1>12
<1>11. IteratorValid' /\ stack' \in Seq(Frames) /\ CallsNested' /\ IteratorSettled' /\ RunningBusy'
  BY <1>0, IdleParts
<1> QED
  BY <1>8, <1>9, <1>10, <1>11, Rebuilt

(* Steps that leave the graph and the events alone.                         *)
LEMMA GraphKept ==
  ASSUME Inv, UNCHANGED <<nextId, obj, tasks, passive, pend, base, acc>>,
         ended' \subseteq 1 .. nextId - 1,
         IteratorValid', stack' \in Seq(Frames),
         CallsNested', IteratorSettled', RunningBusy'
  PROVE  Inv'
<1>1. /\ GraphOK(nextId', obj', tasks', passive', pend')
      /\ EventOK(base', nextId', obj', tasks', passive') /\ base' \in Events
      /\ EventOK(acc', nextId', obj', tasks', passive') /\ acc' \in Events
  BY Parts
<1>2. ended' \subseteq 1 .. nextId' - 1
  OBVIOUS
<1> QED
  BY <1>1, <1>2, Rebuilt

(* The program starts to wait.                                              *)
LEMMA WaitStep ==
  ASSUME Inv, WaitForFinished \/ WaitForAllTasks
  PROVE  Inv'
<1> USE MaxIdAssumption
<1>0. /\ UNCHANGED <<nextId, obj, tasks, passive, ended, iter, pend, base, acc>>
      /\ iter = Null /\ ended \subseteq 1 .. nextId - 1
  BY Parts, IdleParts DEF WaitForFinished, WaitForAllTasks
<1>1. PICK f \in Frames : stack' = <<f>> /\ f.call \in {"wait", "waitAll"}
  <2>1. CASE WaitForFinished
    <3>1. PICK e \in {base, acc} : stack' = <<[call |-> "wait", id |-> e.id]>>
      BY <2>1 DEF WaitForFinished
    <3>2. e.id \in 0 .. MaxId
      BY Parts DEF Events
    <3>3. [call |-> "wait", id |-> e.id] \in Frames
      BY <3>2 DEF Frames
    <3> QED
      BY <3>1, <3>3
  <2>2. CASE WaitForAllTasks
    <3>1. [call |-> "waitAll", id |-> Null] \in Frames
      BY DEF Frames, Null
    <3> QED
      BY <2>2, <3>1 DEF WaitForAllTasks
  <2> QED
    BY <2>1, <2>2
<1>2. stack' \in Seq(Frames) /\ Len(stack') = 1 /\ stack'[1] = f
  BY <1>1
<1>3. IteratorValid' /\ IteratorSettled'
  BY <1>0 DEF IteratorValid, IteratorSettled
<1>4. CallsNested' /\ RunningBusy'
  <2>1. \A d \in 1 .. Len(stack') : d = 1 /\ stack'[d] = f
    BY <1>2
  <2> QED
    BY <2>1, <1>1 DEF CallsNested, RunningBusy
<1> QED
  BY <1>0, <1>2, <1>3, <1>4, GraphKept

(* The device or MPI finishes an operation.                                 *)
LEMMA CompleteStep ==
  ASSUME Inv, NEW i \in Ids, Complete(i)
  PROVE  Inv'
<1>1. UNCHANGED <<nextId, obj, tasks, passive, iter, stack, pend, base, acc>>
  BY DEF Complete
<1>2. ended' \subseteq 1 .. nextId - 1
  BY Parts DEF Complete
<1>3. stack' \in Seq(Frames) /\ CallsNested' /\ RunningBusy' /\ IteratorValid' /\ IteratorSettled'
  BY <1>1, Parts DEF CallsNested, RunningBusy, IteratorValid, IteratorSettled, Top
<1> QED
  BY <1>1, <1>2, <1>3, GraphKept

(* The call on top of a stack that is not empty.                            *)
LEMMA TopOfStack ==
  ASSUME stack \in Seq(Frames), stack # <<>>
  PROVE  /\ Len(stack) \in Nat /\ Len(stack) >= 1
         /\ Top \in Frames /\ Top = stack[Len(stack)]
         /\ Pop = SubSeq(stack, 1, Len(stack) - 1)
BY DEF Top, Pop

(* A wait calls execute.                                                    *)
LEMMA Called ==
  ASSUME stack \in Seq(Frames), CallsNested, RunningBusy, UNCHANGED <<tasks, obj>>,
         stack # <<>>, Top.call \in {"wait", "waitAll"},
         NEW f \in Frames, f.call = "execute", stack' = Append(stack, f)
  PROVE  stack' \in Seq(Frames) /\ CallsNested' /\ RunningBusy' /\ stack' # <<>> /\ Top' = f
<1>0. Len(stack) \in Nat /\ Len(stack) >= 1 /\ Top = stack[Len(stack)]
  BY TopOfStack
<1>1. PICK m \in Nat : m = Len(stack)
  BY <1>0
<1>2. /\ stack' \in Seq(Frames) /\ Len(stack') = m + 1 /\ stack'[m + 1] = f
      /\ \A d \in 1 .. m : stack'[d] = stack[d]
  BY <1>0, <1>1
<1>3. stack' # <<>> /\ Top' = f
  BY <1>2 DEF Top
<1>4. CallsNested'
  <2> SUFFICES ASSUME NEW d \in 1 .. Len(stack')
               PROVE  /\ stack'[d].call = "execute" => d > 1 /\ stack'[d - 1].call \in {"wait", "waitAll"}
                      /\ stack'[d].call = "task" => d > 1 /\ stack'[d - 1].call = "execute"
                      /\ stack'[d].call = "wait" => d = 1 \/ stack'[d - 1].call = "task"
                      /\ stack'[d].call = "waitAll" => d = 1
    BY DEF CallsNested
  <2>1. CASE d = m + 1
    <3>1. m >= 1 /\ stack'[d - 1] = Top /\ stack'[d] = f /\ d > 1
      BY <2>1, <1>0, <1>1, <1>2
    <3> QED
      BY <3>1
  <2>2. CASE d # m + 1
    <3>1. d \in 1 .. Len(stack) /\ stack'[d] = stack[d]
      BY <2>2, <1>1, <1>2
    <3>2. d > 1 => stack'[d - 1] = stack[d - 1]
      BY <2>2, <1>1, <1>2
    <3>3. /\ stack[d].call = "execute" => d > 1 /\ stack[d - 1].call \in {"wait", "waitAll"}
          /\ stack[d].call = "task" => d > 1 /\ stack[d - 1].call = "execute"
          /\ stack[d].call = "wait" => d = 1 \/ stack[d - 1].call = "task"
          /\ stack[d].call = "waitAll" => d = 1
      BY <3>1 DEF CallsNested
    <3>4. d = 1 \/ d > 1
      BY <1>2
    <3> QED
      BY <3>1, <3>2, <3>3, <3>4
  <2> QED
    BY <2>1, <2>2
<1>5. RunningBusy'
  <2>1. \A d \in 1 .. Len(stack') : stack'[d].call = "task" => d \in 1 .. Len(stack) /\ stack'[d] = stack[d]
    BY <1>1, <1>2
  <2> QED
    BY <2>1 DEF RunningBusy
<1> QED
  BY <1>2, <1>3, <1>4, <1>5

(* The loops around execute.                                                *)
LEMMA WaitLoopStep ==
  ASSUME Inv, WaitLoop
  PROVE  Inv'
<1> USE MaxIdAssumption
<1>0. /\ UNCHANGED <<nextId, obj, tasks, passive, ended, pend, base, acc>>
      /\ stack # <<>> /\ Top.call \in {"wait", "waitAll"}
  BY DEF WaitLoop, Running
<1>1. /\ ended \subseteq 1 .. nextId - 1 /\ IteratorValid /\ stack \in Seq(Frames)
      /\ CallsNested /\ IteratorSettled /\ RunningBusy /\ tasks \subseteq Nat /\ tasks \subseteq Ids
  BY Parts
<1>2. ended' \subseteq 1 .. nextId - 1
  BY <1>0, <1>1
<1>3. CASE (Top.call = "wait" /\ Top.id \in Registered) \/ (Top.call = "waitAll" /\ Registered # {})
  <2>1. PICK f : f = [call |-> "execute", id |-> IF Top.id \in tasks THEN Top.id ELSE Null]
    OBVIOUS
  <2>2. stack' = Append(stack, f) /\ iter' = IF iter = Null THEN Begin ELSE iter
    BY <1>3, <2>1 DEF WaitLoop
  <2>3. f \in Frames /\ f.call = "execute"
    <3>1. PICK k : k = IF Top.id \in tasks THEN Top.id ELSE Null
      OBVIOUS
    <3>2. k \in Ids \/ k = 0
      BY <3>1, <1>1 DEF Null
    <3>3. k \in 0 .. MaxId
      BY <3>2 DEF Ids
    <3>4. f = [call |-> "execute", id |-> k]
      BY <2>1, <3>1
    <3> QED
      BY <3>3, <3>4 DEF Frames
  <2>4. stack' \in Seq(Frames) /\ CallsNested' /\ RunningBusy' /\ stack' # <<>> /\ Top' = f
    BY <1>0, <1>1, <2>2, <2>3, Called
  <2>5. IteratorSettled'
    BY <2>3, <2>4 DEF IteratorSettled
  <2>6. Begin \in tasks \cup {Null}
    BY <1>1, AfterIn DEF Begin
  <2>7. IteratorValid'
    BY <2>2, <2>6, <1>0, <1>1 DEF IteratorValid
  <2> QED
    BY <1>0, <1>2, <2>4, <2>5, <2>7, GraphKept
<1>4. CASE ~((Top.call = "wait" /\ Top.id \in Registered) \/ (Top.call = "waitAll" /\ Registered # {}))
  <2>1. stack' = Pop /\ iter' = iter
    BY <1>4 DEF WaitLoop
  <2>2. iter = Null
    BY <1>0, <1>1, <1>4 DEF IteratorSettled, Registered
  <2>3. PICK m \in Nat : m = Len(stack) - 1 /\ m <= Len(stack) /\ stack' = SubSeq(stack, 1, m)
    BY <2>1, <1>0, <1>1, TopOfStack
  <2>4. \A d \in 1 .. m : stack[d].call = "task" =>
          stack[d].id \in tasks' /\ obj'[stack[d].id].kind = "poll" /\ obj'[stack[d].id].state = "Busy"
    <3>1. \A d \in 1 .. m : d \in 1 .. Len(stack)
      BY <2>3, <1>1
    <3> QED
      BY <3>1, <1>0, <1>1 DEF RunningBusy
  <2>5. stack' \in Seq(Frames) /\ CallsNested' /\ RunningBusy'
    BY <2>3, <2>4, <1>1, Returned
  <2>6. IteratorValid' /\ IteratorSettled'
    BY <2>1, <2>2 DEF IteratorValid, IteratorSettled
  <2> QED
    BY <1>0, <1>2, <2>5, <2>6, GraphKept
<1> QED
  BY <1>3, <1>4

(* execute returns false.                                                   *)
LEMMA ExecuteEndStep ==
  ASSUME Inv, ExecuteEnd
  PROVE  Inv'
<1>0. /\ UNCHANGED <<nextId, obj, tasks, passive, ended, iter, pend, base, acc>>
      /\ stack # <<>> /\ stack' = Pop /\ iter = Null
  BY DEF ExecuteEnd, Running
<1>1. /\ ended \subseteq 1 .. nextId - 1 /\ stack \in Seq(Frames) /\ CallsNested /\ RunningBusy
  BY Parts
<1>2. ended' \subseteq 1 .. nextId - 1
  BY <1>0, <1>1
<1>3. PICK m \in Nat : m = Len(stack) - 1 /\ m <= Len(stack) /\ stack' = SubSeq(stack, 1, m)
  BY <1>0, <1>1, TopOfStack
<1>4. \A d \in 1 .. m : stack[d].call = "task" =>
        stack[d].id \in tasks' /\ obj'[stack[d].id].kind = "poll" /\ obj'[stack[d].id].state = "Busy"
  <2>1. \A d \in 1 .. m : d \in 1 .. Len(stack)
    BY <1>3, <1>1
  <2> QED
    BY <2>1, <1>0, <1>1 DEF RunningBusy
<1>5. stack' \in Seq(Frames) /\ CallsNested' /\ RunningBusy'
  BY <1>3, <1>4, <1>1, Returned
<1>6. IteratorValid' /\ IteratorSettled'
  BY <1>0 DEF IteratorValid, IteratorSettled
<1> QED
  BY <1>0, <1>2, <1>5, <1>6, GraphKept

(* execute finds a task that is not finished.                               *)
LEMMA ExecuteUnfinishedStep ==
  ASSUME Inv, ExecuteUnfinished
  PROVE  Inv'
<1>0. /\ UNCHANGED <<nextId, obj, tasks, passive, ended, stack, pend, base, acc>>
      /\ stack # <<>> /\ Top.call = "execute" /\ iter' = After(iter)
  BY DEF ExecuteUnfinished, Running
<1>1. /\ ended \subseteq 1 .. nextId - 1 /\ stack \in Seq(Frames) /\ CallsNested /\ RunningBusy
      /\ iter \in Nat /\ tasks \subseteq Nat
  BY Parts
<1>2. ended' \subseteq 1 .. nextId - 1
  BY <1>0, <1>1
<1>3. stack' \in Seq(Frames) /\ CallsNested' /\ RunningBusy'
  BY <1>0, <1>1 DEF CallsNested, RunningBusy
<1>4. IteratorValid'
  BY <1>0, <1>1, AfterIn DEF IteratorValid
<1>5. IteratorSettled'
  BY <1>0 DEF IteratorSettled, Top
<1> QED
  BY <1>0, <1>2, <1>3, <1>4, <1>5, GraphKept

(* Steps that keep what observers, operands and passive tasks there are     *)
(* keep the events.                                                         *)
LEMMA EventsKept ==
  ASSUME Inv, UNCHANGED <<base, acc>>,
         Grown(nextId, obj, passive, nextId', obj', passive'),
         \A i \in 1 .. nextId - 1 : i \in tasks' => i \in tasks,
         0 \notin tasks' \cup passive'
  PROVE  /\ EventOK(base', nextId', obj', tasks', passive') /\ base' \in Events
         /\ EventOK(acc', nextId', obj', tasks', passive') /\ acc' \in Events
<1>1. /\ EventOK(base, nextId, obj, tasks, passive) /\ base \in Events
      /\ EventOK(acc, nextId, obj, tasks, passive) /\ acc \in Events /\ nextId \in Int
  BY Parts
<1>2. PICK n2, o2, T2, P2 : n2 = nextId' /\ o2 = obj' /\ T2 = tasks' /\ P2 = passive'
  OBVIOUS
<1>3. /\ Grown(nextId, obj, passive, n2, o2, P2)
      /\ \A i \in 1 .. nextId - 1 : i \in T2 => i \in tasks
      /\ 0 \notin T2 \cup P2
  BY <1>2
<1>4. EventOK(base, n2, o2, T2, P2) /\ EventOK(acc, n2, o2, T2, P2)
  BY <1>1, <1>3, EventKept
<1> QED
  BY <1>1, <1>2, <1>4

(* Deleting a task that is not running, or the one that runs on top of the  *)
(* stack, from the map.                                                     *)
LEMMA TaskDeleted ==
  ASSUME Inv, NEW i \in tasks, ~InProgress(obj, i), pend = {},
         tasks' = tasks \ {i}, pend' = Notifications(i),
         UNCHANGED <<nextId, obj, passive, ended, base, acc>>,
         IteratorValid', stack' \in Seq(Frames),
         CallsNested', IteratorSettled', RunningBusy'
  PROVE  Inv'
<1>1. /\ GraphOK(nextId, obj, tasks, passive, {}) /\ nextId \in Int
      /\ ended \subseteq 1 .. nextId - 1 /\ 0 \notin tasks \cup passive
  BY Parts
<1>2. GraphOK(nextId, obj, tasks \ {i}, passive, Told(obj, i))
  BY <1>1, Removed
<1>3. GraphOK(nextId', obj', tasks', passive', pend')
  <2>1. Notifications(i) = Told(obj, i)
    BY DEF Notifications, Told
  <2> QED
    BY <1>2, <2>1
<1>4. Grown(nextId, obj, passive, nextId', obj', passive')
  BY <1>1 DEF Grown
<1>5. /\ \A k \in 1 .. nextId - 1 : k \in tasks' => k \in tasks
      /\ 0 \notin tasks' \cup passive'
  BY <1>1
<1>6. ended' \subseteq 1 .. nextId' - 1
  BY <1>1
<1> QED
  BY <1>3, <1>4, <1>5, <1>6, EventsKept, Rebuilt

(* execute finds a finished task.                                           *)
LEMMA ExecuteFinishedStep ==
  ASSUME Inv, ExecuteFinished
  PROVE  Inv'
<1>0. /\ UNCHANGED <<nextId, obj, passive, ended, base, acc>>
      /\ stack # <<>> /\ Top.call = "execute" /\ pend = {} /\ iter # Null /\ IsFinished(iter)
      /\ tasks' = tasks \ {iter} /\ pend' = Notifications(iter)
      /\ \/ Top.id = iter /\ stack' = Pop /\ iter' = Null
         \/ iter' = After(iter) /\ stack' = stack
  BY DEF ExecuteFinished, Running
<1>1. /\ stack \in Seq(Frames) /\ CallsNested /\ RunningBusy /\ IteratorValid
      /\ iter \in Nat /\ tasks \subseteq Nat /\ tasks \subseteq Ids
      /\ GraphOK(nextId, obj, tasks, passive, pend)
  BY Parts
<1>2. iter \in tasks
  BY <1>0, <1>1 DEF IteratorValid
<1>3. PICK i \in tasks : i = iter
  BY <1>2
<1>4. obj[i].kind \in {"op", "chain", "poll"}
  BY <1>1, <1>3 DEF GraphOK, KindsOK
<1>5. /\ ~InProgress(obj, i)
      /\ ~(obj[i].kind = "poll" /\ obj[i].state = "Busy")
  <2>1. IsFinished(i)
    BY <1>0, <1>3
  <2>2. obj[i].kind \in {"chain", "poll"} => obj[i].state = "Finish"
    BY <2>1, <1>4 DEF IsFinished
  <2> QED
    BY <2>2 DEF InProgress
<1>6. \A d \in 1 .. Len(stack) : stack[d].call = "task" =>
        stack[d].id \in tasks' /\ obj'[stack[d].id].kind = "poll" /\ obj'[stack[d].id].state = "Busy"
  BY <1>0, <1>1, <1>3, <1>5 DEF RunningBusy
<1>7. tasks' = tasks \ {i} /\ pend' = Notifications(i)
  BY <1>0, <1>3
<1>8. CASE stack' = Pop /\ iter' = Null
  <2>1. PICK m \in Nat : m = Len(stack) - 1 /\ m <= Len(stack) /\ stack' = SubSeq(stack, 1, m)
    BY <1>0, <1>1, <1>8, TopOfStack
  <2>2. \A d \in 1 .. m : d \in 1 .. Len(stack)
    BY <2>1, <1>1
  <2>3. \A d \in 1 .. m : stack[d].call = "task" =>
          stack[d].id \in tasks' /\ obj'[stack[d].id].kind = "poll" /\ obj'[stack[d].id].state = "Busy"
    BY <2>2, <1>6
  <2>4. stack' \in Seq(Frames) /\ CallsNested' /\ RunningBusy'
    BY <2>1, <2>3, <1>1, Returned
  <2>5. IteratorValid' /\ IteratorSettled'
    BY <1>8 DEF IteratorValid, IteratorSettled
  <2> QED
    BY <1>0, <1>5, <1>7, <2>4, <2>5, TaskDeleted
<1>9. CASE iter' = After(iter) /\ stack' = stack
  <2>1. stack' \in Seq(Frames) /\ CallsNested' /\ RunningBusy'
    BY <1>1, <1>6, <1>9, StackKept
  <2>2. After(i) \in tasks \cup {Null} /\ (After(i) \in tasks => After(i) > i \/ After(i) = Null)
    BY <1>1, <1>3, AfterIn
  <2>3. iter' \in tasks' \cup {Null}
    BY <2>2, <1>3, <1>7, <1>9, <1>1
  <2>4. IteratorValid'
    BY <2>3 DEF IteratorValid
  <2>5. IteratorSettled'
    BY <1>0, <1>9 DEF IteratorSettled, Top
  <2> QED
    BY <1>0, <1>5, <1>7, <2>1, <2>4, <2>5, TaskDeleted
<1> QED
  BY <1>0, <1>8, <1>9

(* execute runs a task, which waits.                                        *)
LEMMA TaskWaits ==
  ASSUME stack \in Seq(Frames), CallsNested, RunningBusy,
         stack # <<>>, Top.call = "execute",
         NEW f \in Frames, f.call = "task", NEW g \in Frames, g.call = "wait",
         stack' = stack \o <<f, g>>,
         f.id \in tasks', obj'[f.id].kind = "poll", obj'[f.id].state = "Busy",
         \A d \in 1 .. Len(stack) : stack[d].call = "task" =>
           /\ stack[d].id \in tasks' /\ obj'[stack[d].id].kind = "poll"
           /\ obj'[stack[d].id].state = "Busy" /\ stack[d].id # f.id
  PROVE  stack' \in Seq(Frames) /\ CallsNested' /\ RunningBusy' /\ stack' # <<>> /\ Top' = g
<1>0. Len(stack) \in Nat /\ Len(stack) >= 1 /\ Top = stack[Len(stack)]
  BY TopOfStack
<1>1. PICK m \in Nat : m = Len(stack)
  BY <1>0
<1>2. /\ stack' \in Seq(Frames) /\ Len(stack') = m + 2 /\ stack'[m + 1] = f /\ stack'[m + 2] = g
      /\ \A d \in 1 .. m : stack'[d] = stack[d]
  <2>1. <<f, g>> \in Seq(Frames) /\ Len(<<f, g>>) = 2 /\ <<f, g>>[1] = f /\ <<f, g>>[2] = g
    OBVIOUS
  <2>2. PICK t \in Seq(Frames) : t = <<f, g>> /\ Len(t) = 2 /\ t[1] = f /\ t[2] = g
    BY <2>1
  <2>3. stack' = stack \o t
    BY <2>2
  <2> QED
    BY <1>1, <2>2, <2>3
<1>3. stack' # <<>> /\ Top' = g
  BY <1>2 DEF Top
<1>4. CallsNested'
  <2> SUFFICES ASSUME NEW d \in 1 .. Len(stack')
               PROVE  /\ stack'[d].call = "execute" => d > 1 /\ stack'[d - 1].call \in {"wait", "waitAll"}
                      /\ stack'[d].call = "task" => d > 1 /\ stack'[d - 1].call = "execute"
                      /\ stack'[d].call = "wait" => d = 1 \/ stack'[d - 1].call = "task"
                      /\ stack'[d].call = "waitAll" => d = 1
    BY DEF CallsNested
  <2>1. CASE d = m + 1
    <3>1. m >= 1 /\ stack'[d - 1] = Top /\ stack'[d] = f /\ d > 1
      BY <2>1, <1>0, <1>1, <1>2
    <3> QED
      BY <3>1
  <2>3. CASE d = m + 2
    <3>1. stack'[d - 1] = f /\ stack'[d] = g /\ d > 1
      <4>1. d - 1 = m + 1
        BY <2>3
      <4> QED
        BY <4>1, <2>3, <1>2
    <3> QED
      BY <3>1
  <2>2. CASE d \in 1 .. m
    <3>1. d \in 1 .. Len(stack) /\ stack'[d] = stack[d]
      BY <2>2, <1>1, <1>2
    <3>2. d > 1 => stack'[d - 1] = stack[d - 1]
      BY <2>2, <1>1, <1>2
    <3>3. /\ stack[d].call = "execute" => d > 1 /\ stack[d - 1].call \in {"wait", "waitAll"}
          /\ stack[d].call = "task" => d > 1 /\ stack[d - 1].call = "execute"
          /\ stack[d].call = "wait" => d = 1 \/ stack[d - 1].call = "task"
          /\ stack[d].call = "waitAll" => d = 1
      BY <3>1 DEF CallsNested
    <3>4. d = 1 \/ d > 1
      BY <1>2
    <3> QED
      BY <3>1, <3>2, <3>3, <3>4
  <2> QED
    BY <2>1, <2>2, <2>3, <1>2
<1>5. RunningBusy'
  <2>1. \A d \in 1 .. Len(stack') : stack'[d].call = "task" =>
          (d \in 1 .. Len(stack) /\ stack'[d] = stack[d]) \/ (d = m + 1 /\ stack'[d] = f)
    <3> SUFFICES ASSUME NEW d \in 1 .. Len(stack'), stack'[d].call = "task"
                 PROVE  (d \in 1 .. Len(stack) /\ stack'[d] = stack[d]) \/ (d = m + 1 /\ stack'[d] = f)
      OBVIOUS
    <3>1. d \in 1 .. m \/ d = m + 1 \/ d = m + 2
      BY <1>2
    <3>2. d # m + 2
      BY <1>2
    <3> QED
      BY <3>1, <3>2, <1>1, <1>2
  <2> SUFFICES ASSUME NEW d \in 1 .. Len(stack'), stack'[d].call = "task"
               PROVE  /\ stack'[d].id \in tasks'
                      /\ obj'[stack'[d].id].kind = "poll"
                      /\ obj'[stack'[d].id].state = "Busy"
                      /\ \A e \in 1 .. Len(stack') :
                           stack'[e].call = "task" /\ stack'[e].id = stack'[d].id => e = d
    BY DEF RunningBusy
  <2>2. CASE d \in 1 .. Len(stack) /\ stack'[d] = stack[d]
    BY <2>1, <2>2 DEF RunningBusy
  <2>3. CASE d = m + 1 /\ stack'[d] = f
    BY <2>1, <2>3
  <2> QED
    BY <2>1, <2>2, <2>3
<1> QED
  BY <1>2, <1>3, <1>4, <1>5

(* A polled task at the iterator is not running: the running ones are busy. *)
LEMMA PollAtIterator ==
  ASSUME Inv, iter # Null, obj[iter].kind = "poll", obj[iter].state = "Start"
  PROVE  /\ iter \in tasks /\ iter \in Ids
         /\ \A d \in 1 .. Len(stack) : stack[d].call = "task" => stack[d].id # iter
<1>1. IteratorValid /\ RunningBusy /\ tasks \subseteq Ids
  BY Parts
<1> QED
  BY <1>1 DEF IteratorValid, RunningBusy

(* A polled task waits for a send that was started before it.               *)
LEMMA ExecutePollForSendStep ==
  ASSUME Inv, ExecutePollForSend
  PROVE  Inv'
<1> USE MaxIdAssumption
<1>0. /\ UNCHANGED <<nextId, tasks, passive, ended, pend, base, acc>>
      /\ stack # <<>> /\ Top.call = "execute" /\ pend = {} /\ iter # Null
      /\ obj[iter].kind = "poll" /\ obj[iter].state = "Start"
      /\ obj' = [obj EXCEPT ![iter].state = "Busy"] /\ iter' = After(iter)
  BY DEF ExecutePollForSend, Running
<1>1. /\ stack \in Seq(Frames) /\ CallsNested /\ RunningBusy /\ nextId \in Int
      /\ iter \in Nat /\ tasks \subseteq Nat /\ tasks \subseteq Ids /\ passive \subseteq Ids
      /\ GraphOK(nextId, obj, tasks, passive, pend) /\ 0 \notin tasks \cup passive
      /\ ended \subseteq 1 .. nextId - 1
  BY Parts
<1>2. PICK w \in tasks : stack' = stack \o <<[call |-> "task", id |-> iter], [call |-> "wait", id |-> w]>>
  BY DEF ExecutePollForSend
<1>3. PICK i \in tasks : i = iter /\ i \in Ids
                         /\ \A d \in 1 .. Len(stack) : stack[d].call = "task" => stack[d].id # i
  BY <1>0, PollAtIterator
<1>4. PICK f, g : f = [call |-> "task", id |-> i] /\ g = [call |-> "wait", id |-> w]
  OBVIOUS
<1>5. f \in Frames /\ f.call = "task" /\ f.id = i /\ g \in Frames /\ g.call = "wait" /\ g.id = w
      /\ stack' = stack \o <<f, g>>
  <2>1. i \in 0 .. MaxId /\ w \in 0 .. MaxId
    BY <1>1, <1>3 DEF Ids
  <2> QED
    BY <1>2, <1>3, <1>4, <2>1 DEF Frames
<1>6. PICK o2 : o2 = obj' /\ o2 = [obj EXCEPT ![i].state = "Busy"]
  BY <1>0, <1>3
<1>7. /\ GraphOK(nextId, o2, tasks, passive, pend)
      /\ o2[i].state = "Busy"
      /\ \A k \in Ids : /\ o2[k].observers = obj[k].observers /\ o2[k].operands = obj[k].operands
                        /\ o2[k].kind = obj[k].kind
                        /\ k # i => o2[k].state = obj[k].state
  <2>1. obj[i].kind = "poll" /\ GraphOK(nextId, obj, tasks, passive, pend)
    BY <1>0, <1>1, <1>3
  <2>2. PICK st \in {"Busy", "Finish"} : st = "Busy"
    OBVIOUS
  <2>3. o2 = SetState(obj, i, st)
    BY <1>6, <2>2 DEF SetState
  <2> QED
    BY <2>1, <2>2, <2>3, PollStateSet
<1>8. GraphOK(nextId', obj', tasks', passive', pend')
  BY <1>0, <1>6, <1>7
<1>9. Grown(nextId, obj, passive, nextId', obj', passive')
  BY <1>0, <1>1, <1>6, <1>7 DEF Grown
<1>10. f.id \in tasks' /\ obj'[f.id].kind = "poll" /\ obj'[f.id].state = "Busy"
  BY <1>0, <1>3, <1>5, <1>6, <1>7
<1>11. \A d \in 1 .. Len(stack) : stack[d].call = "task" =>
         /\ stack[d].id \in tasks' /\ obj'[stack[d].id].kind = "poll"
         /\ obj'[stack[d].id].state = "Busy" /\ stack[d].id # f.id
  BY <1>0, <1>1, <1>3, <1>5, <1>6, <1>7 DEF RunningBusy
<1>12. stack' \in Seq(Frames) /\ CallsNested' /\ RunningBusy' /\ stack' # <<>> /\ Top' = g
  BY <1>0, <1>1, <1>5, <1>10, <1>11, TaskWaits
<1>13. IteratorSettled'
  BY <1>0, <1>5, <1>12 DEF IteratorSettled
<1>14. IteratorValid'
  BY <1>0, <1>1, AfterIn DEF IteratorValid
<1>15. /\ \A k \in 1 .. nextId - 1 : k \in tasks' => k \in tasks
       /\ 0 \notin tasks' \cup passive' /\ ended' \subseteq 1 .. nextId' - 1
  BY <1>0, <1>1
<1>16. UNCHANGED <<base, acc>>
  BY <1>0
<1> QED
  BY <1>8, <1>9, <1>12, <1>13, <1>14, <1>15, <1>16, EventsKept, Rebuilt

(* A step that changes states of tasks and starts an operation, for a chain *)
(* (w) or for nobody.                                                       *)
LEMMA OperationStarted ==
  ASSUME Inv, nextId <= MaxId, UNCHANGED <<passive, ended, base, acc>>,
         NEW o2, NEW D, GraphOK(nextId, o2, tasks, passive, D),
         \A i \in Ids : o2[i].observers = obj[i].observers /\ o2[i].operands = obj[i].operands,
         NEW w \in 0 .. MaxId,
         w # Null => /\ w \in tasks /\ InProgress(o2, w)
                     /\ \A j \in tasks : o2[j].owner # w
                     /\ \A d \in D : d[1] # w,
         NEW x, x = Task("op", "run", w),
         obj' = [o2 EXCEPT ![nextId] = x], tasks' = tasks \cup {nextId},
         nextId' = nextId + 1, pend' = D
  PROVE  /\ GraphOK(nextId', obj', tasks', passive', pend')
         /\ EventOK(base', nextId', obj', tasks', passive') /\ base' \in Events
         /\ EventOK(acc', nextId', obj', tasks', passive') /\ acc' \in Events
         /\ ended' \subseteq 1 .. nextId' - 1
         /\ \A k \in tasks : obj'[k] = o2[k]
<1> USE MaxIdAssumption
<1>1. /\ nextId \in 1 .. MaxId + 1 /\ nextId \in Int /\ nextId \in Ids /\ nextId \notin tasks
      /\ tasks \subseteq Ids /\ 0 \notin tasks \cup passive /\ ended \subseteq 1 .. nextId - 1
      /\ passive \subseteq 1 .. nextId - 1
  <2>1. /\ nextId \in 1 .. MaxId + 1 /\ tasks \subseteq 1 .. nextId - 1 /\ tasks \subseteq Ids
        /\ 0 \notin tasks \cup passive /\ ended \subseteq 1 .. nextId - 1
        /\ passive \subseteq 1 .. nextId - 1
    BY Parts
  <2>2. nextId \notin 1 .. nextId - 1 /\ nextId \in Ids /\ nextId \in Int
    BY <2>1 DEF Ids
  <2> QED
    BY <2>1, <2>2
<1>2. o2 \in [Ids -> Objects] /\ Unused(nextId, o2)
  BY DEF GraphOK, GraphType
<1>3. GraphOK(nextId', obj', tasks', passive', pend')
  <2>1. GraphOK(nextId + 1, [o2 EXCEPT ![nextId] = Task("op", "run", w)], tasks \cup {nextId}, passive, D)
    BY Created
  <2> QED
    BY <2>1
<1>4. x.observers = {}
  BY DEF Task
<1>5. Grown(nextId, o2, passive, nextId + 1, [o2 EXCEPT ![nextId] = x], passive)
  BY <1>1, <1>2, <1>4, CreatedGrows
<1>6. Grown(nextId, obj, passive, nextId', obj', passive')
  <2>1. PICK o3 : o3 = [o2 EXCEPT ![nextId] = x]
    OBVIOUS
  <2>2. Grown(nextId, o2, passive, nextId + 1, o3, passive)
    BY <1>5, <2>1
  <2>3. passive \subseteq Ids
    BY Parts
  <2>4. Grown(nextId, obj, passive, nextId + 1, o3, passive)
    BY <2>2, <2>3 DEF Grown
  <2> QED
    BY <2>1, <2>4
<1>7. /\ \A i \in 1 .. nextId - 1 : i \in tasks' => i \in tasks
      /\ 0 \notin tasks' \cup passive'
  BY <1>1
<1>8. ended' \subseteq 1 .. nextId' - 1
  <2>1. nextId <= nextId + 1 /\ nextId + 1 \in Int
    BY <1>1
  <2>2. ended \subseteq 1 .. (nextId + 1) - 1
    BY <1>1, <2>1, IdsBelow
  <2> QED
    BY <2>2
<1>9. \A k \in tasks : obj'[k] = o2[k]
  BY <1>1, <1>2
<1> QED
  BY <1>3, <1>6, <1>7, <1>8, <1>9, EventsKept

(* A polled task starts an operation and waits for it.                      *)
LEMMA ExecutePollStep ==
  ASSUME Inv, ExecutePoll
  PROVE  Inv'
<1> USE MaxIdAssumption
<1>0. /\ UNCHANGED <<passive, ended, pend, base, acc>>
      /\ stack # <<>> /\ Top.call = "execute" /\ pend = {} /\ iter # Null
      /\ obj[iter].kind = "poll" /\ obj[iter].state = "Start" /\ nextId <= MaxId
      /\ obj' = [obj EXCEPT ![iter].state = "Busy", ![nextId] = Task("op", "run", Null)]
      /\ iter' = After(iter) /\ tasks' = tasks \cup {nextId} /\ nextId' = nextId + 1
      /\ stack' = stack \o <<[call |-> "task", id |-> iter], [call |-> "wait", id |-> nextId]>>
  BY DEF ExecutePoll, Running
<1>1. /\ stack \in Seq(Frames) /\ CallsNested /\ RunningBusy /\ nextId \in 1 .. MaxId + 1
      /\ iter \in Nat /\ tasks \subseteq Nat /\ tasks \subseteq Ids
      /\ GraphOK(nextId, obj, tasks, passive, pend)
  BY Parts
<1>3. PICK i \in tasks : i = iter /\ i \in Ids
                         /\ \A d \in 1 .. Len(stack) : stack[d].call = "task" => stack[d].id # i
  BY <1>0, PollAtIterator
<1>4. PICK f, g : f = [call |-> "task", id |-> i] /\ g = [call |-> "wait", id |-> nextId]
  OBVIOUS
<1>5. f \in Frames /\ f.call = "task" /\ f.id = i /\ g \in Frames /\ g.call = "wait" /\ g.id = nextId
      /\ stack' = stack \o <<f, g>>
  <2>1. i \in 0 .. MaxId /\ nextId \in 0 .. MaxId
    BY <1>0, <1>1, <1>3 DEF Ids
  <2>2. stack' = stack \o <<f, g>>
    BY <1>0, <1>3, <1>4
  <2> QED
    BY <1>4, <2>1, <2>2 DEF Frames
<1>6. PICK o2 : o2 = SetState(obj, i, "Busy")
  OBVIOUS
<1>7. /\ GraphOK(nextId, o2, tasks, passive, pend)
      /\ o2[i].state = "Busy"
      /\ \A k \in Ids : /\ o2[k].observers = obj[k].observers /\ o2[k].operands = obj[k].operands
                        /\ o2[k].kind = obj[k].kind
                        /\ k # i => o2[k].state = obj[k].state
  <2>1. obj[i].kind = "poll" /\ GraphOK(nextId, obj, tasks, passive, pend)
    BY <1>0, <1>1, <1>3
  <2>2. PICK st \in {"Busy", "Finish"} : st = "Busy"
    OBVIOUS
  <2>3. o2 = SetState(obj, i, st)
    BY <1>6, <2>2
  <2> QED
    BY <2>1, <2>2, <2>3, PollStateSet
<1>8. PICK x : x = Task("op", "run", Null)
  OBVIOUS
<1>9. obj' = [o2 EXCEPT ![nextId] = x]
  BY <1>0, <1>3, <1>6, <1>8 DEF SetState
<1>10. Null \in 0 .. MaxId /\ pend' = pend
  BY <1>0 DEF Null
<1>11. /\ GraphOK(nextId', obj', tasks', passive', pend')
       /\ EventOK(base', nextId', obj', tasks', passive') /\ base' \in Events
       /\ EventOK(acc', nextId', obj', tasks', passive') /\ acc' \in Events
       /\ ended' \subseteq 1 .. nextId' - 1
       /\ \A k \in tasks : obj'[k] = o2[k]
  <2>1. PICK w \in 0 .. MaxId : w = Null
    BY <1>10
  <2>2. x = Task("op", "run", w)
    BY <1>8, <2>1
  <2>3. w # Null => /\ w \in tasks /\ InProgress(o2, w)
                    /\ \A j \in tasks : o2[j].owner # w
                    /\ \A d \in pend : d[1] # w
    BY <2>1
  <2>4. /\ nextId <= MaxId /\ UNCHANGED <<passive, ended, base, acc>>
        /\ tasks' = tasks \cup {nextId} /\ nextId' = nextId + 1
    BY <1>0
  <2>5. GraphOK(nextId, o2, tasks, passive, pend)
        /\ \A k \in Ids : o2[k].observers = obj[k].observers /\ o2[k].operands = obj[k].operands
    BY <1>7
  <2> QED
    BY <2>2, <2>3, <2>4, <2>5, <1>9, <1>10, OperationStarted
<1>12. f.id \in tasks' /\ obj'[f.id].kind = "poll" /\ obj'[f.id].state = "Busy"
  BY <1>0, <1>3, <1>5, <1>7, <1>11
<1>13. \A d \in 1 .. Len(stack) : stack[d].call = "task" =>
         /\ stack[d].id \in tasks' /\ obj'[stack[d].id].kind = "poll"
         /\ obj'[stack[d].id].state = "Busy" /\ stack[d].id # f.id
  <2> SUFFICES ASSUME NEW d \in 1 .. Len(stack), stack[d].call = "task"
               PROVE  /\ stack[d].id \in tasks' /\ obj'[stack[d].id].kind = "poll"
                      /\ obj'[stack[d].id].state = "Busy" /\ stack[d].id # f.id
    OBVIOUS
  <2>1. PICK k \in tasks : k = stack[d].id /\ obj[k].kind = "poll" /\ obj[k].state = "Busy"
    BY <1>1 DEF RunningBusy
  <2>2. k # i /\ k \in Ids
    BY <2>1, <1>1, <1>3
  <2>3. o2[k].kind = "poll" /\ o2[k].state = "Busy"
    BY <2>1, <2>2, <1>7
  <2>4. obj'[k] = o2[k] /\ k \in tasks'
    BY <1>0, <1>11
  <2>5. k # f.id
    BY <2>2, <1>5
  <2> QED
    BY <2>1, <2>3, <2>4, <2>5
<1>14. stack' \in Seq(Frames) /\ CallsNested' /\ RunningBusy' /\ stack' # <<>> /\ Top' = g
  BY <1>0, <1>1, <1>5, <1>12, <1>13, TaskWaits
<1>15. IteratorSettled'
  BY <1>0, <1>5, <1>14 DEF IteratorSettled
<1>16. IteratorValid'
  BY <1>0, <1>1, AfterIn DEF IteratorValid
<1> QED
  BY <1>11, <1>14, <1>15, <1>16, Rebuilt

(* What is known of the task on top of the stack.                           *)
LEMMA RunningTask ==
  ASSUME Inv, Running("task")
  PROVE  /\ Top.id \in tasks /\ obj[Top.id].kind = "poll" /\ iter = Null /\ pend = {} /\ stack # <<>>
         /\ Len(stack) \in Nat /\ Len(stack) >= 2
         /\ \A d \in 1 .. Len(stack) - 1 : stack[d].call = "task" =>
              /\ stack[d].id # Top.id /\ stack[d].id \in tasks
              /\ obj[stack[d].id].kind = "poll" /\ obj[stack[d].id].state = "Busy"
<1>1. stack # <<>> /\ Top.call = "task" /\ pend = {}
  BY DEF Running
<1>2. stack \in Seq(Frames) /\ CallsNested /\ RunningBusy /\ IteratorSettled
  BY Parts
<1>3. PICK m \in Nat : m = Len(stack) /\ m >= 1 /\ Top = stack[m]
  BY <1>1, <1>2, TopOfStack
<1>4. m \in 1 .. Len(stack)
  BY <1>3
<1>5. /\ stack[m].id \in tasks /\ obj[stack[m].id].kind = "poll"
      /\ \A e \in 1 .. Len(stack) : stack[e].call = "task" /\ stack[e].id = stack[m].id => e = m
      /\ m > 1
  BY <1>1, <1>3, <1>4, <1>2 DEF RunningBusy, CallsNested
<1>6. \A d \in 1 .. Len(stack) - 1 : d \in 1 .. Len(stack) /\ d # m
  BY <1>3
<1>7. iter = Null
  BY <1>1, <1>2 DEF IteratorSettled
<1>8. \A d \in 1 .. Len(stack) - 1 : stack[d].call = "task" =>
        /\ stack[d].id # Top.id /\ stack[d].id \in tasks
        /\ obj[stack[d].id].kind = "poll" /\ obj[stack[d].id].state = "Busy"
  BY <1>2, <1>3, <1>5, <1>6 DEF RunningBusy
<1> QED
  BY <1>1, <1>3, <1>5, <1>7, <1>8

(* The wait of a running task is over, and its executeIntern returns false. *)
LEMMA PollReturnsStep ==
  ASSUME Inv, PollReturns
  PROVE  Inv'
<1> USE MaxIdAssumption
<1>0. /\ UNCHANGED <<nextId, tasks, passive, ended, iter, pend, base, acc>>
      /\ Running("task") /\ obj' = [obj EXCEPT ![Top.id].state = "Finish"] /\ stack' = Pop
  BY DEF PollReturns
<1>1. /\ stack \in Seq(Frames) /\ CallsNested /\ RunningBusy /\ nextId \in Int
      /\ tasks \subseteq Ids /\ passive \subseteq Ids /\ obj \in [Ids -> Objects]
      /\ GraphOK(nextId, obj, tasks, passive, pend) /\ 0 \notin tasks \cup passive
      /\ ended \subseteq 1 .. nextId - 1
  BY Parts
<1>2. /\ Top.id \in tasks /\ obj[Top.id].kind = "poll" /\ iter = Null /\ stack # <<>>
      /\ \A d \in 1 .. Len(stack) - 1 : stack[d].call = "task" =>
           /\ stack[d].id # Top.id /\ stack[d].id \in tasks
           /\ obj[stack[d].id].kind = "poll" /\ obj[stack[d].id].state = "Busy"
  BY <1>0, RunningTask
<1>3. PICK i \in tasks : i = Top.id
  BY <1>2
<1>6. PICK o2 : o2 = SetState(obj, i, "Finish")
  OBVIOUS
<1>7. /\ GraphOK(nextId, o2, tasks, passive, pend)
      /\ \A k \in Ids : /\ o2[k].observers = obj[k].observers /\ o2[k].operands = obj[k].operands
                        /\ o2[k].kind = obj[k].kind
                        /\ k # i => o2[k].state = obj[k].state
  <2>1. obj[i].kind = "poll" /\ GraphOK(nextId, obj, tasks, passive, pend)
    BY <1>1, <1>2, <1>3
  <2>2. PICK st \in {"Busy", "Finish"} : st = "Finish"
    OBVIOUS
  <2>3. o2 = SetState(obj, i, st)
    BY <1>6, <2>2
  <2> QED
    BY <2>1, <2>2, <2>3, PollStateSet
<1>8. obj' = o2
  BY <1>0, <1>3, <1>6 DEF SetState
<1>9. GraphOK(nextId', obj', tasks', passive', pend')
  BY <1>0, <1>7, <1>8
<1>10. Grown(nextId, obj, passive, nextId', obj', passive')
  BY <1>0, <1>1, <1>7, <1>8 DEF Grown
<1>11. PICK m \in Nat : m = Len(stack) - 1 /\ m <= Len(stack) /\ stack' = SubSeq(stack, 1, m)
  BY <1>0, <1>1, <1>2, TopOfStack
<1>12. \A d \in 1 .. m : stack[d].call = "task" =>
         stack[d].id \in tasks' /\ obj'[stack[d].id].kind = "poll" /\ obj'[stack[d].id].state = "Busy"
  <2> SUFFICES ASSUME NEW d \in 1 .. m, stack[d].call = "task"
               PROVE  /\ stack[d].id \in tasks' /\ obj'[stack[d].id].kind = "poll"
                      /\ obj'[stack[d].id].state = "Busy"
    OBVIOUS
  <2>1. PICK k \in tasks : k = stack[d].id /\ obj[k].kind = "poll" /\ obj[k].state = "Busy" /\ k # i
    BY <1>2, <1>3, <1>11
  <2>2. o2[k].kind = "poll" /\ o2[k].state = "Busy"
    BY <2>1, <1>1, <1>7
  <2> QED
    BY <2>1, <2>2, <1>0, <1>8
<1>13. stack' \in Seq(Frames) /\ CallsNested' /\ RunningBusy'
  BY <1>1, <1>11, <1>12, Returned
<1>14. IteratorValid' /\ IteratorSettled'
  BY <1>0, <1>2 DEF IteratorValid, IteratorSettled
<1>15. /\ \A k \in 1 .. nextId - 1 : k \in tasks' => k \in tasks
       /\ 0 \notin tasks' \cup passive' /\ ended' \subseteq 1 .. nextId' - 1
       /\ UNCHANGED <<base, acc>>
  BY <1>0, <1>1
<1> QED
  BY <1>9, <1>10, <1>13, <1>14, <1>15, EventsKept, Rebuilt

(* It returns true instead: execute deletes the task.                       *)
LEMMA PollFinishesStep ==
  ASSUME Inv, PollFinishes
  PROVE  Inv'
<1> USE MaxIdAssumption
<1>0. Running("task") /\ UNCHANGED <<nextId, obj, passive, ended, base, acc>>
  BY DEF PollFinishes
<1>1. /\ stack \in Seq(Frames) /\ CallsNested /\ RunningBusy
  BY Parts
<1>2. /\ Top.id \in tasks /\ obj[Top.id].kind = "poll" /\ iter = Null /\ pend = {} /\ stack # <<>>
      /\ Len(stack) \in Nat /\ Len(stack) >= 2
      /\ \A d \in 1 .. Len(stack) - 1 : stack[d].call = "task" =>
           /\ stack[d].id # Top.id /\ stack[d].id \in tasks
           /\ obj[stack[d].id].kind = "poll" /\ obj[stack[d].id].state = "Busy"
  BY <1>0, RunningTask
<1>3. PICK i \in tasks : i = Top.id
  BY <1>2
<1>4. tasks' = tasks \ {i} /\ pend' = Notifications(i) /\ ~InProgress(obj, i)
  BY <1>2, <1>3 DEF PollFinishes, InProgress
<1>5. iter' = Null
  BY <1>2 DEF PollFinishes
<1>6. PICK m \in Nat : m <= Len(stack) - 1 /\ stack' = SubSeq(stack, 1, m)
  <2>1. CASE stack' = SubSeq(stack, 1, Len(stack) - 2)
    <3>1. Len(stack) - 2 \in Nat /\ Len(stack) - 2 <= Len(stack) - 1
      BY <1>2
    <3> QED
      BY <2>1, <3>1
  <2>2. CASE stack' = Pop
    <3>1. Len(stack) - 1 \in Nat /\ Len(stack) - 1 <= Len(stack) - 1
      BY <1>2
    <3> QED
      BY <2>2, <3>1 DEF Pop
  <2> QED
    BY <2>1, <2>2 DEF PollFinishes
<1>7. m <= Len(stack) /\ \A d \in 1 .. m : d \in 1 .. Len(stack) - 1
  BY <1>2, <1>6
<1>8. \A d \in 1 .. m : stack[d].call = "task" =>
        stack[d].id \in tasks' /\ obj'[stack[d].id].kind = "poll" /\ obj'[stack[d].id].state = "Busy"
  BY <1>0, <1>2, <1>3, <1>4, <1>7
<1>9. stack' \in Seq(Frames) /\ CallsNested' /\ RunningBusy'
  BY <1>1, <1>6, <1>7, <1>8, Returned
<1>10. IteratorValid' /\ IteratorSettled'
  BY <1>5 DEF IteratorValid, IteratorSettled
<1> QED
  BY <1>0, <1>2, <1>4, <1>9, <1>10, TaskDeleted

(* An and is notified.                                                      *)
LEMMA NotifyAndStep ==
  ASSUME Inv, NotifyAnd
  PROVE  Inv'
<1> USE MaxIdAssumption
<1>1. /\ stack \in Seq(Frames) /\ CallsNested /\ RunningBusy /\ nextId \in Int
      /\ tasks \subseteq Ids /\ passive \subseteq Ids /\ IteratorValid /\ IteratorSettled
      /\ GraphOK(nextId, obj, tasks, passive, pend) /\ 0 \notin tasks \cup passive
      /\ ended \subseteq 1 .. nextId - 1
  BY Parts
<1>2. PICK n \in pend :
        LET o == n[1]
            left == obj[o].operands \ {n[2]}
        IN /\ obj[o].kind = "and"
           /\ obj' = [obj EXCEPT ![o].operands = left]
           /\ passive' = IF left = {} THEN passive \ {o} ELSE passive
           /\ pend' = (pend \ {n}) \cup
                      (IF left = {} THEN {<<q, o>> : q \in obj[o].observers} ELSE {})
           /\ UNCHANGED <<nextId, tasks, ended, iter, stack, base, acc>>
  BY Zenon DEF NotifyAnd
<1>3. PICK w : w = n[1]
  OBVIOUS
<1>4. PICK left : left = obj[w].operands \ {n[2]}
  OBVIOUS
<1>5. /\ obj[n[1]].kind = "and"
      /\ obj' = SetOperands(obj, w, left)
      /\ passive' = IF left = {} THEN passive \ {w} ELSE passive
      /\ pend' = (pend \ {n}) \cup (IF left = {} THEN {<<q, w>> : q \in obj[w].observers} ELSE {})
      /\ UNCHANGED <<nextId, tasks, ended, iter, stack, base, acc>>
  BY <1>2, <1>3, <1>4, Zenon DEF SetOperands
<1>6. PICK o2, P2, D2 : o2 = obj' /\ P2 = passive' /\ D2 = pend'
  OBVIOUS
<1>7. /\ GraphOK(nextId, o2, tasks, P2, D2)
      /\ \A i \in Ids : o2[i].observers = obj[i].observers /\ o2[i].operands \subseteq obj[i].operands
                        /\ o2[i].kind = obj[i].kind /\ o2[i].state = obj[i].state
  <2>1. o2 = SetOperands(obj, w, left)
    BY <1>5, <1>6
  <2>2. P2 = PassiveAfter(passive, w, left)
    BY <1>5, <1>6 DEF PassiveAfter
  <2>3. D2 = PendAfter(obj, pend, n, w, left)
    BY <1>5, <1>6 DEF PendAfter
  <2>4. obj[n[1]].kind = "and" /\ GraphOK(nextId, obj, tasks, passive, pend)
    BY <1>1, <1>5
  <2>5. AfterAnd(nextId, obj, tasks, o2, P2, D2)
    BY <2>1, <2>2, <2>3, <2>4, <1>3, <1>4, AndNotified
  <2> QED
    BY <2>5 DEF AfterAnd
<1>8. GraphOK(nextId', obj', tasks', passive', pend')
  BY <1>5, <1>6, <1>7
<1>9. P2 \subseteq passive
  BY <1>5, <1>6
<1>10. Grown(nextId, obj, passive, nextId, o2, P2)
  BY <1>1, <1>7, <1>9 DEF Grown
<1>11. Grown(nextId, obj, passive, nextId', obj', passive')
  BY <1>5, <1>6, <1>10
<1>12. \A d \in 1 .. Len(stack) : stack[d].call = "task" =>
         stack[d].id \in tasks' /\ obj'[stack[d].id].kind = "poll" /\ obj'[stack[d].id].state = "Busy"
  <2>1. \A d \in 1 .. Len(stack) : stack[d].call = "task" =>
          stack[d].id \in tasks /\ o2[stack[d].id].kind = "poll" /\ o2[stack[d].id].state = "Busy"
    BY <1>1, <1>7 DEF RunningBusy
  <2> QED
    BY <2>1, <1>5, <1>6
<1>13. stack' \in Seq(Frames) /\ CallsNested' /\ RunningBusy'
  BY <1>1, <1>5, <1>12, StackKept
<1>14. IteratorValid' /\ IteratorSettled'
  BY <1>1, <1>5 DEF IteratorValid, IteratorSettled, Top
<1>15. /\ \A k \in 1 .. nextId - 1 : k \in tasks' => k \in tasks
       /\ 0 \notin tasks' \cup passive' /\ ended' \subseteq 1 .. nextId' - 1
       /\ UNCHANGED <<base, acc>>
  BY <1>1, <1>5, <1>6, <1>9
<1> QED
  BY <1>8, <1>11, <1>13, <1>14, <1>15, EventsKept, Rebuilt

(* A chain is notified.                                                     *)
LEMMA NotifyChainStep ==
  ASSUME Inv, NotifyChain
  PROVE  Inv'
<1> USE MaxIdAssumption
<1>1. /\ stack \in Seq(Frames) /\ CallsNested /\ RunningBusy /\ nextId \in Int
      /\ tasks \subseteq Ids /\ passive \subseteq Ids /\ IteratorValid /\ IteratorSettled
      /\ GraphOK(nextId, obj, tasks, passive, pend) /\ 0 \notin tasks \cup passive
      /\ ended \subseteq 1 .. nextId - 1
  BY Parts
<1>2. PICK n \in pend :
        LET o == n[1] IN
        /\ obj[o].kind = "chain"
        /\ IF obj[o].state = "First"
           THEN /\ nextId <= MaxId
                /\ obj' = [obj EXCEPT ![o].state = "Second", ![nextId] = Task("op", "run", o)]
                /\ tasks' = tasks \cup {nextId}
                /\ nextId' = nextId + 1
           ELSE /\ obj' = [obj EXCEPT ![o].state = "Finish"]
                /\ UNCHANGED <<tasks, nextId>>
        /\ pend' = pend \ {n}
        /\ UNCHANGED <<passive, ended, iter, stack, base, acc>>
  BY Zenon DEF NotifyChain
<1>3. PICK w : w = n[1]
  OBVIOUS
<1>4. obj[n[1]].kind = "chain" /\ pend' = pend \ {n}
      /\ UNCHANGED <<passive, ended, iter, stack, base, acc>>
  BY <1>2
<1>5. PICK st \in {"Second", "Finish"} : st = IF obj[w].state = "First" THEN "Second" ELSE "Finish"
  OBVIOUS
<1>6. PICK o2 : o2 = SetState(obj, w, st)
  OBVIOUS
<1>7. /\ GraphOK(nextId, o2, tasks, passive, pend \ {n})
      /\ w \in tasks /\ o2[w].kind = "chain" /\ o2[w].state = st
      /\ \A j \in tasks : o2[j].owner # w
      /\ \A c \in pend \ {n} : c[1] # w
      /\ \A i \in Ids : /\ o2[i].observers = obj[i].observers /\ o2[i].operands = obj[i].operands
                        /\ o2[i].kind = obj[i].kind
                        /\ i # w => o2[i].state = obj[i].state
  <2>1. AfterChain(nextId, obj, tasks, passive, pend, n, w, st, o2)
    BY <1>1, <1>3, <1>4, <1>6, ChainNotified
  <2> QED
    BY <2>1 DEF AfterChain
<1>8. ASSUME tasks \subseteq tasks', \A k \in tasks : obj'[k] = o2[k]
      PROVE  stack' \in Seq(Frames) /\ CallsNested' /\ RunningBusy' /\ IteratorValid' /\ IteratorSettled'
  <2>1. ASSUME NEW d \in 1 .. Len(stack), stack[d].call = "task"
        PROVE  /\ stack[d].id \in tasks' /\ obj'[stack[d].id].kind = "poll"
               /\ obj'[stack[d].id].state = "Busy"
    <3>1. PICK k \in tasks : k = stack[d].id /\ obj[k].kind = "poll" /\ obj[k].state = "Busy"
      BY <2>1, <1>1 DEF RunningBusy
    <3>2. k \in Ids /\ o2[k].kind = "poll"
      BY <3>1, <1>1, <1>7
    <3>3. k # w
      BY <3>2, <1>7
    <3>4. o2[k].state = "Busy"
      BY <3>1, <3>2, <3>3, <1>7
    <3> QED
      BY <3>1, <3>2, <3>4, <1>8
  <2>2. stack' \in Seq(Frames) /\ CallsNested' /\ RunningBusy'
    BY <2>1, <1>1, <1>4, StackKept
  <2>3. IteratorValid' /\ IteratorSettled'
    BY <1>1, <1>4, <1>8 DEF IteratorValid, IteratorSettled, Top
  <2> QED
    BY <2>2, <2>3
<1>9. CASE obj[w].state = "First"
  <2>1. /\ nextId <= MaxId /\ tasks' = tasks \cup {nextId} /\ nextId' = nextId + 1
        /\ obj' = [obj EXCEPT ![w].state = "Second", ![nextId] = Task("op", "run", w)]
    BY <1>2, <1>3, <1>9
  <2>2. PICK x : x = Task("op", "run", w)
    OBVIOUS
  <2>3. st = "Second"
    BY <1>5, <1>9
  <2>4. obj' = [o2 EXCEPT ![nextId] = x]
    BY <2>1, <2>2, <2>3, <1>6 DEF SetState
  <2>5. w \in 0 .. MaxId /\ InProgress(o2, w)
    BY <1>1, <1>7, <2>3 DEF Ids, InProgress
  <2>6. w # Null => /\ w \in tasks /\ InProgress(o2, w)
                    /\ \A j \in tasks : o2[j].owner # w
                    /\ \A d \in pend \ {n} : d[1] # w
    BY <1>7, <2>5
  <2>7. /\ nextId <= MaxId /\ UNCHANGED <<passive, ended, base, acc>>
        /\ tasks' = tasks \cup {nextId} /\ nextId' = nextId + 1 /\ pend' = pend \ {n}
    BY <1>4, <2>1
  <2>8. GraphOK(nextId, o2, tasks, passive, pend \ {n})
        /\ \A k \in Ids : o2[k].observers = obj[k].observers /\ o2[k].operands = obj[k].operands
    BY <1>7
  <2>9. /\ GraphOK(nextId', obj', tasks', passive', pend')
        /\ EventOK(base', nextId', obj', tasks', passive') /\ base' \in Events
        /\ EventOK(acc', nextId', obj', tasks', passive') /\ acc' \in Events
        /\ ended' \subseteq 1 .. nextId' - 1
        /\ \A k \in tasks : obj'[k] = o2[k]
    BY <2>2, <2>4, <2>5, <2>6, <2>7, <2>8, OperationStarted
  <2>10. stack' \in Seq(Frames) /\ CallsNested' /\ RunningBusy' /\ IteratorValid' /\ IteratorSettled'
    BY <1>8, <2>1, <2>9
  <2> QED
    BY <2>9, <2>10, Rebuilt
<1>10. CASE obj[w].state # "First"
  <2>1. obj' = [obj EXCEPT ![w].state = "Finish"] /\ UNCHANGED <<tasks, nextId>>
    BY <1>2, <1>3, <1>10
  <2>2. st = "Finish"
    BY <1>5, <1>10
  <2>3. obj' = o2
    BY <2>1, <2>2, <1>6 DEF SetState
  <2>4. GraphOK(nextId', obj', tasks', passive', pend')
    BY <1>4, <1>7, <2>1, <2>3
  <2>5. Grown(nextId, obj, passive, nextId', obj', passive')
    BY <1>1, <1>4, <1>7, <2>1, <2>3 DEF Grown
  <2>6. stack' \in Seq(Frames) /\ CallsNested' /\ RunningBusy' /\ IteratorValid' /\ IteratorSettled'
    BY <1>8, <2>1, <2>3
  <2>7. /\ \A k \in 1 .. nextId - 1 : k \in tasks' => k \in tasks
        /\ 0 \notin tasks' \cup passive' /\ ended' \subseteq 1 .. nextId' - 1
        /\ UNCHANGED <<base, acc>>
    BY <1>1, <1>4, <2>1
  <2> QED
    BY <2>4, <2>5, <2>6, <2>7, EventsKept, Rebuilt
<1> QED
  BY <1>9, <1>10

(* The invariant holds when the program starts.                             *)
LEMMA InitInv ==
  ASSUME Init
  PROVE  Inv
<1> USE MaxIdAssumption
<1> USE DEF Init
<1>1. NoObject \in Objects /\ NoEvent \in Events /\ NoEvent.id = 0 /\ NoEvent.joined = {}
  BY DEF NoObject, Objects, NoEvent, Events, Null
<1>2. GraphType(nextId, obj, tasks, passive)
  <2>1. obj \in [Ids -> Objects]
    BY <1>1
  <2> QED
    BY <2>1 DEF GraphType
<1>3. GraphOK(nextId, obj, tasks, passive, pend)
  BY <1>2 DEF GraphOK, Unused, KindsOK, Watched, OperandsOK, Owned, Pending
<1>4. EventOK(base, nextId, obj, tasks, passive) /\ EventOK(acc, nextId, obj, tasks, passive)
  BY <1>1 DEF EventOK
<1>5. TypeOK
  BY <1>1, <1>2 DEF TypeOK, GraphType, Objects, Null
<1>6. CallsNested /\ IteratorSettled /\ IteratorValid /\ RunningBusy
  BY DEF CallsNested, IteratorSettled, IteratorValid, RunningBusy
<1> QED
  BY <1>3, <1>4, <1>5, <1>6 DEF Inv, IInv

(* Every step keeps the invariant.                                          *)
LEMMA NextInv ==
  ASSUME Inv, [Next]_vars
  PROVE  Inv'
<1>1. CASE \E kind \in {"op", "chain", "poll"} : StartTask(kind)
  BY <1>1, StartTaskStep
<1>2. CASE EndTransaction
  BY <1>2, EndTransactionStep
<1>3. CASE WaitForFinished \/ WaitForAllTasks
  BY <1>3, WaitStep
<1>4. CASE ThreadStep
  BY <1>4, WaitLoopStep, ExecuteEndStep, ExecuteUnfinishedStep, ExecuteFinishedStep, ExecutePollStep,
     ExecutePollForSendStep, PollReturnsStep, PollFinishesStep, NotifyAndStep, NotifyChainStep
     DEF ThreadStep
<1>5. CASE \E i \in Ids : Complete(i)
  BY <1>5, CompleteStep
<1>6. CASE UNCHANGED vars
  <2>1. UNCHANGED <<nextId, obj, tasks, passive, pend, base, acc>> /\ UNCHANGED <<ended, iter, stack>>
    BY <1>6 DEF vars
  <2>2. ended' \subseteq 1 .. nextId - 1
    BY <2>1, Parts
  <2>3. IteratorValid' /\ stack' \in Seq(Frames) /\ CallsNested' /\ IteratorSettled' /\ RunningBusy'
    BY <2>1, Parts DEF CallsNested, RunningBusy, IteratorValid, IteratorSettled, Top
  <2> QED
    BY <2>1, <2>2, <2>3, GraphKept
<1> QED
  BY <1>1, <1>2, <1>3, <1>4, <1>5, <1>6 DEF Next

-----------------------------------------------------------------------------
(* The invariant of the event system is inductive.                          *)
THEOREM EventInductive == Spec => []Inv
<1>1. Init => Inv
  BY InitInv
<1>2. Inv /\ [Next]_vars => Inv'
  BY NextInv
<1> QED
  BY <1>1, <1>2, PTL DEF Spec

(* The state of the event system keeps its types.                           *)
THEOREM EventTypes == Spec => []TypeOK
<1>1. Inv => TypeOK
  BY DEF Inv, IInv
<1> QED
  BY <1>1, EventInductive, PTL

(* Manager::execute never increments an iterator whose element was erased,  *)
(* however deeply the calls that share it are nested.                       *)
THEOREM IteratorNeverDangles == Spec => []IteratorValid
<1>1. Inv => IteratorValid
  BY DEF Inv, IInv
<1> QED
  BY <1>1, EventInductive, PTL

(* No nested call deletes a task whose executeIntern is on the stack, or    *)
(* enters it again.                                                         *)
THEOREM RunningTasksLive == Spec => []RunningAlive
<1>1. Inv => RunningAlive
  BY DEF Inv, IInv, RunningBusy, RunningAlive
<1> QED
  BY <1>1, EventInductive, PTL

(* Every notification that is under way reaches an object that was not      *)
(* deleted: neither a chain nor an and goes away before the last task that  *)
(* would notify it.                                                         *)
THEOREM NotifiedAreAlive == Spec => []ObserversAlive
<1>1. Inv => ObserversAlive
  <2> SUFFICES ASSUME Inv PROVE ObserversAlive
    OBVIOUS
  <2>1. Pending(nextId, obj, tasks, passive, pend)
    BY DEF Inv, GraphOK
  <2> QED
    BY <2>1 DEF Pending, ObserversAlive, Registered
<1> QED
  BY <1>1, EventInductive, PTL

(* An event is finished exactly when all tasks that were ever joined into   *)
(* it are, whatever was started, joined and deleted in between.             *)
THEOREM EventsJoinExactly == Spec => []JoinExact
<1>1. Inv => JoinExact
  <2> SUFFICES ASSUME Inv, pend = {}, NEW e \in {base, acc}
               PROVE  (e.id \in Registered) <=> (e.joined \cap tasks # {})
    BY DEF JoinExact
  <2>1. GraphOK(nextId, obj, tasks, passive, {}) /\ EventOK(e, nextId, obj, tasks, passive)
    BY Parts
  <2>2. ASSUME e.id \in Registered PROVE e.joined \cap tasks # {}
    <3>1. e.id \in tasks \cup passive
      BY <2>2 DEF Registered
    <3> QED
      BY <2>1, <3>1, EventKeepsJoined
  <2>3. ASSUME e.joined \cap tasks # {} PROVE e.id \in Registered
    <3>1. PICK t \in e.joined \cap tasks : TRUE
      BY <2>3
    <3>2. e.id \in tasks \cup passive
      BY <2>1, <3>1, JoinedKeepsEvent
    <3> QED
      BY <3>2 DEF Registered
  <2> QED
    BY <2>2, <2>3
<1> QED
  BY <1>1, EventInductive, PTL
=============================================================================
