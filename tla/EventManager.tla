---------------------------- MODULE EventManager ----------------------------
(***************************************************************************)
(* The event system of a rank: the Manager that polls the tasks, the       *)
(* EventTask handles the program waits on and joins, and the tasks that    *)
(* notify one another when they are deleted.                               *)
(*                                                                         *)
(* There is one host thread.  Manager::execute walks the map of active     *)
(* tasks with an iterator that is a static variable, so all calls that are *)
(* on the stack share it; a task that waits inside its executeIntern       *)
(* re-enters the Manager.  The device and MPI finish operations on their   *)
(* own.  A task is identified by its id, in the order of creation, which   *)
(* is the order of the map.                                                *)
(*                                                                         *)
(* Kinds of tasks:                                                         *)
(*   op     an operation of the device or of MPI: finished when that is    *)
(*          (TaskKernel, the copies, TaskSendMPI, TaskReceiveMPI);         *)
(*   chain  creates an operation in init, is notified of its end, creates  *)
(*          a second one, and is finished after that (TaskSend,            *)
(*          TaskReceive);                                                  *)
(*   poll   is advanced by polling and waits inside executeIntern, with a  *)
(*          state that bars its nested execution (the tasks that exchange  *)
(*          particles and fields);                                         *)
(*   and    TaskLogicalAnd: passive, never polled.                         *)
(***************************************************************************)
EXTENDS Integers, Sequences, FiniteSets

CONSTANT MaxId    \* bound: ids that are given out

ASSUME MaxIdAssumption == MaxId \in Nat

Ids == 1 .. MaxId

Null == 0         \* the id of no task, and the end of the map

VARIABLES
  nextId,   \* globalId of ITask
  obj,      \* obj[i]: the task object with id i
  tasks,    \* Manager::tasks
  passive,  \* Manager::passiveTasks
  ended,    \* operations the device or MPI has finished
  iter,     \* the static iterator of execute: an id, or Null for end()
  stack,    \* calls of the host thread, outermost first
  pend,     \* notifications still to be delivered: <<observer, id>>
  base,     \* event of the top-most transaction: its id and what it joined
  acc       \* event the program accumulates (commEvent, updateEvent)

vars == <<nextId, obj, tasks, passive, ended, iter, stack, pend, base, acc>>

Registered == tasks \cup passive

NoObject == [kind |-> "none", state |-> "none", operands |-> {}, observers |-> {}, owner |-> Null]

Task(kind, state, owner) ==
  [kind |-> kind, state |-> state, operands |-> {}, observers |-> {}, owner |-> owner]

(* The element of the map after i, and the first one.                       *)
After(i) ==
  IF \E j \in tasks : j > i THEN CHOOSE j \in tasks : j > i /\ \A k \in tasks : k > i => j <= k
  ELSE Null

Begin == After(0)

Top == stack[Len(stack)]

Pop == SubSeq(stack, 1, Len(stack) - 1)

Idle == stack = <<>> /\ pend = {}

-----------------------------------------------------------------------------
(* Variants of definitions below with an error the code could have had.     *)
(* Nothing uses them but the checks that the properties notice the error.   *)

(* An event that is unfinished keeps its task and drops the other one.      *)
PlusAssignFirst(e, f, live, s) ==
  LET joined == e.joined \cup f.joined IN
  [s EXCEPT !.event = [id |-> IF e.id \in live THEN e.id ELSE f.id, joined |-> joined]]

-----------------------------------------------------------------------------
(* EventTask::operator+=.  live are the ids of unfinished tasks, s the      *)
(* objects, passive tasks and next id; the events carry, for the            *)
(* properties, every task that was joined into them.                        *)
PlusAssign(e, f, live, s) ==
  LET joined == e.joined \cup f.joined
      n == s.nextId
      and == [Task("and", "none", Null) EXCEPT !.operands = {e.id, f.id}]
      watch(i) == [s.obj[i] EXCEPT !.observers = @ \cup {n}]
  IN CASE e.id = f.id -> [s EXCEPT !.event = [id |-> e.id, joined |-> joined]]
       [] e.id # f.id /\ e.id \notin live -> [s EXCEPT !.event = [id |-> f.id, joined |-> joined]]
       [] e.id \in live /\ e.id # f.id /\ f.id \notin live ->
            [s EXCEPT !.event = [id |-> e.id, joined |-> joined]]
       [] OTHER ->
            [event |-> [id |-> n, joined |-> joined],
             obj |-> [s.obj EXCEPT ![n] = and, ![e.id] = watch(e.id), ![f.id] = watch(f.id)],
             passive |-> s.passive \cup {n},
             nextId |-> n + 1]

NoEvent == [id |-> Null, joined |-> {}]

(* Ids that tasks already started will still ask for.                       *)
Reserved ==
  Cardinality({i \in tasks : obj[i].kind = "chain" /\ obj[i].state = "First"})
    + Cardinality({i \in tasks : obj[i].kind = "poll" /\ obj[i].state = "Start"})

Room(n) == nextId - 1 + n + Reserved <= MaxId

-----------------------------------------------------------------------------
(* The state of the program is its stack of calls.  Idle: the main program  *)
(* runs outside the event system.                                           *)

Init ==
  /\ nextId = 1
  /\ obj = [i \in Ids |-> NoObject]
  /\ tasks = {}
  /\ passive = {}
  /\ ended = {}
  /\ iter = Null
  /\ stack = <<>>
  /\ pend = {}
  /\ base = NoEvent
  /\ acc = NoEvent

(* Factory::startTask: init, addTask, setTransactionEvent.  The operation a *)
(* chain creates in init belongs to a transaction of its own.               *)
StartTask(kind) ==
  LET n == nextId
      chained == kind = "chain"
      created == IF chained
                 THEN [obj EXCEPT ![n] = Task("chain", "First", Null), ![n + 1] = Task("op", "run", n)]
                 ELSE [obj EXCEPT ![n] = Task(kind, IF kind = "poll" THEN "Start" ELSE "run", Null)]
      added == IF chained THEN {n, n + 1} ELSE {n}
      s == [event |-> base, obj |-> created, passive |-> passive,
            nextId |-> n + Cardinality(added)]
      r == PlusAssign(base, [id |-> n, joined |-> {n}], Registered \cup added, s)
  IN /\ Idle
     /\ Room(IF kind = "op" THEN 2 ELSE IF chained THEN 4 ELSE 3)
     /\ tasks' = tasks \cup added
     /\ base' = r.event
     /\ obj' = r.obj
     /\ passive' = r.passive
     /\ nextId' = r.nextId
     /\ UNCHANGED <<ended, iter, stack, pend, acc>>

(* commEvent += __endTransaction(), followed by a new transaction.          *)
EndTransaction ==
  LET s == [event |-> acc, obj |-> obj, passive |-> passive, nextId |-> nextId]
      r == PlusAssign(acc, base, Registered, s)
  IN /\ Idle
     /\ base.id # Null
     /\ Room(1)
     /\ acc' = r.event
     /\ base' = NoEvent
     /\ obj' = r.obj
     /\ passive' = r.passive
     /\ nextId' = r.nextId
     /\ UNCHANGED <<tasks, ended, iter, stack, pend>>

(* EventTask::waitForFinished, on the event of the transaction              *)
(* (Transaction::operation) or on the accumulated one.                      *)
WaitForFinished ==
  /\ Idle
  /\ \E e \in {base, acc} :
       /\ e.id # Null
       /\ stack' = <<[call |-> "wait", id |-> e.id]>>
  /\ UNCHANGED <<nextId, obj, tasks, passive, ended, iter, pend, base, acc>>

WaitForAllTasks ==
  /\ Idle
  /\ stack' = <<[call |-> "waitAll", id |-> Null]>>
  /\ UNCHANGED <<nextId, obj, tasks, passive, ended, iter, pend, base, acc>>

-----------------------------------------------------------------------------
(* Manager::execute.                                                        *)

Running(call) == stack # <<>> /\ Top.call = call /\ pend = {}

(* The loops of waitForFinished and waitForAllTasks: call execute, with the *)
(* id if the task is an active one, until what they wait for is gone.       *)
WaitLoop ==
  /\ Running("wait") \/ Running("waitAll")
  /\ IF (Top.call = "wait" /\ Top.id \in Registered) \/ (Top.call = "waitAll" /\ Registered # {})
     THEN /\ stack' = Append(stack, [call |-> "execute",
                                     id |-> IF Top.id \in tasks THEN Top.id ELSE Null])
          /\ iter' = IF iter = Null THEN Begin ELSE iter
     ELSE /\ stack' = Pop
          /\ UNCHANGED iter
  /\ UNCHANGED <<nextId, obj, tasks, passive, ended, pend, base, acc>>

(* The iterator has reached the end: execute returns false.                 *)
ExecuteEnd ==
  /\ Running("execute")
  /\ iter = Null
  /\ stack' = Pop
  /\ UNCHANGED <<nextId, obj, tasks, passive, ended, iter, pend, base, acc>>

(* executeIntern of a task returns true when this holds.                    *)
IsFinished(i) ==
  CASE obj[i].kind = "op" -> i \in ended
    [] obj[i].kind = "chain" -> obj[i].state = "Finish"
    [] obj[i].kind = "poll" -> obj[i].state = "Finish"
    [] OTHER -> FALSE

(* What EventNotify::notify delivers when the task is deleted.              *)
Notifications(i) == {<<o, i>> : o \in obj[i].observers \cup ({obj[i].owner} \ {Null})}

(* The found task makes execute return with the iterator left as it is.     *)
ExecuteFinishedNoReset ==
  /\ Running("execute")
  /\ iter # Null
  /\ IsFinished(iter)
  /\ tasks' = tasks \ {iter}
  /\ pend' = Notifications(iter)
  /\ stack' = IF Top.id = iter THEN Pop ELSE stack
  /\ iter' = After(iter)
  /\ UNCHANGED <<nextId, obj, passive, ended, base, acc>>

(* A deleted task notifies nobody.                                          *)
ExecuteFinishedSilent ==
  /\ Running("execute")
  /\ iter # Null
  /\ IsFinished(iter)
  /\ tasks' = tasks \ {iter}
  /\ pend' = {}
  /\ IF Top.id = iter
     THEN stack' = Pop /\ iter' = Null
     ELSE iter' = After(iter) /\ UNCHANGED stack
  /\ UNCHANGED <<nextId, obj, passive, ended, base, acc>>

(* A polled task that sets its next state before it waits.                  *)
ExecutePollUnguarded ==
  /\ Running("execute")
  /\ iter # Null
  /\ obj[iter].kind = "poll"
  /\ obj[iter].state = "Start"
  /\ obj' = [obj EXCEPT ![iter].state = "Finish", ![nextId] = Task("op", "run", Null)]
  /\ tasks' = tasks \cup {nextId}
  /\ nextId' = nextId + 1
  /\ iter' = After(iter)
  /\ stack' = stack \o <<[call |-> "task", id |-> iter], [call |-> "wait", id |-> nextId]>>
  /\ UNCHANGED <<passive, ended, pend, base, acc>>

(* An and that deletes itself with its first operand.                       *)
NotifyAndFirst ==
  \E n \in pend :
    LET o == n[1] IN
    /\ obj[o].kind = "and"
    /\ obj' = [obj EXCEPT ![o].operands = @ \ {n[2]}]
    /\ passive' = passive \ {o}
    /\ pend' = (pend \ {n}) \cup {<<q, o>> : q \in obj[o].observers}
    /\ UNCHANGED <<nextId, tasks, ended, iter, stack, base, acc>>

-----------------------------------------------------------------------------
(* The task is not finished, and executing it changes nothing.              *)
ExecuteUnfinished ==
  /\ Running("execute")
  /\ iter # Null
  /\ ~IsFinished(iter)
  /\ ~(obj[iter].kind = "poll" /\ obj[iter].state = "Start")
  /\ iter' = After(iter)
  /\ UNCHANGED <<nextId, obj, tasks, passive, ended, stack, pend, base, acc>>

(* The task is finished: it is erased and deleted, which notifies its       *)
(* observers; if it is the one waited for, execute returns with the         *)
(* iterator at the end.                                                     *)
ExecuteFinished ==
  /\ Running("execute")
  /\ iter # Null
  /\ IsFinished(iter)
  /\ tasks' = tasks \ {iter}
  /\ pend' = Notifications(iter)
  /\ IF Top.id = iter
     THEN stack' = Pop /\ iter' = Null
     ELSE iter' = After(iter) /\ UNCHANGED stack
  /\ UNCHANGED <<nextId, obj, passive, ended, base, acc>>

(* A polled task enters the state that bars its nested execution, starts an *)
(* operation and waits for it, inside its executeIntern.                    *)
ExecutePoll ==
  /\ Running("execute")
  /\ iter # Null
  /\ obj[iter].kind = "poll"
  /\ obj[iter].state = "Start"
  /\ nextId <= MaxId
  /\ obj' = [obj EXCEPT ![iter].state = "Busy", ![nextId] = Task("op", "run", Null)]
  /\ tasks' = tasks \cup {nextId}
  /\ nextId' = nextId + 1
  /\ iter' = After(iter)
  /\ stack' = stack \o <<[call |-> "task", id |-> iter], [call |-> "wait", id |-> nextId]>>
  /\ UNCHANGED <<passive, ended, pend, base, acc>>

(* A polled task waits for a chain that was started before it: asyncSend    *)
(* waits for the previous send of its buffer.                               *)
ExecutePollForSend ==
  /\ Running("execute")
  /\ iter # Null
  /\ obj[iter].kind = "poll"
  /\ obj[iter].state = "Start"
  /\ obj' = [obj EXCEPT ![iter].state = "Busy"]
  /\ iter' = After(iter)
  /\ \E i \in tasks :
       /\ obj[i].kind = "chain"
       /\ i < iter
       /\ stack' = stack \o <<[call |-> "task", id |-> iter], [call |-> "wait", id |-> i]>>
  /\ UNCHANGED <<nextId, tasks, passive, ended, pend, base, acc>>

(* The wait is over: executeIntern goes on and returns false, as the tasks  *)
(* of the repository do, ...                                                *)
PollReturns ==
  /\ Running("task")
  /\ obj' = [obj EXCEPT ![Top.id].state = "Finish"]
  /\ stack' = Pop
  /\ UNCHANGED <<nextId, tasks, passive, ended, iter, pend, base, acc>>

(* ... or returns true: execute then erases and deletes the task unless a   *)
(* nested call has done that, and returns if it is the one waited for.      *)
PollFinishes ==
  LET i == Top.id
      caller == stack[Len(stack) - 1]
  IN /\ Running("task")
     /\ tasks' = tasks \ {i}
     /\ pend' = IF i \in tasks THEN Notifications(i) ELSE {}
     /\ IF caller.id = i
        THEN stack' = SubSeq(stack, 1, Len(stack) - 2) /\ iter' = Null
        ELSE stack' = Pop /\ UNCHANGED iter
     /\ UNCHANGED <<nextId, obj, passive, ended, base, acc>>

(* TaskLogicalAnd::event: the task deletes itself with its last operand,    *)
(* which takes it out of the passive tasks and notifies its own observers.  *)
NotifyAnd ==
  \E n \in pend :
    LET o == n[1]
        left == obj[o].operands \ {n[2]}
    IN /\ obj[o].kind = "and"
       /\ obj' = [obj EXCEPT ![o].operands = left]
       /\ passive' = IF left = {} THEN passive \ {o} ELSE passive
       /\ pend' = (pend \ {n}) \cup
                  (IF left = {} THEN {<<q, o>> : q \in obj[o].observers} ELSE {})
       /\ UNCHANGED <<nextId, tasks, ended, iter, stack, base, acc>>

(* event() of a chain: the first operation is over, the second is created   *)
(* at once; the second is over, the chain is finished.                      *)
NotifyChain ==
  \E n \in pend :
    LET o == n[1] IN
    /\ obj[o].kind = "chain"
    /\ IF obj[o].state = "First"
       THEN /\ nextId <= MaxId
            /\ obj' = [obj EXCEPT ![o].state = "Second", ![nextId] = Task("op", "run", o)]
            /\ tasks' = tasks \cup {nextId}
            /\ nextId' = nextId + 1
       ELSE /\ obj' = [obj EXCEPT ![o].state = "Finish"]
            /\ UNCHANGED <<tasks, nextId>>
    /\ pend' = pend \ {n}
    /\ UNCHANGED <<passive, ended, iter, stack, base, acc>>

(* The device or MPI finishes an operation.                                 *)
Complete(i) ==
  /\ i \in tasks
  /\ obj[i].kind = "op"
  /\ i \notin ended
  /\ ended' = ended \cup {i}
  /\ UNCHANGED <<nextId, obj, tasks, passive, iter, stack, pend, base, acc>>

(* A step of the thread inside the event system.                            *)
ThreadStep ==
  \/ WaitLoop
  \/ ExecuteEnd
  \/ ExecuteUnfinished
  \/ ExecuteFinished
  \/ ExecutePoll
  \/ ExecutePollForSend
  \/ PollReturns
  \/ PollFinishes
  \/ NotifyAnd
  \/ NotifyChain

Next ==
  \/ \E kind \in {"op", "chain", "poll"} : StartTask(kind)
  \/ EndTransaction
  \/ WaitForFinished
  \/ WaitForAllTasks
  \/ ThreadStep
  \/ \E i \in Ids : Complete(i)

Spec == Init /\ [][Next]_vars

(* A thread inside the event system runs on, and operations end.  Nothing   *)
(* is assumed of the main program.                                          *)
FairSpec ==
  /\ Spec
  /\ WF_vars(ThreadStep)
  /\ \A i \in Ids : WF_vars(Complete(i))

-----------------------------------------------------------------------------
Frames == [call : {"wait", "waitAll", "execute", "task"}, id : 0 .. MaxId]

Events == [id : 0 .. MaxId, joined : SUBSET Ids]

(* Type invariant.                                                          *)
TypeOK ==
  /\ nextId \in 1 .. MaxId + 1
  /\ obj \in [Ids -> [kind : {"none", "op", "chain", "poll", "and"},
                      state : {"none", "run", "First", "Second", "Start", "Busy", "Finish"},
                      operands : SUBSET Ids, observers : SUBSET Ids, owner : 0 .. MaxId]]
  /\ tasks \subseteq 1 .. nextId - 1
  /\ passive \subseteq 1 .. nextId - 1
  /\ ended \subseteq 1 .. nextId - 1
  /\ iter \in 0 .. MaxId
  /\ stack \in Seq(Frames)
  /\ pend \subseteq Ids \X Ids
  /\ base \in Events
  /\ acc \in Events

(* The static iterator never points to an element that was erased from the  *)
(* map, however deep the calls that share it are nested: incrementing it    *)
(* would be undefined.                                                      *)
IteratorValid == iter \in tasks \cup {Null}

(* A task whose executeIntern is on the stack is not deleted by a nested    *)
(* call, and is on the stack once only.                                     *)
RunningAlive ==
  \A d \in 1 .. Len(stack) :
    stack[d].call = "task" =>
      /\ stack[d].id \in tasks
      /\ \A e \in 1 .. Len(stack) : stack[e] = stack[d] => e = d

(* The calls on the stack alternate: a wait calls execute, execute runs one *)
(* task, a task waits.                                                      *)
CallsNested ==
  \A d \in 1 .. Len(stack) :
    /\ stack[d].call = "execute" => d > 1 /\ stack[d - 1].call \in {"wait", "waitAll"}
    /\ stack[d].call = "task" => d > 1 /\ stack[d - 1].call = "execute"
    /\ stack[d].call = "wait" => d = 1 \/ stack[d - 1].call = "task"
    /\ stack[d].call = "waitAll" => d = 1

(* Whoever called execute finds the iterator at the end when it returns:    *)
(* outside of execute it points to a task only while a wait inside a task   *)
(* has not called execute yet.                                              *)
IteratorSettled ==
  iter # Null =>
    /\ stack # <<>>
    /\ Top.call \in {"wait", "execute"}
    /\ Top.call = "wait" => Top.id \in tasks

(* A task that is on the stack is in the state that bars its execution, and *)
(* is there once.                                                           *)
RunningBusy ==
  \A d \in 1 .. Len(stack) :
    stack[d].call = "task" =>
      /\ stack[d].id \in tasks
      /\ obj[stack[d].id].kind = "poll"
      /\ obj[stack[d].id].state = "Busy"
      /\ \A e \in 1 .. Len(stack) : stack[e].call = "task" /\ stack[e].id = stack[d].id => e = d

(* The invariant the proof is by induction on.                              *)
IInv ==
  /\ TypeOK
  /\ CallsNested
  /\ IteratorSettled
  /\ IteratorValid
  /\ RunningBusy

(* Every notification reaches an object that exists.                        *)
ObserversAlive == \A n \in pend : n[1] \in Registered

(* A joined event is finished exactly when every task that was ever joined  *)
(* into it is: a wait on it neither returns early nor hangs.                *)
JoinExact ==
  pend = {} => \A e \in {base, acc} :
    (e.id \in Registered) <=> (e.joined \cap tasks # {})

(* Every wait returns.                                                      *)
WaitsEnd == (stack # <<>>) ~> (stack = <<>>)
=============================================================================
