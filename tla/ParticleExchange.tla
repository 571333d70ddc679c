-------------------------- MODULE ParticleExchange --------------------------
(***************************************************************************)
(* The exchange of the particles in the guards between ranks, as the tasks *)
(* of the event system carry it out.                                       *)
(*                                                                         *)
(* A rank has one host thread.  It polls its tasks in Manager::execute,    *)
(* also while it waits inside a task: a wait is a nested call of execute,  *)
(* which runs every other task of the rank, and it returns only when it is *)
(* the innermost wait and its event has finished.  stack[r] is the         *)
(* sequence of the tasks of r that are inside such a wait.                 *)
(*                                                                         *)
(* A message has two parts with buffers, copies and MPI requests of their  *)
(* own: the particles ("frames") and the index that says which supercell   *)
(* owns which of them.  The device and MPI make progress on their own.     *)
(* What the bash kernel does is ExchangeStack: the buffer gets as many     *)
(* particles of the guard as it can hold.                                  *)
(***************************************************************************)
EXTENDS Integers, Sequences, SequencesExt

CONSTANTS
  Ranks, Channels, Src, Dst, MaxStep, MaxGuard,   \* see GuardDelivery
  MaxSize,      \* particles an exchange buffer holds, on both sides
  Protocols     \* Protocols[c]: how MPI may transfer a message of c

ASSUME ExchangeAssumption ==
  /\ Src \in [Channels -> Ranks]
  /\ Dst \in [Channels -> Ranks]
  /\ MaxSize \in Nat \ {0}
  /\ MaxStep \in Nat
  /\ MaxGuard \in Nat
  /\ Protocols \in [Channels -> (SUBSET {"eager", "rendezvous"}) \ {{}}]

Parts == {"frames", "index"}

VARIABLES
  step, due,    \* see GuardDelivery; due is what the properties count with
  stack,        \* stack[r]: tasks of r inside a nested wait, outermost first
  guard,        \* guard[c]: particles left in the guard
  send,         \* send[c]: TaskSendParticlesExchange
  dev,          \* dev[c]: what the send buffer on the device holds
  host,         \* host[c][p]: what the send buffer on the host holds
  hostSize,     \* hostSize[c][p]: its current size
  d2h,          \* d2h[c][p]: TaskCopyDeviceToHost is running
  sending,      \* sending[c][p]: TaskSendMPI is outstanding
  net,          \* net[c][p]: messages sent and not received yet, in order
  recv,         \* recv[c]: TaskReceiveParticlesExchange
  inbox         \* inbox[c][p]: TaskReceive and the receive buffers

vars == <<step, due, stack, guard, send, dev, host, hostSize, d2h, sending, net, recv, inbox>>

sendVars == <<guard, send, dev, host, hostSize, d2h, sending>>
recvVars == <<recv, inbox>>

(* The content of a buffer: the round of a step and its particles.          *)
NoData == [step |-> 0, round |-> 0, n |-> 0]

Outgoing(r) == {c \in Channels : Src[c] = r}

Incoming(r) == {c \in Channels : Dst[c] = r}

Top(r, task) == stack[r] # <<>> /\ Last(stack[r]) = task

Push(r, task) == stack' = [stack EXCEPT ![r] = Append(@, task)]

Pop(r) == stack' = [stack EXCEPT ![r] = Front(@)]

-----------------------------------------------------------------------------
(* Variants of the actions below with an error the code could have had.     *)
(* Nothing uses them but the checks that the properties notice the error.   *)

(* asyncSend that does not wait for the previous send of the buffer.        *)
AsyncSendUnchecked(c, p, from, to) ==
  /\ Top(Src[c], <<"send", c>>)
  /\ send[c].pc = from
  /\ hostSize' = [hostSize EXCEPT ![c][p] = dev[c].n]
  /\ d2h' = [d2h EXCEPT ![c][p] = TRUE]
  /\ send' = [send EXCEPT ![c].pc = to]

(* asyncSend that takes the size of the host buffer as it is.               *)
AsyncSendStaleSize(c, p, from, to) ==
  /\ Top(Src[c], <<"send", c>>)
  /\ send[c].pc = from
  /\ ~d2h[c][p] /\ ~sending[c][p]
  /\ d2h' = [d2h EXCEPT ![c][p] = TRUE]
  /\ send' = [send EXCEPT ![c].pc = to]
  /\ UNCHANGED hostSize

(* The next receive is posted while the insert kernel is still running.     *)
NextReceiveRoundEarly(c) ==
  /\ recv[c].pc = "WaitForInsert"
  /\ IF recv[c].lastSize = MaxSize
     THEN /\ recv' = [recv EXCEPT ![c].pc = "WaitForReceive"]
          /\ inbox' = [inbox EXCEPT ![c] = [p \in Parts |-> [@[p] EXCEPT !.st = "posted"]]]
     ELSE /\ recv' = [recv EXCEPT ![c].pc = "Finished"]
          /\ UNCHANGED inbox
  /\ UNCHANGED <<step, due, stack, net, sendVars>>

(* The receiver ends the step with the first round.                         *)
NextReceiveRoundNever(c) ==
  /\ recv[c].pc = "WaitForInsert"
  /\ ~recv[c].kernel
  /\ recv' = [recv EXCEPT ![c].pc = "Finished"]
  /\ UNCHANGED <<step, due, stack, net, inbox, sendVars>>

(* A full round is taken for the last one.                                  *)
NextSendRoundNever(c) ==
  /\ send[c].pc = "WaitForSend"
  /\ \A p \in Parts : ~d2h[c][p]
  /\ send' = [send EXCEPT ![c].pc = "WaitForSendEnd"]
  /\ UNCHANGED <<step, due, stack, guard, dev, host, hostSize, d2h, sending, net, recvVars>>

-----------------------------------------------------------------------------
(* Before the first step: every task of an earlier step has finished.       *)
Init ==
  /\ step = [r \in Ranks |-> 0]
  /\ due = [c \in Channels |-> [k \in 1 .. MaxStep |-> 0]]
  /\ stack = [r \in Ranks |-> <<>>]
  /\ guard = [c \in Channels |-> 0]
  /\ send = [c \in Channels |-> [pc |-> "Finished", round |-> 0, lastSize |-> 0, bash |-> FALSE]]
  /\ dev = [c \in Channels |-> NoData]
  /\ host = [c \in Channels |-> [p \in Parts |-> NoData]]
  /\ hostSize = [c \in Channels |-> [p \in Parts |-> 0]]
  /\ d2h = [c \in Channels |-> [p \in Parts |-> FALSE]]
  /\ sending = [c \in Channels |-> [p \in Parts |-> FALSE]]
  /\ net = [c \in Channels |-> [p \in Parts |-> <<>>]]
  /\ recv = [c \in Channels |-> [pc |-> "Finished", lastSize |-> 0, kernel |-> FALSE]]
  /\ inbox = [c \in Channels |-> [p \in Parts |-> [st |-> "none", data |-> NoData, size |-> 0]]]

(* The main program has waited for the exchange of the step, pushed its     *)
(* particles into the guards and calls asyncCommunication, which creates    *)
(* the tasks that receive (and posts their receives) before those that send.*)
StartStep(r) ==
  /\ step[r] < MaxStep
  /\ stack[r] = <<>>
  /\ \A c \in Outgoing(r) : send[c].pc = "Finished"
  /\ \A c \in Incoming(r) : recv[c].pc = "Finished"
  /\ step' = [step EXCEPT ![r] = @ + 1]
  /\ \E owed \in [Outgoing(r) -> 0 .. MaxGuard] :
       /\ guard' = [c \in Channels |-> IF c \in Outgoing(r) THEN owed[c] ELSE guard[c]]
       /\ due' = [c \in Channels |->
                    IF c \in Outgoing(r) THEN [due[c] EXCEPT ![step[r] + 1] = owed[c]] ELSE due[c]]
  /\ send' = [c \in Channels |->
                IF c \in Outgoing(r)
                THEN [pc |-> "Constructor", round |-> 0, lastSize |-> 0, bash |-> FALSE]
                ELSE send[c]]
  /\ recv' = [c \in Channels |->
                IF c \in Incoming(r)
                THEN [pc |-> "WaitForReceive", lastSize |-> 0, kernel |-> FALSE]
                ELSE recv[c]]
  /\ inbox' = [c \in Channels |->
                 IF c \in Incoming(r)
                 THEN [p \in Parts |-> [inbox[c][p] EXCEPT !.st = "posted"]]
                 ELSE inbox[c]]
  /\ UNCHANGED <<stack, dev, host, hostSize, d2h, sending, net>>

(* init() of a send task, called by the main program: the sizes are reset   *)
(* and the wait for that is a nested one.                                   *)
FirstSendRound(c) ==
  /\ send[c].pc = "Constructor"
  /\ stack[Src[c]] = <<>>
  /\ send' = [send EXCEPT ![c].pc = "Init"]
  /\ hostSize' = [hostSize EXCEPT ![c] = [p \in Parts |-> 0]]
  /\ Push(Src[c], <<"send", c>>)
  /\ UNCHANGED <<step, due, guard, dev, host, d2h, sending, net, recvVars>>

(* The sizes are set: the bash kernel is launched.                          *)
BashParticles(c) ==
  /\ send[c].pc = "Init"
  /\ Top(Src[c], <<"send", c>>)
  /\ send' = [send EXCEPT ![c].pc = "WaitForBash", ![c].round = @ + 1, ![c].bash = TRUE]
  /\ Pop(Src[c])
  /\ UNCHANGED <<step, due, guard, dev, host, hostSize, d2h, sending, net, recvVars>>

(* The device has run the kernel.                                           *)
BashDone(c) ==
  /\ send[c].bash
  /\ LET n == IF guard[c] < MaxSize THEN guard[c] ELSE MaxSize IN
     /\ guard' = [guard EXCEPT ![c] = @ - n]
     /\ dev' = [dev EXCEPT ![c] = [step |-> step[Src[c]], round |-> send[c].round, n |-> n]]
  /\ send' = [send EXCEPT ![c].bash = FALSE]
  /\ UNCHANGED <<step, due, stack, host, hostSize, d2h, sending, net, recvVars>>

(* The bash and the last copies have finished: the size is read and the two *)
(* parts are sent, one after the other, from inside this task.  lastSize is *)
(* that of the particles.                                                   *)
InitSend(c) ==
  /\ send[c].pc = "WaitForBash"
  /\ ~send[c].bash
  /\ \A p \in Parts : ~d2h[c][p]
  /\ send' = [send EXCEPT ![c].pc = "SendFrames", ![c].lastSize = dev[c].n]
  /\ Push(Src[c], <<"send", c>>)
  /\ UNCHANGED <<step, due, guard, dev, host, hostSize, d2h, sending, net, recvVars>>

(* GridBuffer::asyncSend: wait for the previous send of this buffer, then   *)
(* create the copy to the host, whose init sets the size of the host buffer *)
(* to that of the device.                                                   *)
AsyncSend(c, p, from, to) ==
  /\ Top(Src[c], <<"send", c>>)
  /\ send[c].pc = from
  /\ ~d2h[c][p] /\ ~sending[c][p]
  /\ hostSize' = [hostSize EXCEPT ![c][p] = dev[c].n]
  /\ d2h' = [d2h EXCEPT ![c][p] = TRUE]
  /\ send' = [send EXCEPT ![c].pc = to]

AsyncSendFrames(c) ==
  /\ AsyncSend(c, "frames", "SendFrames", "SendIndex")
  /\ UNCHANGED <<step, due, stack, guard, dev, host, sending, net, recvVars>>

AsyncSendIndex(c) ==
  /\ AsyncSend(c, "index", "SendIndex", "WaitForSend")
  /\ Pop(Src[c])
  /\ UNCHANGED <<step, due, guard, dev, host, sending, net, recvVars>>

(* The copy has finished.  Its deletion notifies TaskSend, which starts the *)
(* MPI send with the size the host buffer has at this point.                *)
StartMPISend(c, p) ==
  /\ d2h[c][p]
  /\ d2h' = [d2h EXCEPT ![c][p] = FALSE]
  /\ host' = [host EXCEPT ![c][p] = dev[c]]
  /\ \E protocol \in Protocols[c] :
       /\ sending' = [sending EXCEPT ![c][p] = (protocol = "rendezvous")]
       /\ net' = [net EXCEPT ![c][p] =
                    Append(@, [protocol |-> protocol, size |-> hostSize[c][p], data |-> dev[c]])]
  /\ UNCHANGED <<step, due, stack, guard, send, dev, hostSize, recvVars>>

(* The copies have finished: another round if the buffer was full.          *)
NextSendRound(c) ==
  /\ send[c].pc = "WaitForSend"
  /\ \A p \in Parts : ~d2h[c][p]
  /\ IF send[c].lastSize = MaxSize
     THEN /\ send' = [send EXCEPT ![c].pc = "Init"]
          /\ hostSize' = [hostSize EXCEPT ![c] = [p \in Parts |-> 0]]
          /\ Push(Src[c], <<"send", c>>)
     ELSE /\ send' = [send EXCEPT ![c].pc = "WaitForSendEnd"]
          /\ UNCHANGED <<hostSize, stack>>
  /\ UNCHANGED <<step, due, guard, dev, host, d2h, sending, net, recvVars>>

(* lastSendEvent is that of the copies, not of the MPI sends.               *)
SendEnd(c) ==
  /\ send[c].pc = "WaitForSendEnd"
  /\ \A p \in Parts : ~d2h[c][p]
  /\ send' = [send EXCEPT ![c].pc = "Finished"]
  /\ UNCHANGED <<step, due, stack, guard, dev, host, hostSize, d2h, sending, net, recvVars>>

(* MPI transfers the oldest message to the posted receive.  A message that  *)
(* was not buffered is read from the host buffer now.  TaskReceive takes    *)
(* the size from the message and starts the copy to the device.             *)
Transfer(c, p) ==
  /\ inbox[c][p].st = "posted"
  /\ net[c][p] # <<>>
  /\ LET m == Head(net[c][p]) IN
     /\ inbox' = [inbox EXCEPT ![c][p] =
                    [st |-> "copying",
                     data |-> IF m.protocol = "eager" THEN m.data ELSE host[c][p],
                     size |-> m.size]]
     /\ sending' = [sending EXCEPT ![c][p] = @ /\ m.protocol = "eager"]
  /\ net' = [net EXCEPT ![c][p] = Tail(@)]
  /\ UNCHANGED <<step, due, stack, guard, send, dev, host, hostSize, d2h, recv>>

(* The copy to the device has finished, and with it TaskReceive.            *)
CopyReceived(c, p) ==
  /\ inbox[c][p].st = "copying"
  /\ inbox' = [inbox EXCEPT ![c][p].st = "none"]
  /\ UNCHANGED <<step, due, stack, net, recv, sendVars>>

(* Both parts have come.  insertParticles launches a kernel unless the      *)
(* index is empty; before that it reads the size of the index from the      *)
(* device, a nested wait.                                                   *)
InitInsert(c) ==
  /\ recv[c].pc = "WaitForReceive"
  /\ \A p \in Parts : inbox[c][p].st = "none"
  /\ LET s == [recv[c] EXCEPT !.lastSize = inbox[c]["frames"].size] IN
     IF inbox[c]["index"].size # 0
     THEN /\ recv' = [recv EXCEPT ![c] = [s EXCEPT !.pc = "InitInsert"]]
          /\ Push(Dst[c], <<"recv", c>>)
     ELSE /\ recv' = [recv EXCEPT ![c] = [s EXCEPT !.pc = "WaitForInsert"]]
          /\ UNCHANGED stack
  /\ UNCHANGED <<step, due, net, inbox, sendVars>>

InsertParticles(c) ==
  /\ recv[c].pc = "InitInsert"
  /\ Top(Dst[c], <<"recv", c>>)
  /\ recv' = [recv EXCEPT ![c].pc = "WaitForInsert", ![c].kernel = TRUE]
  /\ Pop(Dst[c])
  /\ UNCHANGED <<step, due, net, inbox, sendVars>>

(* The device has run the kernel, one block for each entry of the index.    *)
InsertDone(c) ==
  /\ recv[c].kernel
  /\ recv' = [recv EXCEPT ![c].kernel = FALSE]
  /\ due' = [due EXCEPT ![c][step[Dst[c]]] = @ - inbox[c]["index"].size]
  /\ UNCHANGED <<step, stack, net, inbox, sendVars>>

(* The insert has finished: another receive if the message was full.        *)
NextReceiveRound(c) ==
  /\ recv[c].pc = "WaitForInsert"
  /\ ~recv[c].kernel
  /\ IF recv[c].lastSize = MaxSize
     THEN /\ recv' = [recv EXCEPT ![c].pc = "WaitForReceive"]
          /\ inbox' = [inbox EXCEPT ![c] = [p \in Parts |-> [@[p] EXCEPT !.st = "posted"]]]
     ELSE /\ recv' = [recv EXCEPT ![c].pc = "Finished"]
          /\ UNCHANGED inbox
  /\ UNCHANGED <<step, due, stack, net, sendVars>>

Ended ==
  /\ \A r \in Ranks : step[r] = MaxStep
  /\ \A c \in Channels : send[c].pc = "Finished" /\ recv[c].pc = "Finished"

(* The last step is over: the program goes on with something else.          *)
Terminated == Ended /\ UNCHANGED vars

(* Steps of the host thread and of the device of the sending rank.          *)
SenderStep(c) ==
  \/ FirstSendRound(c)
  \/ BashParticles(c)
  \/ BashDone(c)
  \/ InitSend(c)
  \/ AsyncSendFrames(c)
  \/ AsyncSendIndex(c)
  \/ NextSendRound(c)
  \/ SendEnd(c)

(* Steps of the host thread and of the device of the receiving rank.        *)
ReceiverStep(c) ==
  \/ InitInsert(c)
  \/ InsertParticles(c)
  \/ InsertDone(c)
  \/ NextReceiveRound(c)

PartStep(c, p) ==
  \/ StartMPISend(c, p)
  \/ Transfer(c, p)
  \/ CopyReceived(c, p)

Next ==
  \/ \E r \in Ranks : StartStep(r)
  \/ \E c \in Channels : SenderStep(c) \/ ReceiverStep(c)
  \/ \E c \in Channels, p \in Parts : PartStep(c, p)
  \/ Terminated

Spec == Init /\ [][Next]_vars

(* Something that can happen does: the device and MPI complete what was     *)
(* given to them, and a waiting thread polls its tasks until one can go on. *)
(* A step that waits stays possible until it is taken, and there are only   *)
(* finitely many of them, so no task has to be singled out.                 *)
FairSpec == Spec /\ WF_vars(Next)

-----------------------------------------------------------------------------
Data == [step : 0 .. MaxStep, round : Nat, n : 0 .. MaxSize]

(* Type invariant.                                                          *)
TypeOK ==
  /\ step \in [Ranks -> 0 .. MaxStep]
  /\ due \in [Channels -> [1 .. MaxStep -> Nat]]
  /\ stack \in [Ranks -> Seq({"send", "recv"} \X Channels)]
  /\ guard \in [Channels -> 0 .. MaxGuard]
  /\ send \in [Channels ->
       [pc : {"Constructor", "Init", "WaitForBash", "SendFrames", "SendIndex", "WaitForSend",
              "WaitForSendEnd", "Finished"},
        round : Nat, lastSize : 0 .. MaxSize, bash : BOOLEAN]]
  /\ dev \in [Channels -> Data]
  /\ host \in [Channels -> [Parts -> Data]]
  /\ hostSize \in [Channels -> [Parts -> 0 .. MaxSize]]
  /\ d2h \in [Channels -> [Parts -> BOOLEAN]]
  /\ sending \in [Channels -> [Parts -> BOOLEAN]]
  /\ net \in [Channels ->
       [Parts -> Seq([protocol : {"eager", "rendezvous"}, size : 0 .. MaxSize, data : Data])]]
  /\ recv \in [Channels ->
       [pc : {"WaitForReceive", "InitInsert", "WaitForInsert", "Finished"},
        lastSize : 0 .. MaxSize, kernel : BOOLEAN]]
  /\ inbox \in [Channels ->
       [Parts -> [st : {"none", "posted", "copying"}, data : Data, size : 0 .. MaxSize]]]

(* Nothing writes a buffer that something else still reads: no bash while   *)
(* the device buffer is copied, no copy into the host buffer while MPI may  *)
(* read it, although a send task ends without waiting for its MPI sends;    *)
(* and on the other side no receive into buffers the insert kernel uses.    *)
BuffersExclusive ==
  \A c \in Channels, p \in Parts :
    /\ send[c].bash => ~d2h[c][p]
    /\ d2h[c][p] => ~sending[c][p]
    /\ recv[c].kernel => inbox[c][p].st = "none"

(* What is inserted, or found empty, is one round of the sender: both parts *)
(* are of the same round of the step the receiver is in, and the sizes that *)
(* came with them are those of the data, though the sender has reset its    *)
(* sizes for the next round by then.                                        *)
MessageIntact ==
  \A c \in Channels :
    recv[c].pc \in {"InitInsert", "WaitForInsert"} =>
      /\ inbox[c]["frames"].data = inbox[c]["index"].data
      /\ inbox[c]["frames"].data.step = step[Dst[c]]
      /\ \A p \in Parts : inbox[c][p].size = inbox[c][p].data.n
      /\ recv[c].lastSize = inbox[c]["frames"].data.n

(* Sender and receiver count the same rounds without ever telling each      *)
(* other: when both have ended a step, no message of it is under way.       *)
RoundsAgree ==
  \A c \in Channels :
    /\ step[Src[c]] = step[Dst[c]]
    /\ send[c].pc = "Finished" /\ recv[c].pc = "Finished"
    => guard[c] = 0 /\ \A p \in Parts : net[c][p] = <<>> /\ ~sending[c][p]

Abstract == INSTANCE GuardDelivery

(* The tasks implement the promise: no rank leaves a step before it has all *)
(* particles owed to it in that step, and none is inserted twice or in      *)
(* another step.                                                            *)
Delivers == Abstract!AbsSpec

(* Every step ends on every rank.                                           *)
EveryStepEnds == <>Ended
=============================================================================
