--------------------------- MODULE FieldExchange ---------------------------
(***************************************************************************)
(* The exchange of fields between ranks in MySimulation::runOneStep: which *)
(* values the kernels find in the guards, and whether every current that   *)
(* was deposited in a guard is added once to the border of the neighbour.  *)
(*                                                                         *)
(* The ranks are a ring.  A rank has one host thread, which works through  *)
(* the kernels and exchanges of Program.  An event it needs it waits for,  *)
(* polling the tasks of the event system; the copies of the device, MPI    *)
(* and the tasks of FieldJ go on meanwhile.  The values of a field in the  *)
(* border of a rank are abstracted to their version, the number of times   *)
(* the border was written; a current to the step that deposited it.        *)
(***************************************************************************)
EXTENDS Integers, Sequences, SequencesExt

CONSTANTS
  NumRanks,     \* ranks of the ring
  Filters,      \* whether the current interpolation may read the guard of FieldJ
  Protocols,    \* Protocols[d]: how MPI may transfer a message in direction d
  MaxStep       \* bound: time steps

ASSUME FieldAssumption ==
  /\ NumRanks \in Nat \ {0}
  /\ Filters \subseteq BOOLEAN
  /\ Protocols \in [{"right", "left"} -> (SUBSET {"eager", "rendezvous"}) \ {{}}]
  /\ MaxStep \in Nat

Ranks == 0 .. NumRanks - 1

(* Directions in the order of the exchange types, and the mirrored one.     *)
Directions == <<"right", "left">>
Mirrored(d) == IF d = "right" THEN "left" ELSE "right"
Neighbour(r, d) == (r + (IF d = "right" THEN 1 ELSE -1)) % NumRanks

(* Grid buffers with exchanges; Jrecv is a second one on the memory of J.   *)
Fields == {"E", "B", "J", "Jrecv"}

(* A channel <<r, d>> takes the messages r sends in direction d.  Exchange  *)
(* d of rank r receives from its neighbour there.                           *)
Channels == Ranks \X {"right", "left"}
ChannelIn(r, d) == <<Neighbour(r, d), Mirrored(d)>>
Dst(c) == Neighbour(c[1], c[2])
Incoming(r) == {c \in Channels : Dst(c) = r}
Outgoing(r) == {c \in Channels : c[1] = r}

VARIABLES
  filtered,   \* the current interpolation reads the guard of FieldJ
  step,       \* step[r]: currentStep
  pc,         \* pc[r]: the place in Program
  exchange,   \* exchange[r]: the part of the exchange the host thread is at
  stack,      \* stack[r]: tasks of FieldJ inside a nested wait, outermost first
  border,     \* border[r][f]: version of the border
  guard,      \* guard[c][f]: version of the guard of Dst(c) that c fills
  deposited,  \* deposited[r]: the step of the current in the guards of r
  added,      \* added[r][c]: what was added to the border of r, from c
  dev,        \* dev[c]: the send buffer of FieldJ on the device
  d2h,        \* d2h[c][f]: the copy to the host is running
  host,       \* host[c][f]: the send buffer on the host
  sending,    \* sending[c][f]: the MPI send is outstanding
  net,        \* net[c][f]: messages sent and not received yet, in order
  inbox,      \* inbox[c][f]: TaskReceive and the receive buffer
  sendJ,      \* sendJ[c]: TaskFieldSendExchange
  insertJ     \* insertJ[r]: TaskFieldReceiveAndInsert

vars == <<filtered, step, pc, exchange, stack, border, guard, deposited, added, dev, d2h, host,
          sending, net, inbox, sendJ, insertJ>>

mainVars == <<filtered, step, pc, exchange>>
fieldVars == <<border, guard, deposited, added>>
sendVars == <<d2h, host, sending, net>>
taskVars == <<stack, dev, sendJ, insertJ>>

-----------------------------------------------------------------------------
(***************************************************************************)
(* runOneStep with the Yee solver, after the particle pusher has read both *)
(* fields in "push".  A kernel for CORE neither reads a guard nor writes   *)
(* the border.                                                             *)
(***************************************************************************)
Kernel(reads, writes) == [op |-> "kernel", reads |-> reads, writes |-> writes]
Comm(f) == [op |-> "comm", field |-> f]
Core == [op |-> "core"]
Wait(f) == [op |-> "wait", field |-> f]

update_beforeCurrent == <<Kernel({"E"}, {"B"}), Comm("B"), Core, Wait("B"), Kernel({"B"}, {"E"})>>

current(filter) ==
  <<[op |-> "clear"], [op |-> "computeCurrent"], [op |-> "commJ"]>> \o
  (IF filter
   THEN <<Wait("J"), Comm("Jrecv"), Wait("Jrecv"), Kernel({"Jrecv"}, {"E"})>>
   ELSE <<Core, Wait("J"), Kernel({}, {"E"})>>)

update_afterCurrent ==
  <<Comm("E"), Core, Wait("E"), Kernel({"E"}, {"B"}), Comm("B"), Wait("B")>>

Program == [filter \in BOOLEAN |->
  <<Kernel({"E", "B"}, {})>> \o update_beforeCurrent \o current(filter) \o update_afterCurrent]

Op(r) == Program[filtered][pc[r]]
AtEnd(r) == pc[r] > Len(Program[filtered])

(* The kernel that adds the current to the border.                          *)
AddsCurrent(r) ==
  /\ Op(r).op = "kernel" /\ Op(r).writes = {"E"}
  /\ pc[r] > 1 + Len(update_beforeCurrent)

Advance(r) == /\ pc' = [pc EXCEPT ![r] = @ + 1]
              /\ UNCHANGED <<filtered, step, exchange>>

Runs(r, op) == /\ step[r] < MaxStep /\ ~AtEnd(r)
               /\ Op(r).op = op /\ stack[r] = <<>>

-----------------------------------------------------------------------------
(* Variants of definitions below with an error the code could have had.     *)
(* Nothing uses them but the checks that the properties notice the error.   *)

(* An event without the receives.                                           *)
ExchangedCopies(r, f) == \A c \in Outgoing(r) : ~d2h[c][f]

(* An event without the copies out of the device.                           *)
ExchangedReceives(r, f) ==
  IF f = "J" THEN insertJ[r].pc = "Finished"
  ELSE \A c \in Incoming(r) : inbox[c][f].st = "none"

(* Inserts as soon as one message has come.                                 *)
InsertFieldEarly(r) ==
  /\ insertJ[r].pc = "WaitForReceived"
  /\ \E c \in Incoming(r) : inbox[c]["J"].st = "none"
  /\ ~(Op(r).op = "commJ" /\ exchange[r] <= 2)
  /\ insertJ' = [insertJ EXCEPT ![r].pc = "WaitInsertFinished"]
  /\ UNCHANGED <<mainVars, fieldVars, sendVars, inbox, stack, dev, sendJ>>

(* Leaves the task in the state it has while it launches the kernels.       *)
InsertFieldState(r) ==
  /\ insertJ[r].pc = "WaitForReceived"
  /\ \A c \in Incoming(r) : inbox[c]["J"].st = "none"
  /\ ~(Op(r).op = "commJ" /\ exchange[r] <= 2)
  /\ insertJ' = [insertJ EXCEPT ![r].pc = "Wait"]
  /\ UNCHANGED <<mainVars, fieldVars, sendVars, inbox, stack, dev, sendJ>>

-----------------------------------------------------------------------------
Init ==
  /\ filtered \in Filters
  /\ step = [r \in Ranks |-> 0]
  /\ pc = [r \in Ranks |-> 1]
  /\ exchange = [r \in Ranks |-> 1]
  /\ stack = [r \in Ranks |-> <<>>]
  /\ border = [r \in Ranks |-> [f \in Fields |-> 0]]
  /\ guard = [c \in Channels |-> [f \in Fields |-> 0]]
  /\ deposited = [r \in Ranks |-> 0]
  /\ added = [r \in Ranks |-> [c \in Incoming(r) |-> <<>>]]
  /\ dev = [c \in Channels |-> 0]
  /\ d2h = [c \in Channels |-> [f \in Fields |-> FALSE]]
  /\ host = [c \in Channels |-> [f \in Fields |-> 0]]
  /\ sending = [c \in Channels |-> [f \in Fields |-> FALSE]]
  /\ net = [c \in Channels |-> [f \in Fields |-> <<>>]]
  /\ inbox = [c \in Channels |-> [f \in Fields |-> [st |-> "none", data |-> 0]]]
  /\ sendJ = [c \in Channels |-> "Finished"]
  /\ insertJ = [r \in Ranks |-> [pc |-> "Finished", next |-> 1]]

(* A kernel for BORDER, or for both areas.                                  *)
RunKernel(r) ==
  /\ Runs(r, "kernel")
  /\ border' = [border EXCEPT ![r] = [f \in Fields |-> @[f] + (IF f \in Op(r).writes THEN 1 ELSE 0)]]
  /\ Advance(r)
  /\ UNCHANGED <<guard, deposited, added, sendVars, inbox, taskVars>>

RunCore(r) ==
  /\ Runs(r, "core")
  /\ Advance(r)
  /\ UNCHANGED <<fieldVars, sendVars, inbox, taskVars>>

(* FieldJ::clear                                                            *)
Clear(r) ==
  /\ Runs(r, "clear")
  /\ deposited' = [deposited EXCEPT ![r] = 0]
  /\ added' = [added EXCEPT ![r] = [c \in Incoming(r) |-> <<>>]]
  /\ Advance(r)
  /\ UNCHANGED <<border, guard, sendVars, inbox, taskVars>>

(* computeCurrent of all species, in CORE and BORDER: it writes the guards. *)
ComputeCurrent(r) ==
  /\ Runs(r, "computeCurrent")
  /\ deposited' = [deposited EXCEPT ![r] = step[r] + 1]
  /\ border' = [border EXCEPT ![r]["Jrecv"] = @ + 1]
  /\ Advance(r)
  /\ UNCHANGED <<guard, added, sendVars, inbox, taskVars>>

-----------------------------------------------------------------------------
(***************************************************************************)
(* GridBuffer::asyncCommunication: for every exchange a receive and the    *)
(* send to the opposite side, each after a wait for the last one that used *)
(* the same buffer.  exchange[r] counts them.                              *)
(***************************************************************************)
Direction(r) == Directions[(exchange[r] + 1) \div 2]

NextExchange(r, last) ==
  /\ UNCHANGED <<filtered, step>>
  /\ IF exchange[r] = last
     THEN pc' = [pc EXCEPT ![r] = @ + 1] /\ exchange' = [exchange EXCEPT ![r] = 1]
     ELSE exchange' = [exchange EXCEPT ![r] = @ + 1] /\ UNCHANGED pc

AsyncReceive(r) ==
  LET c == ChannelIn(r, Direction(r))
      f == Op(r).field
  IN  /\ Runs(r, "comm") /\ exchange[r] % 2 = 1
      /\ inbox[c][f].st = "none"
      /\ inbox' = [inbox EXCEPT ![c][f].st = "posted"]
      /\ NextExchange(r, 4)
      /\ UNCHANGED <<fieldVars, sendVars, taskVars>>

SendFree(c, f) == ~d2h[c][f] /\ ~sending[c][f]

AsyncSend(r) ==
  LET c == <<r, Mirrored(Direction(r))>>
      f == Op(r).field
  IN  /\ Runs(r, "comm") /\ exchange[r] % 2 = 0
      /\ SendFree(c, f)
      /\ d2h' = [d2h EXCEPT ![c][f] = TRUE]
      /\ NextExchange(r, 4)
      /\ UNCHANGED <<host, sending, net, fieldVars, inbox, taskVars>>

(* The event asyncCommunication returns: the receives, and the copies out   *)
(* of the device but not the sends.  For FieldJ that of its two tasks.      *)
Exchanged(r, f) ==
  IF f = "J"
  THEN insertJ[r].pc = "Finished" /\ \A c \in Outgoing(r) : sendJ[c] = "Finished"
  ELSE /\ \A c \in Incoming(r) : inbox[c][f].st = "none"
       /\ \A c \in Outgoing(r) : ~d2h[c][f]

(* The wait before the kernel after __setTransactionEvent.                  *)
WaitFor(r) ==
  /\ Runs(r, "wait")
  /\ Exchanged(r, Op(r).field)
  /\ Advance(r)
  /\ UNCHANGED <<fieldVars, sendVars, inbox, taskVars>>

EndStep(r) ==
  /\ AtEnd(r)
  /\ step' = [step EXCEPT ![r] = @ + 1]
  /\ pc' = [pc EXCEPT ![r] = 1]
  /\ UNCHANGED <<filtered, exchange, fieldVars, sendVars, inbox, taskVars>>

-----------------------------------------------------------------------------
(***************************************************************************)
(* FieldJ::asyncCommunication creates TaskFieldReceiveAndInsert, whose     *)
(* init posts the receives one after another, and then TaskFieldSend,      *)
(* whose init launches the kernels that bash the guards.                   *)
(***************************************************************************)
ReceiveJ(r) ==
  LET c == ChannelIn(r, Directions[exchange[r]])
  IN  /\ Runs(r, "commJ") /\ exchange[r] <= 2
      /\ inbox[c]["J"].st = "none"
      /\ inbox' = [inbox EXCEPT ![c]["J"].st = "posted"]
      /\ insertJ' = [insertJ EXCEPT ![r] = [pc |-> "WaitForReceived", next |-> 1]]
      /\ NextExchange(r, 3)
      /\ UNCHANGED <<fieldVars, sendVars, stack, dev, sendJ>>

SendJ(r) ==
  /\ Runs(r, "commJ") /\ exchange[r] = 3
  /\ sendJ' = [c \in Channels |-> IF c \in Outgoing(r) THEN "WaitForBash" ELSE sendJ[c]]
  /\ NextExchange(r, 3)
  /\ UNCHANGED <<fieldVars, sendVars, inbox, stack, dev, insertJ>>

(* The device has run KernelBashCurrent.                                    *)
BashField(c) ==
  /\ sendJ[c] = "WaitForBash"
  /\ dev' = [dev EXCEPT ![c] = deposited[c[1]]]
  /\ sendJ' = [sendJ EXCEPT ![c] = "Bashed"]
  /\ UNCHANGED <<mainVars, fieldVars, sendVars, inbox, stack, insertJ>>

(* TaskFieldSendExchange finds the bash finished and calls asyncSend, which *)
(* waits inside this task for the last send of the buffer.                  *)
InitSend(c) ==
  /\ sendJ[c] = "Bashed"
  /\ sendJ' = [sendJ EXCEPT ![c] = "InitSend"]
  /\ stack' = [stack EXCEPT ![c[1]] = Append(@, c)]
  /\ UNCHANGED <<mainVars, fieldVars, sendVars, inbox, dev, insertJ>>

StartSend(c) ==
  /\ sendJ[c] = "InitSend"
  /\ Last(stack[c[1]]) = c
  /\ SendFree(c, "J")
  /\ d2h' = [d2h EXCEPT ![c]["J"] = TRUE]
  /\ sendJ' = [sendJ EXCEPT ![c] = "WaitForSendEnd"]
  /\ stack' = [stack EXCEPT ![c[1]] = Front(@)]
  /\ UNCHANGED <<mainVars, fieldVars, host, sending, net, inbox, dev, insertJ>>

(* It ends with the copy to the host, not with the send.                    *)
SendEnd(c) ==
  /\ sendJ[c] = "WaitForSendEnd"
  /\ ~d2h[c]["J"]
  /\ sendJ' = [sendJ EXCEPT ![c] = "Finished"]
  /\ UNCHANGED <<mainVars, fieldVars, sendVars, inbox, stack, dev, insertJ>>

(* All have been received: the kernels are launched.                        *)
InsertField(r) ==
  /\ insertJ[r].pc = "WaitForReceived"
  /\ \A c \in Incoming(r) : inbox[c]["J"].st = "none"
  /\ ~(Op(r).op = "commJ" /\ exchange[r] <= 2)
  /\ insertJ' = [insertJ EXCEPT ![r].pc = "WaitInsertFinished"]
  /\ UNCHANGED <<mainVars, fieldVars, sendVars, inbox, stack, dev, sendJ>>

(* The device has run KernelInsertCurrent of the next exchange.             *)
InsertCurrent(r) ==
  LET c == ChannelIn(r, Directions[insertJ[r].next])
  IN  /\ insertJ[r].pc = "WaitInsertFinished" /\ insertJ[r].next <= 2
      /\ added' = [added EXCEPT ![r][c] = Append(@, inbox[c]["J"].data)]
      /\ border' = [border EXCEPT ![r]["Jrecv"] = @ + 1]
      /\ insertJ' = [insertJ EXCEPT ![r].next = @ + 1]
      /\ UNCHANGED <<mainVars, guard, deposited, sendVars, inbox, stack, dev, sendJ>>

InsertEnd(r) ==
  /\ insertJ[r].pc = "WaitInsertFinished" /\ insertJ[r].next > 2
  /\ insertJ' = [insertJ EXCEPT ![r].pc = "Finished"]
  /\ UNCHANGED <<mainVars, fieldVars, sendVars, inbox, stack, dev, sendJ>>

-----------------------------------------------------------------------------
(***************************************************************************)
(* TaskSend, TaskReceive and MPI.                                          *)
(***************************************************************************)
(* What the copy to the host takes: the border, and for FieldJ the buffer   *)
(* the guard was bashed to.                                                 *)
Outbox(c, f) == IF f = "J" THEN dev[c] ELSE border[c[1]][f]

(* The copy has finished, and TaskSend starts the MPI send.                 *)
StartMPISend(c, f) ==
  /\ d2h[c][f]
  /\ d2h' = [d2h EXCEPT ![c][f] = FALSE]
  /\ host' = [host EXCEPT ![c][f] = Outbox(c, f)]
  /\ \E protocol \in Protocols[c[2]] :
       /\ sending' = [sending EXCEPT ![c][f] = (protocol = "rendezvous")]
       /\ net' = [net EXCEPT ![c][f] = Append(@, [protocol |-> protocol, data |-> Outbox(c, f)])]
  /\ UNCHANGED <<mainVars, fieldVars, inbox, taskVars>>

(* MPI transfers the oldest message to the posted receive; one that was not *)
(* buffered is read from the host buffer now.                               *)
Transfer(c, f) ==
  /\ inbox[c][f].st = "posted"
  /\ net[c][f] # <<>>
  /\ LET m == Head(net[c][f]) IN
     /\ inbox' = [inbox EXCEPT ![c][f] =
                    [st |-> "copying", data |-> IF m.protocol = "eager" THEN m.data ELSE host[c][f]]]
     /\ sending' = [sending EXCEPT ![c][f] = @ /\ m.protocol = "eager"]
  /\ net' = [net EXCEPT ![c][f] = Tail(@)]
  /\ UNCHANGED <<mainVars, fieldVars, d2h, host, taskVars>>

(* The copy to the device has finished.  The exchanges of FieldJ have a     *)
(* buffer of their own, those of the others are the guard; those of Jrecv   *)
(* overwrite what was deposited there.                                      *)
CopyReceived(c, f) ==
  /\ inbox[c][f].st = "copying"
  /\ inbox' = [inbox EXCEPT ![c][f].st = "none"]
  /\ guard' = IF f = "J" THEN guard ELSE [guard EXCEPT ![c][f] = inbox[c][f].data]
  /\ deposited' = IF f = "Jrecv" THEN [deposited EXCEPT ![Dst(c)] = 0] ELSE deposited
  /\ UNCHANGED <<mainVars, border, added, sendVars, taskVars>>

-----------------------------------------------------------------------------
Ended == \A r \in Ranks : step[r] = MaxStep

RankStep(r) ==
  \/ RunKernel(r) \/ RunCore(r) \/ Clear(r) \/ ComputeCurrent(r)
  \/ AsyncReceive(r) \/ AsyncSend(r) \/ WaitFor(r) \/ EndStep(r)
  \/ ReceiveJ(r) \/ SendJ(r) \/ InsertField(r) \/ InsertCurrent(r) \/ InsertEnd(r)

ChannelStep(c) == BashField(c) \/ InitSend(c) \/ StartSend(c) \/ SendEnd(c)

MessageStep(c, f) == StartMPISend(c, f) \/ Transfer(c, f) \/ CopyReceived(c, f)

Next ==
  \/ \E r \in Ranks : RankStep(r)
  \/ \E c \in Channels : ChannelStep(c)
  \/ \E c \in Channels, f \in Fields : MessageStep(c, f)

Spec == Init /\ [][Next]_vars

(* The host thread works or polls, the device and MPI make progress.        *)
FairSpec ==
  /\ Spec
  /\ \A r \in Ranks : WF_vars(RankStep(r))
  /\ \A c \in Channels : WF_vars(BashField(c)) /\ WF_vars(InitSend(c)) /\ WF_vars(StartSend(c)) /\ WF_vars(SendEnd(c))
  /\ \A c \in Channels, f \in Fields : WF_vars(StartMPISend(c, f)) /\ WF_vars(Transfer(c, f)) /\ WF_vars(CopyReceived(c, f))

-----------------------------------------------------------------------------
AtKernel(r) == step[r] < MaxStep /\ ~AtEnd(r) /\ Op(r).op = "kernel"

(* A kernel that reads the guard of a field finds there the border of the  *)
(* neighbour as of the same point of the step, neither an older nor a      *)
(* newer one, and no copy into the guard is still to come.                 *)
GuardsFresh ==
  \A r \in Ranks : AtKernel(r) =>
    \A f \in Op(r).reads, c \in Incoming(r) :
      guard[c][f] = border[r][f] /\ inbox[c][f].st = "none"

(* No kernel writes the border of a field, and nothing clears the current, *)
(* while a copy to a send buffer has still to read it.                     *)
BordersStable ==
  \A r \in Ranks : \A c \in Outgoing(r) :
    /\ AtKernel(r) => \A f \in Op(r).writes : ~d2h[c][f]
    /\ Runs(r, "clear") => sendJ[c] = "Finished" /\ ~d2h[c]["Jrecv"]

(* When the current is added to the fields of the border, the current      *)
(* every neighbour deposited in its guard in this step, and none of an     *)
(* other step, has been added to it once.                                  *)
CurrentComplete ==
  \A r \in Ranks : AtKernel(r) /\ AddsCurrent(r) =>
    \A c \in Incoming(r) : added[r][c] = <<step[r] + 1>>

(* All ranks get through their steps: no rank waits forever for a message, *)
(* a buffer or a nested wait.                                              *)
StepsEnd == <>Ended
=============================================================================
