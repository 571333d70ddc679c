----------------------- MODULE ParticleExchangeProofs -----------------------
(***************************************************************************)
(* Proofs about ParticleExchange, for any ranks and neighbour relations,   *)
(* any number of steps, sizes of guards and buffers, and any choice of the *)
(* transfer protocol.                                                      *)
(*                                                                         *)
(* A part of a channel is a stream of messages: the last one received,     *)
(* those under way, and the content of the send buffer on the device       *)
(* unless it has been sent.  In a stream each message determines step and  *)
(* round of the next: a full one is followed by the next round of its      *)
(* step, any other by the first round of the next step.  This is how the   *)
(* two ranks, and the two parts, agree without telling each other.         *)
(***************************************************************************)
EXTENDS ParticleExchange, SequenceTheorems, TLAPS

Message == [protocol : {"eager", "rendezvous"}, size : 0 .. MaxSize, data : Data]

Inbox == [st : {"none", "posted", "copying"}, data : Data, size : 0 .. MaxSize]

(* b is the message after a.                                                *)
Follows(a, b) ==
  IF a.n = MaxSize
  THEN b.step = a.step /\ b.round = a.round + 1
  ELSE b.step = a.step + 1 /\ b.round = 1

(* The particles of the step of d sent with d and the rounds before it.     *)
Sum(d) == (d.round - 1) * MaxSize + d.n

(* The data of a stream: got is what was received last, q the messages      *)
(* under way.                                                               *)
At(got, q, i) == IF i = 0 THEN got ELSE q[i].data

(* The send buffer of c has something that was not sent as part p yet.      *)
Unsent(c, p) ==
  \/ d2h[c][p]
  \/ send[c].pc = "WaitForBash" /\ ~send[c].bash
  \/ send[c].pc = "SendFrames"
  \/ send[c].pc = "SendIndex" /\ p = "index"

(* Part p of the message the receiver waits for has come.                   *)
Arrived(c, p) == recv[c].pc = "WaitForReceive" /\ inbox[c][p].st # "posted"

(* By how many messages of part p the network is behind the buffer of the   *)
(* sender, and the receiver ahead of its last insertion.                    *)
Lag(c, p) == IF Unsent(c, p) THEN 1 ELSE 0

Ahead(c, p) == IF Arrived(c, p) THEN 1 ELSE 0

(* The messages of a stream follow each other, up to the buffer dv; b is 1  *)
(* if dv itself has not been sent yet, 0 if it has.                         *)
Chain(got, q, dv, b) ==
  /\ \A i \in 1 .. Len(q) : Follows(At(got, q, i - 1), At(got, q, i))
  /\ IF b = 1 THEN Follows(At(got, q, Len(q)), dv) ELSE At(got, q, Len(q)) = dv
  /\ \A i \in 0 .. Len(q) : At(got, q, i).step <= dv.step

(* Two streams agree, counted from their ends at the sender.                *)
Aligned(got1, q1, b1, got2, q2, b2) ==
  \A i \in 0 .. Len(q1), j \in 0 .. Len(q2) :
    Len(q1) - i + b1 = Len(q2) - j + b2 => At(got1, q1, i) = At(got2, q2, j)

(* MPI reads the host buffer only for the last message, and finds in it     *)
(* what was to be sent.                                                     *)
Carried(q, busy, buffer) ==
  /\ \A i \in 1 .. Len(q) :
       /\ q[i].size = q[i].data.n
       /\ q[i].protocol = "rendezvous" => i = Len(q) /\ busy /\ q[i].data = buffer
  /\ busy => Len(q) # 0 /\ q[Len(q)].protocol = "rendezvous"

(* The particles of the receiver's step k inserted so far.                  *)
Inserted(v, in, k) ==
  IF in.data.step # k THEN 0
  ELSE IF v.kernel \/ v.pc = "InitInsert" \/ (v.pc = "WaitForReceive" /\ in.st # "posted")
  THEN Sum(in.data) - in.data.n
  ELSE Sum(in.data)

(* What was owed in step k, when the receiver is in step now and has        *)
(* inserted ins of it; left is what is still to be inserted.                *)
Owed(left, ins, now, k) == left[k] + IF k = now THEN ins ELSE 0

(* The rounds of a step never carry more than was owed, and the last one    *)
(* completes it.                                                            *)
Books(left, ins, now, got, q) ==
  \A i \in 0 .. Len(q) :
    LET d == At(got, q, i) IN
    d.step >= 1 /\ d.step >= now =>
      /\ Sum(d) <= Owed(left, ins, now, d.step)
      /\ d.n < MaxSize => Sum(d) = Owed(left, ins, now, d.step)

(* What was owed in the sender's step S has been put into messages or is    *)
(* left in the guard.                                                       *)
Balanced(left, ins, now, S, g, dv) ==
  S >= 1 /\ S >= now => Owed(left, ins, now, S) = g + IF dv.step = S THEN Sum(dv) ELSE 0

(* Where the sender is, S being its step: dv is what its buffer holds.      *)
SenderAt(s, S, dv, g) ==
  /\ s.bash => s.pc = "WaitForBash"
  /\ s.pc # "Finished" => S >= 1
  /\ s.pc = "Constructor" => s.round = 0 /\ dv.n < MaxSize /\ dv.step + 1 = S
  /\ s.pc = "Init" => Follows(dv, [step |-> S, round |-> s.round + 1])
  /\ s.bash => Follows(dv, [step |-> S, round |-> s.round])
  /\ s.pc \in {"WaitForBash", "SendFrames", "SendIndex", "WaitForSend"} /\ ~s.bash =>
       /\ dv.step = S
       /\ dv.round = s.round
       /\ dv.n = MaxSize \/ g = 0
  /\ s.pc \in {"SendFrames", "SendIndex", "WaitForSend"} => s.lastSize = dv.n
  /\ s.pc \in {"WaitForSendEnd", "Finished"} => dv.step = S /\ dv.n < MaxSize /\ g = 0

(* The copies of part p to the host and the MPI send.                       *)
CopyAt(c, p) ==
  /\ d2h[c][p] =>
       /\ send[c].pc = "WaitForSend" \/ (send[c].pc = "SendIndex" /\ p = "frames")
       /\ ~sending[c][p]
       /\ hostSize[c][p] = dev[c].n

(* Where the receiver is, R being its step.                                 *)
ReceiverAt(v, R, in) ==
  /\ in.size = in.data.n
  /\ v.pc # "Finished" => R >= 1
  /\ v.pc = "Finished" => in.st = "none" /\ in.data.n < MaxSize /\ in.data.step = R
  /\ v.pc = "WaitForReceive" =>
       IF in.st # "posted" THEN in.data.step = R
       ELSE in.data.step = IF in.data.n = MaxSize THEN R ELSE R - 1
  /\ v.pc \in {"InitInsert", "WaitForInsert"} => in.st = "none" /\ in.data.step = R

Inserting(c) ==
  /\ recv[c].pc \in {"InitInsert", "WaitForInsert"} => recv[c].lastSize = inbox[c]["frames"].size
  /\ recv[c].kernel => recv[c].pc = "WaitForInsert"
  /\ recv[c].kernel \/ recv[c].pc = "InitInsert" => inbox[c]["index"].size # 0

PartOK(c, p) ==
  /\ CopyAt(c, p)
  /\ ReceiverAt(recv[c], step[Dst[c]], inbox[c][p])
  /\ Chain(inbox[c][p].data, net[c][p], dev[c], Lag(c, p))
  /\ Carried(net[c][p], sending[c][p], host[c][p])

PartsAgree(c) ==
  /\ Len(net[c]["frames"]) + Lag(c, "frames") + Ahead(c, "frames")
       = Len(net[c]["index"]) + Lag(c, "index") + Ahead(c, "index")
  /\ Aligned(inbox[c]["frames"].data, net[c]["frames"], Lag(c, "frames"),
             inbox[c]["index"].data, net[c]["index"], Lag(c, "index"))

Ins(c) == Inserted(recv[c], inbox[c]["index"], step[Dst[c]])

Ledger(c) ==
  /\ Books(due[c], Ins(c), step[Dst[c]], inbox[c]["index"].data, net[c]["index"])
  /\ Balanced(due[c], Ins(c), step[Dst[c]], step[Src[c]], guard[c], dev[c])

ChannelOK(c) ==
  /\ SenderAt(send[c], step[Src[c]], dev[c], guard[c])
  /\ Inserting(c)
  /\ \A p \in Parts : PartOK(c, p)
  /\ PartsAgree(c)
  /\ Ledger(c)

(* The inductive invariant.                                                 *)
Inv == TypeOK /\ \A c \in Channels : ChannelOK(c)
-----------------------------------------------------------------------------
(* The streams.                                                             *)

(* The entries of a stream are data.                                        *)
LEMMA AtType ==
  ASSUME NEW got \in Data, NEW q \in Seq(Message), NEW i \in 0 .. Len(q)
  PROVE  At(got, q, i) \in Data
<1>1. CASE i = 0
  BY <1>1 DEF At
<1>2. CASE i # 0
  <2>1. i \in 1 .. Len(q)
    BY <1>2
  <2>2. q[i] \in Message
    BY <2>1, ElementOfSeq
  <2> QED
    BY <1>2, <2>2 DEF At, Message
<1> QED
  BY <1>1, <1>2

(* The numbers in data.                                                     *)
LEMMA DataType ==
  ASSUME NEW d \in Data
  PROVE  d.step \in 0 .. MaxStep /\ d.round \in Nat /\ d.n \in 0 .. MaxSize /\ d.n \in Int
           /\ d.step \in Int /\ d.round \in Int
BY ExchangeAssumption DEF Data

(* A message appended to a stream.                                          *)
LEMMA AtAppend ==
  ASSUME NEW got \in Data, NEW q \in Seq(Message), NEW m \in Message
  PROVE  /\ Append(q, m) \in Seq(Message)
         /\ Len(Append(q, m)) = Len(q) + 1
         /\ Len(q) \in Nat
         /\ \A i \in 0 .. Len(q) : At(got, Append(q, m), i) = At(got, q, i)
         /\ At(got, Append(q, m), Len(q) + 1) = m.data
BY DEF At

(* The first message taken from a stream.                                   *)
LEMMA AtTail ==
  ASSUME NEW got \in Data, NEW q \in Seq(Message), q # <<>>
  PROVE  /\ Head(q) \in Message
         /\ Head(q) = q[1]
         /\ Tail(q) \in Seq(Message)
         /\ Len(q) \in Nat
         /\ 1 <= Len(q)
         /\ Len(Tail(q)) = Len(q) - 1
         /\ \A i \in 1 .. Len(Tail(q)) : Tail(q)[i] = q[i + 1]
         /\ \A i \in 0 .. Len(Tail(q)) : At(Head(q).data, Tail(q), i) = At(got, q, i + 1)
<1>1. /\ Head(q) \in Message
      /\ Tail(q) \in Seq(Message)
      /\ Len(Tail(q)) = Len(q) - 1
      /\ \A i \in 1 .. Len(Tail(q)) : Tail(q)[i] = q[i + 1]
  BY HeadTailProperties
<1>2. Head(q) = q[1] /\ Len(q) \in Nat /\ 1 <= Len(q)
  BY EmptySeq
<1>3. \A i \in 0 .. Len(Tail(q)) : At(Head(q).data, Tail(q), i) = At(got, q, i + 1)
  BY <1>1, <1>2 DEF At
<1> QED
  BY <1>1, <1>2, <1>3

(* The buffer is sent.                                                      *)
LEMMA ChainSend ==
  ASSUME NEW got \in Data, NEW q \in Seq(Message), NEW m \in Message, NEW dv \in Data,
         m.data = dv, Chain(got, q, dv, 1)
  PROVE  Chain(got, Append(q, m), dv, 0)
<1>1. /\ Len(Append(q, m)) = Len(q) + 1
      /\ Len(q) \in Nat
      /\ \A i \in 0 .. Len(q) : At(got, Append(q, m), i) = At(got, q, i)
      /\ At(got, Append(q, m), Len(q) + 1) = dv
  BY AtAppend
<1>2. ASSUME NEW i \in 1 .. Len(q) + 1
      PROVE  Follows(At(got, Append(q, m), i - 1), At(got, Append(q, m), i))
  <2>1. CASE i = Len(q) + 1
    BY <1>1, <2>1 DEF Chain
  <2>2. CASE i # Len(q) + 1
    <3>1. i \in 1 .. Len(q) /\ i \in 0 .. Len(q) /\ i - 1 \in 0 .. Len(q)
      BY <1>1, <2>2
    <3> QED
      BY <1>1, <3>1 DEF Chain
  <2> QED
    BY <2>1, <2>2
<1>3. ASSUME NEW i \in 0 .. Len(q) + 1
      PROVE  At(got, Append(q, m), i).step <= dv.step
  <2>1. CASE i = Len(q) + 1
    BY <1>1, <2>1, DataType
  <2>2. CASE i # Len(q) + 1
    BY <1>1, <2>2 DEF Chain
  <2> QED
    BY <2>1, <2>2
<1> QED
  BY <1>1, <1>2, <1>3 DEF Chain

(* The first message is received: it follows the one received before.       *)
LEMMA ChainReceive ==
  ASSUME NEW got \in Data, NEW q \in Seq(Message), NEW dv \in Data, NEW b \in {0, 1},
         q # <<>>, Chain(got, q, dv, b)
  PROVE  Chain(Head(q).data, Tail(q), dv, b) /\ Follows(got, Head(q).data)
<1>1. /\ Head(q) = q[1]
      /\ Len(q) \in Nat
      /\ 1 <= Len(q)
      /\ Len(Tail(q)) = Len(q) - 1
      /\ \A i \in 0 .. Len(Tail(q)) : At(Head(q).data, Tail(q), i) = At(got, q, i + 1)
  BY AtTail
<1>2. Follows(got, Head(q).data)
  <2>1. Follows(At(got, q, 1 - 1), At(got, q, 1))
    BY <1>1 DEF Chain
  <2>2. At(got, q, 1 - 1) = got /\ At(got, q, 1) = Head(q).data
    BY <1>1 DEF At
  <2> QED
    BY <2>1, <2>2
<1>3. ASSUME NEW i \in 1 .. Len(Tail(q))
      PROVE  Follows(At(Head(q).data, Tail(q), i - 1), At(Head(q).data, Tail(q), i))
  <2>1. /\ i + 1 \in 1 .. Len(q)
        /\ i - 1 \in 0 .. Len(Tail(q))
        /\ i \in 0 .. Len(Tail(q))
        /\ (i + 1) - 1 = i
        /\ (i - 1) + 1 = i
    BY <1>1
  <2>2. Follows(At(got, q, (i + 1) - 1), At(got, q, i + 1))
    BY <2>1 DEF Chain
  <2>3. /\ At(Head(q).data, Tail(q), i - 1) = At(got, q, (i - 1) + 1)
        /\ At(Head(q).data, Tail(q), i) = At(got, q, i + 1)
    BY <1>1, <2>1
  <2> QED
    BY <2>1, <2>2, <2>3
<1>4. At(Head(q).data, Tail(q), Len(Tail(q))) = At(got, q, Len(q))
  BY <1>1
<1>5. ASSUME NEW i \in 0 .. Len(Tail(q))
      PROVE  At(Head(q).data, Tail(q), i).step <= dv.step
  BY <1>1 DEF Chain
<1> QED
  BY <1>2, <1>3, <1>4, <1>5 DEF Chain

(* The buffer gets the next content.                                        *)
LEMMA ChainFill ==
  ASSUME NEW got \in Data, NEW q \in Seq(Message), NEW dv \in Data, NEW dw \in Data,
         Chain(got, q, dv, 0), Follows(dv, dw)
  PROVE  Chain(got, q, dw, 1)
<1>1. dv.step <= dw.step
  BY DataType DEF Follows
<1>2. ASSUME NEW i \in 0 .. Len(q)
      PROVE  At(got, q, i).step <= dw.step
  <2>1. At(got, q, i).step <= dv.step /\ At(got, q, i) \in Data
    BY AtType DEF Chain
  <2> QED
    BY <1>1, <2>1, DataType
<1> QED
  BY <1>2 DEF Chain

(* Alignment does not depend on the order of the streams.                   *)
LEMMA AlignedSym ==
  ASSUME NEW got1, NEW q1, NEW b1, NEW got2, NEW q2, NEW b2,
         Aligned(got1, q1, b1, got2, q2, b2)
  PROVE  Aligned(got2, q2, b2, got1, q1, b1)
BY Zenon DEF Aligned

(* The buffer is sent in one of two streams.                                *)
LEMMA AlignedSend ==
  ASSUME NEW got1 \in Data, NEW q1 \in Seq(Message), NEW m \in Message, NEW dv \in Data,
         NEW got2 \in Data, NEW q2 \in Seq(Message), NEW b2 \in {0, 1},
         Aligned(got1, q1, 1, got2, q2, b2),
         m.data = dv, Chain(got2, q2, dv, b2)
  PROVE  Aligned(got1, Append(q1, m), 0, got2, q2, b2)
<1>1. /\ Len(Append(q1, m)) = Len(q1) + 1
      /\ Len(q1) \in Nat
      /\ \A i \in 0 .. Len(q1) : At(got1, Append(q1, m), i) = At(got1, q1, i)
      /\ At(got1, Append(q1, m), Len(q1) + 1) = dv
  BY AtAppend
<1>2. Len(q2) \in Nat
  OBVIOUS
<1>3. SUFFICES ASSUME NEW i \in 0 .. Len(Append(q1, m)), NEW j \in 0 .. Len(q2),
                      Len(Append(q1, m)) - i + 0 = Len(q2) - j + b2
               PROVE  At(got1, Append(q1, m), i) = At(got2, q2, j)
  BY DEF Aligned
<1>4. CASE i = Len(q1) + 1
  <2>1. b2 = 0 /\ j = Len(q2)
    BY <1>1, <1>2, <1>3, <1>4
  <2> QED
    BY <1>1, <1>4, <2>1 DEF Chain
<1>5. CASE i # Len(q1) + 1
  <2>1. i \in 0 .. Len(q1) /\ Len(q1) - i + 1 = Len(q2) - j + b2
    BY <1>1, <1>2, <1>3, <1>5
  <2> QED
    BY <1>1, <2>1 DEF Aligned
<1> QED
  BY <1>4, <1>5

(* The first message is received in one of two streams.                     *)
LEMMA AlignedReceive ==
  ASSUME NEW got1 \in Data, NEW q1 \in Seq(Message), NEW b1 \in {0, 1},
         NEW got2 \in Data, NEW q2 \in Seq(Message), NEW b2 \in {0, 1},
         q1 # <<>>, Aligned(got1, q1, b1, got2, q2, b2)
  PROVE  Aligned(Head(q1).data, Tail(q1), b1, got2, q2, b2)
<1>1. /\ Len(q1) \in Nat
      /\ Len(Tail(q1)) = Len(q1) - 1
      /\ \A i \in 0 .. Len(Tail(q1)) : At(Head(q1).data, Tail(q1), i) = At(got1, q1, i + 1)
  BY AtTail
<1>2. Len(q2) \in Nat
  OBVIOUS
<1>3. SUFFICES ASSUME NEW i \in 0 .. Len(Tail(q1)), NEW j \in 0 .. Len(q2),
                      Len(Tail(q1)) - i + b1 = Len(q2) - j + b2
               PROVE  At(Head(q1).data, Tail(q1), i) = At(got2, q2, j)
  BY DEF Aligned
<1>4. i + 1 \in 0 .. Len(q1) /\ Len(q1) - (i + 1) + b1 = Len(q2) - j + b2
  BY <1>1, <1>2, <1>3
<1> QED
  BY <1>1, <1>4 DEF Aligned

(* The buffer gets the next content.                                        *)
LEMMA AlignedFill ==
  ASSUME NEW got1 \in Data, NEW q1 \in Seq(Message), NEW got2 \in Data, NEW q2 \in Seq(Message),
         Aligned(got1, q1, 0, got2, q2, 0)
  PROVE  Aligned(got1, q1, 1, got2, q2, 1)
<1>1. Len(q1) \in Nat /\ Len(q2) \in Nat
  OBVIOUS
<1>2. SUFFICES ASSUME NEW i \in 0 .. Len(q1), NEW j \in 0 .. Len(q2),
                      Len(q1) - i + 1 = Len(q2) - j + 1
               PROVE  At(got1, q1, i) = At(got2, q2, j)
  BY DEF Aligned
<1>3. Len(q1) - i + 0 = Len(q2) - j + 0
  BY <1>1, <1>2
<1> QED
  BY <1>3 DEF Aligned

(* Streams of the same length agree on what was received last.              *)
LEMMA AlignedEnds ==
  ASSUME NEW got1 \in Data, NEW q1 \in Seq(Message), NEW b1 \in {0, 1},
         NEW got2 \in Data, NEW q2 \in Seq(Message), NEW b2 \in {0, 1},
         Aligned(got1, q1, b1, got2, q2, b2), Len(q1) + b1 = Len(q2) + b2
  PROVE  got1 = got2
<1>1. Len(q1) \in Nat /\ Len(q2) \in Nat
  OBVIOUS
<1>2. Len(q1) - 0 + b1 = Len(q2) - 0 + b2 /\ 0 \in 0 .. Len(q1) /\ 0 \in 0 .. Len(q2)
  BY <1>1
<1>3. At(got1, q1, 0) = At(got2, q2, 0)
  BY <1>2 DEF Aligned
<1> QED
  BY <1>3 DEF At

(* The buffer is sent with its size, to be read from the host buffer unless *)
(* the message is buffered.                                                 *)
LEMMA CarriedSend ==
  ASSUME NEW q \in Seq(Message), NEW m \in Message, NEW old, NEW dv \in Data,
         Carried(q, FALSE, old), m.size = dv.n, m.data = dv
  PROVE  Carried(Append(q, m), m.protocol = "rendezvous", dv)
<1>1. /\ Len(Append(q, m)) = Len(q) + 1
      /\ Len(q) \in Nat
      /\ \A i \in 1 .. Len(q) : Append(q, m)[i] = q[i]
      /\ Append(q, m)[Len(q) + 1] = m
  OBVIOUS
<1>2. ASSUME NEW i \in 1 .. Len(q) + 1
      PROVE  /\ Append(q, m)[i].size = Append(q, m)[i].data.n
             /\ Append(q, m)[i].protocol = "rendezvous" =>
                  i = Len(q) + 1 /\ m.protocol = "rendezvous" /\ Append(q, m)[i].data = dv
  <2>1. CASE i = Len(q) + 1
    BY <1>1, <2>1
  <2>2. CASE i # Len(q) + 1
    BY <1>1, <2>2 DEF Carried
  <2> QED
    BY <2>1, <2>2
<1> QED
  BY <1>1, <1>2 DEF Carried

(* What is received is the content of the message, with its size.           *)
LEMMA CarriedReceive ==
  ASSUME NEW q \in Seq(Message), NEW busy \in BOOLEAN, NEW buffer,
         q # <<>>, Carried(q, busy, buffer)
  PROVE  /\ Carried(Tail(q), busy /\ Head(q).protocol = "eager", buffer)
         /\ Head(q).size = Head(q).data.n
         /\ (IF Head(q).protocol = "eager" THEN Head(q).data ELSE buffer) = Head(q).data
<1>1. /\ Head(q) \in Message
      /\ Head(q) = q[1]
      /\ Tail(q) \in Seq(Message)
      /\ Len(q) \in Nat
      /\ 1 <= Len(q)
      /\ Len(Tail(q)) = Len(q) - 1
      /\ \A i \in 1 .. Len(Tail(q)) : Tail(q)[i] = q[i + 1]
  BY HeadTailProperties, EmptySeq
<1>2. 1 \in 1 .. Len(q)
  BY <1>1
<1>3. /\ Head(q).size = Head(q).data.n
      /\ Head(q).protocol = "rendezvous" => 1 = Len(q) /\ busy /\ Head(q).data = buffer
  BY <1>1, <1>2 DEF Carried
<1>4. Head(q).protocol = "eager" \/ Head(q).protocol = "rendezvous"
  BY <1>1 DEF Message
<1>5. ASSUME NEW i \in 1 .. Len(Tail(q))
      PROVE  /\ Tail(q)[i].size = Tail(q)[i].data.n
             /\ Tail(q)[i].protocol = "rendezvous" =>
                  i = Len(Tail(q)) /\ busy /\ Head(q).protocol = "eager" /\ Tail(q)[i].data = buffer
  <2>1. i + 1 \in 1 .. Len(q) /\ Len(q) # 1 /\ Tail(q)[i] = q[i + 1]
    BY <1>1
  <2>2. /\ q[i + 1].size = q[i + 1].data.n
        /\ q[i + 1].protocol = "rendezvous" => i + 1 = Len(q) /\ busy /\ q[i + 1].data = buffer
    BY <2>1 DEF Carried
  <2>3. Head(q).protocol = "eager"
    BY <1>3, <1>4, <2>1
  <2>4. i + 1 = Len(q) => i = Len(Tail(q))
    <3>1. Len(q) \in Int /\ Len(Tail(q)) = Len(q) - 1 /\ Len(Tail(q)) \in Int
      BY <1>1
    <3>2. \A a, b \in Int : b = a - 1 /\ i + 1 = a => i = b
      OBVIOUS
    <3> QED
      BY <3>1, <3>2, Zenon
  <2> QED
    BY <2>1, <2>2, <2>3, <2>4
<1>6. ASSUME busy, Head(q).protocol = "eager"
      PROVE  Len(Tail(q)) # 0 /\ Tail(q)[Len(Tail(q))].protocol = "rendezvous"
  <2>1. Len(q) # 0 /\ q[Len(q)].protocol = "rendezvous"
    BY <1>6 DEF Carried
  <2>2. Len(q) # 1
    BY <1>1, <1>6, <2>1
  <2> QED
    BY <1>1, <2>1, <2>2
<1>7. Carried(Tail(q), busy /\ Head(q).protocol = "eager", buffer)
  BY <1>5, <1>6 DEF Carried
<1> QED
  BY <1>3, <1>4, <1>7
-----------------------------------------------------------------------------
(* The ledger.                                                              *)

(* What is owed in a step, and what the rounds of it carry, are numbers.    *)
LEMMA SumType ==
  ASSUME NEW d \in Data
  PROVE  Sum(d) \in Int /\ Sum(d) - d.n \in Int
<1>1. (d.round - 1) \in Int /\ MaxSize \in Int /\ d.n \in Int
  BY DataType, ExchangeAssumption
<1>2. (d.round - 1) * MaxSize \in Int
  BY <1>1
<1> QED
  BY <1>1, <1>2 DEF Sum

(* The rounds before b carry what the rounds up to a carry, if b follows a  *)
(* in the same step, and nothing if b is the first one.                     *)
LEMMA SumFollows ==
  ASSUME NEW a \in Data, NEW b \in Data, Follows(a, b)
  PROVE  Sum(b) - b.n = IF a.n = MaxSize THEN Sum(a) ELSE 0
<1>1. /\ a.round \in Int
      /\ a.n \in Int
      /\ b.round \in Int
      /\ b.n \in Int
      /\ MaxSize \in Int
  BY DataType, ExchangeAssumption
<1>2. \A r, m \in Int : r * m = (r - 1) * m + m /\ 0 * m = 0 /\ (r - 1) * m \in Int
  OBVIOUS
<1>3. CASE a.n = MaxSize
  <2>1. b.round - 1 = a.round
    BY <1>1, <1>3 DEF Follows
  <2>2. Sum(b) = a.round * MaxSize + b.n
    BY <2>1 DEF Sum
  <2>3. a.round * MaxSize = (a.round - 1) * MaxSize + MaxSize /\ (a.round - 1) * MaxSize \in Int
    BY <1>1, <1>2
  <2>4. Sum(a) = (a.round - 1) * MaxSize + MaxSize
    BY <1>3 DEF Sum
  <2>5. Sum(a) \in Int
    BY SumType
  <2> QED
    BY <1>1, <1>3, <2>2, <2>3, <2>4, <2>5
<1>4. CASE a.n # MaxSize
  <2>1. b.round - 1 = 0
    BY <1>4 DEF Follows
  <2>2. Sum(b) = 0 * MaxSize + b.n
    BY <2>1 DEF Sum
  <2> QED
    BY <1>1, <1>2, <1>4, <2>2
<1> QED
  BY <1>3, <1>4

(* What was owed stays the same in every step from now on.                  *)
SameOwed(left, ins, left2, ins2, now) ==
  \A k \in 1 .. MaxStep : k >= now => Owed(left2, ins2, now, k) = Owed(left, ins, now, k)

(* The books depend on what was owed only.                                  *)
LEMMA BooksSame ==
  ASSUME NEW left, NEW left2, NEW ins, NEW ins2, NEW now \in Nat,
         NEW got \in Data, NEW q \in Seq(Message),
         SameOwed(left, ins, left2, ins2, now), Books(left, ins, now, got, q)
  PROVE  Books(left2, ins2, now, got, q)
<1>1. MaxStep \in Nat
  BY ExchangeAssumption
<1> SUFFICES ASSUME NEW i \in 0 .. Len(q),
                    At(got, q, i).step >= 1, At(got, q, i).step >= now
             PROVE  /\ Sum(At(got, q, i)) <= Owed(left2, ins2, now, At(got, q, i).step)
                    /\ At(got, q, i).n < MaxSize =>
                         Sum(At(got, q, i)) = Owed(left2, ins2, now, At(got, q, i).step)
  BY DEF Books
<1>2. At(got, q, i).step \in 1 .. MaxStep
  BY <1>1, AtType, DataType
<1>3. Owed(left2, ins2, now, At(got, q, i).step) = Owed(left, ins, now, At(got, q, i).step)
  BY <1>2 DEF SameOwed
<1>4. /\ Sum(At(got, q, i)) <= Owed(left, ins, now, At(got, q, i).step)
      /\ At(got, q, i).n < MaxSize =>
           Sum(At(got, q, i)) = Owed(left, ins, now, At(got, q, i).step)
  BY DEF Books
<1> QED
  BY <1>3, <1>4

(* The same of the balance of the sender.                                   *)
LEMMA BalancedSame ==
  ASSUME NEW left, NEW left2, NEW ins, NEW ins2, NEW now \in Nat,
         NEW S \in 0 .. MaxStep, NEW g, NEW dv,
         SameOwed(left, ins, left2, ins2, now), Balanced(left, ins, now, S, g, dv)
  PROVE  Balanced(left2, ins2, now, S, g, dv)
BY ExchangeAssumption DEF Balanced, SameOwed

(* The buffer is sent: its rounds carry no more than was owed.              *)
LEMMA BooksSend ==
  ASSUME NEW left, NEW ins, NEW now \in Nat, NEW got \in Data, NEW q \in Seq(Message),
         NEW m \in Message, NEW dv \in Data, m.data = dv,
         NEW g \in Nat, dv.n = MaxSize \/ g = 0,
         Books(left, ins, now, got, q), Balanced(left, ins, now, dv.step, g, dv)
  PROVE  Books(left, ins, now, got, Append(q, m))
<1>1. /\ Len(Append(q, m)) = Len(q) + 1
      /\ Len(q) \in Nat
      /\ \A i \in 0 .. Len(q) : At(got, Append(q, m), i) = At(got, q, i)
      /\ At(got, Append(q, m), Len(q) + 1) = dv
  BY AtAppend
<1> SUFFICES ASSUME NEW i \in 0 .. Len(Append(q, m)), NEW d, d = At(got, Append(q, m), i),
                    d.step >= 1, d.step >= now
             PROVE  /\ Sum(d) <= Owed(left, ins, now, d.step)
                    /\ d.n < MaxSize => Sum(d) = Owed(left, ins, now, d.step)
  BY DEF Books
<1>2. CASE i = Len(q) + 1
  <2>1. d = dv
    BY <1>1, <1>2
  <2>2. Owed(left, ins, now, dv.step) = g + Sum(dv)
    BY <2>1 DEF Balanced
  <2>3. Sum(dv) \in Int /\ dv.n \in Int /\ MaxSize \in Int
    BY SumType, DataType, ExchangeAssumption
  <2> QED
    BY <2>1, <2>2, <2>3
<1>3. CASE i # Len(q) + 1
  <2>1. i \in 0 .. Len(q) /\ d = At(got, q, i)
    BY <1>1, <1>3
  <2> QED
    BY <2>1 DEF Books
<1> QED
  BY <1>2, <1>3

(* The first message is received.                                           *)
LEMMA BooksReceive ==
  ASSUME NEW left, NEW ins, NEW now, NEW got \in Data, NEW q \in Seq(Message), q # <<>>,
         Books(left, ins, now, got, q)
  PROVE  Books(left, ins, now, Head(q).data, Tail(q))
<1>1. /\ Len(q) \in Nat
      /\ Len(Tail(q)) = Len(q) - 1
      /\ \A i \in 0 .. Len(Tail(q)) : At(Head(q).data, Tail(q), i) = At(got, q, i + 1)
  BY AtTail
<1> SUFFICES ASSUME NEW i \in 0 .. Len(Tail(q)), NEW d, d = At(Head(q).data, Tail(q), i),
                    d.step >= 1, d.step >= now
             PROVE  /\ Sum(d) <= Owed(left, ins, now, d.step)
                    /\ d.n < MaxSize => Sum(d) = Owed(left, ins, now, d.step)
  BY DEF Books
<1>2. i + 1 \in 0 .. Len(q) /\ d = At(got, q, i + 1)
  BY <1>1
<1> QED
  BY <1>2 DEF Books

(* The books hold of a later step of the receiver, before which it has      *)
(* inserted all of the earlier ones.                                        *)
LEMMA BooksNextStep ==
  ASSUME NEW left, NEW ins, NEW now \in Nat, NEW got \in Data, NEW q \in Seq(Message),
         Books(left, ins, now, got, q)
  PROVE  Books(left, 0, now + 1, got, q)
<1> SUFFICES ASSUME NEW i \in 0 .. Len(q), NEW d, d = At(got, q, i),
                    d.step >= 1, d.step >= now + 1
             PROVE  /\ Sum(d) <= Owed(left, 0, now + 1, d.step)
                    /\ d.n < MaxSize => Sum(d) = Owed(left, 0, now + 1, d.step)
  BY DEF Books
<1>1. d \in Data /\ d.step \in Int
  BY AtType, DataType
<1>2. d.step >= now /\ d.step # now
  BY <1>1
<1>3. /\ Sum(d) <= Owed(left, ins, now, d.step)
      /\ d.n < MaxSize => Sum(d) = Owed(left, ins, now, d.step)
  BY <1>2 DEF Books
<1>4. Owed(left, ins, now, d.step) = left[d.step] + 0
  BY <1>2 DEF Owed
<1>5. Owed(left, 0, now + 1, d.step) = left[d.step] + 0
  BY DEF Owed
<1> QED
  BY <1>3, <1>4, <1>5
-----------------------------------------------------------------------------
(* One channel.                                                             *)

SendType ==
  [pc : {"Constructor", "Init", "WaitForBash", "SendFrames", "SendIndex", "WaitForSend",
         "WaitForSendEnd", "Finished"},
   round : Nat, lastSize : 0 .. MaxSize, bash : BOOLEAN]

RecvType ==
  [pc : {"WaitForReceive", "InitInsert", "WaitForInsert", "Finished"},
   lastSize : 0 .. MaxSize, kernel : BOOLEAN]

(* The types of the state of a channel.                                     *)
LEMMA ChannelTypes ==
  ASSUME TypeOK, NEW c \in Channels
  PROVE  /\ step[Src[c]] \in 0 .. MaxStep
         /\ step[Dst[c]] \in 0 .. MaxStep
         /\ due[c] \in [1 .. MaxStep -> Nat]
         /\ guard[c] \in 0 .. MaxGuard
         /\ send[c] \in SendType
         /\ dev[c] \in Data
         /\ recv[c] \in RecvType
         /\ \A p \in Parts :
              /\ host[c][p] \in Data
              /\ hostSize[c][p] \in 0 .. MaxSize
              /\ d2h[c][p] \in BOOLEAN
              /\ sending[c][p] \in BOOLEAN
              /\ net[c][p] \in Seq(Message)
              /\ inbox[c][p] \in Inbox
              /\ inbox[c][p].data \in Data
<1>1. Src[c] \in Ranks /\ Dst[c] \in Ranks
  BY ExchangeAssumption
<1>2. ASSUME NEW p \in Parts
      PROVE  inbox[c][p] \in Inbox /\ net[c][p] \in Seq(Message)
  <2>1. inbox \in [Channels -> [Parts -> Inbox]]
    BY DEF TypeOK, Inbox
  <2>2. net \in [Channels -> [Parts -> Seq(Message)]]
    BY DEF TypeOK, Message
  <2> QED
    BY <2>1, <2>2
<1>3. \A p \in Parts : inbox[c][p].data \in Data
  BY <1>2 DEF Inbox
<1> QED
  BY <1>1, <1>2, <1>3 DEF TypeOK, SendType, RecvType

(* A step that leaves a channel alone.                                      *)
LEMMA Unmoved ==
  ASSUME NEW c \in Channels, ChannelOK(c),
         step'[Src[c]] = step[Src[c]], step'[Dst[c]] = step[Dst[c]],
         due'[c] = due[c], guard'[c] = guard[c], send'[c] = send[c], dev'[c] = dev[c],
         host'[c] = host[c], hostSize'[c] = hostSize[c], d2h'[c] = d2h[c],
         sending'[c] = sending[c], net'[c] = net[c], recv'[c] = recv[c], inbox'[c] = inbox[c]
  PROVE  ChannelOK(c)'
<1>1. \A p \in Parts : (Lag(c, p)' = Lag(c, p)) /\ (Ahead(c, p)' = Ahead(c, p))
  BY DEF Lag, Ahead, Unsent, Arrived
<1>2. SenderAt(send[c], step[Src[c]], dev[c], guard[c])'
  BY DEF ChannelOK
<1>3. Inserting(c)'
  BY DEF ChannelOK, Inserting
<1>4. \A p \in Parts : PartOK(c, p)'
  BY <1>1 DEF ChannelOK, PartOK, CopyAt
<1>5. PartsAgree(c)'
  BY <1>1 DEF ChannelOK, PartsAgree, Parts
<1>6. Ledger(c)'
  BY DEF ChannelOK, Ledger, Ins
<1> QED
  BY <1>2, <1>3, <1>4, <1>5, <1>6 DEF ChannelOK

(* A step of the sender that moves no data.                                 *)
LEMMA SenderMoves ==
  ASSUME NEW c \in Channels, ChannelOK(c),
         step'[Src[c]] = step[Src[c]], step'[Dst[c]] = step[Dst[c]],
         due'[c] = due[c], guard'[c] = guard[c], dev'[c] = dev[c], host'[c] = host[c],
         sending'[c] = sending[c], net'[c] = net[c], recv'[c] = recv[c], inbox'[c] = inbox[c],
         SenderAt(send[c], step[Src[c]], dev[c], guard[c])',
         \A p \in Parts : CopyAt(c, p)' /\ (Lag(c, p)' = Lag(c, p))
  PROVE  ChannelOK(c)'
<1>1. \A p \in Parts : Ahead(c, p)' = Ahead(c, p)
  BY DEF Ahead, Arrived
<1>3. Inserting(c)'
  BY DEF ChannelOK, Inserting
<1>4. \A p \in Parts : PartOK(c, p)'
  BY DEF ChannelOK, PartOK
<1>5. PartsAgree(c)'
  BY <1>1 DEF ChannelOK, PartsAgree, Parts
<1>6. Ledger(c)'
  BY DEF ChannelOK, Ledger, Ins
<1> QED
  BY <1>3, <1>4, <1>5, <1>6 DEF ChannelOK

(* A step of the receiver that moves no data: what it inserts is taken from *)
(* what is due.                                                             *)
LEMMA ReceiverMoves ==
  ASSUME TypeOK, NEW c \in Channels, ChannelOK(c),
         step' = step, guard'[c] = guard[c], send'[c] = send[c], dev'[c] = dev[c],
         host'[c] = host[c], hostSize'[c] = hostSize[c], d2h'[c] = d2h[c],
         sending'[c] = sending[c], net'[c] = net[c],
         \A p \in Parts : /\ inbox'[c][p].data = inbox[c][p].data
                          /\ ReceiverAt(recv[c], step[Dst[c]], inbox[c][p])',
         Inserting(c)',
         \/ \A p \in Parts : Ahead(c, p)' = Ahead(c, p)
         \/ \A p, o \in Parts : (Ahead(c, p) = Ahead(c, o)) /\ (Ahead(c, p)' = Ahead(c, o)'),
         SameOwed(due[c], Ins(c), due'[c], Ins(c)', step[Dst[c]])
  PROVE  ChannelOK(c)'
<1>1. \A p \in Parts : Lag(c, p)' = Lag(c, p)
  BY DEF Lag, Unsent
<1>2. SenderAt(send[c], step[Src[c]], dev[c], guard[c])'
  BY DEF ChannelOK
<1>4. \A p \in Parts : PartOK(c, p)'
  BY <1>1 DEF ChannelOK, PartOK, CopyAt
<1>5. PartsAgree(c)'
  <2>1. Aligned(inbox[c]["frames"].data, net[c]["frames"], Lag(c, "frames"),
                inbox[c]["index"].data, net[c]["index"], Lag(c, "index"))'
    BY <1>1 DEF ChannelOK, PartsAgree, Parts
  <2>2. (Len(net[c]["frames"]) + Lag(c, "frames") + Ahead(c, "frames")
           = Len(net[c]["index"]) + Lag(c, "index") + Ahead(c, "index"))'
    <3>1. Len(net[c]["frames"]) \in Int /\ Len(net[c]["index"]) \in Int
      BY ChannelTypes DEF Parts
    <3>2. Len(net[c]["frames"]) + Lag(c, "frames") + Ahead(c, "frames")
            = Len(net[c]["index"]) + Lag(c, "index") + Ahead(c, "index")
      BY DEF ChannelOK, PartsAgree
    <3>3. /\ Lag(c, "frames")' = Lag(c, "frames")
          /\ Lag(c, "index")' = Lag(c, "index")
      BY <1>1 DEF Parts
    <3>4. \/ /\ Ahead(c, "frames")' = Ahead(c, "frames")
             /\ Ahead(c, "index")' = Ahead(c, "index")
          \/ /\ Ahead(c, "frames") = Ahead(c, "index")
             /\ Ahead(c, "frames")' = Ahead(c, "index")'
      BY DEF Parts
    <3>5. /\ Lag(c, "frames") \in Int /\ Lag(c, "index") \in Int
          /\ Ahead(c, "frames") \in Int /\ Ahead(c, "index") \in Int
          /\ Ahead(c, "frames")' \in Int /\ Ahead(c, "index")' \in Int
      BY DEF Lag, Ahead
    <3>6. net'[c]["frames"] = net[c]["frames"] /\ net'[c]["index"] = net[c]["index"]
      OBVIOUS
    <3>7. CASE /\ Ahead(c, "frames")' = Ahead(c, "frames")
               /\ Ahead(c, "index")' = Ahead(c, "index")
      BY <3>2, <3>3, <3>6, <3>7
    <3>8. CASE /\ Ahead(c, "frames") = Ahead(c, "index")
               /\ Ahead(c, "frames")' = Ahead(c, "index")'
      <4>1. Len(net[c]["frames"]) + Lag(c, "frames") = Len(net[c]["index"]) + Lag(c, "index")
        <5>1. PICK a \in Int, b \in Int, x \in Int, y \in Int, u \in Int, v \in Int :
                /\ a = Len(net[c]["frames"]) /\ b = Len(net[c]["index"])
                /\ x = Lag(c, "frames") /\ y = Lag(c, "index")
                /\ u = Ahead(c, "frames") /\ v = Ahead(c, "index")
          BY <3>1, <3>5, Zenon
        <5>2. a + x + u = b + y + v /\ u = v
          BY <5>1, <3>2, <3>8, Zenon
        <5>3. a + x = b + y
          BY <5>2
        <5> QED
          BY <5>1, <5>3, Zenon
      <4> QED
        BY <4>1, <3>3, <3>6, <3>8
    <3> QED
      BY <3>4, <3>7, <3>8
  <2> QED
    BY <2>1, <2>2 DEF PartsAgree
<1>6. Ledger(c)'
  <2>1. /\ step[Dst[c]] \in Nat
        /\ step[Src[c]] \in 0 .. MaxStep
        /\ inbox[c]["index"].data \in Data
        /\ net[c]["index"] \in Seq(Message)
    BY ChannelTypes, ExchangeAssumption DEF Parts
  <2>2. /\ Books(due[c], Ins(c), step[Dst[c]], inbox[c]["index"].data, net[c]["index"])
        /\ Balanced(due[c], Ins(c), step[Dst[c]], step[Src[c]], guard[c], dev[c])
    BY DEF ChannelOK, Ledger
  <2>3. PICK left, ins : left = due'[c] /\ ins = Ins(c)'
    OBVIOUS
  <2>5. SameOwed(due[c], Ins(c), left, ins, step[Dst[c]])
    BY <2>3
  <2>6. Books(left, ins, step[Dst[c]], inbox[c]["index"].data, net[c]["index"])
    BY <2>1, <2>2, <2>5, BooksSame
  <2>7. Balanced(left, ins, step[Dst[c]], step[Src[c]], guard[c], dev[c])
    BY <2>1, <2>2, <2>5, BalancedSame
  <2>4. inbox'[c]["index"].data = inbox[c]["index"].data
    BY DEF Parts
  <2> QED
    BY <2>3, <2>4, <2>6, <2>7 DEF Ledger
<1> QED
  BY <1>2, <1>4, <1>5, <1>6 DEF ChannelOK
-----------------------------------------------------------------------------
(* The steps of the sender.                                                 *)

Tasks == {"send", "recv"} \X Channels

(* A nested wait begins.                                                    *)
LEMMA PushType ==
  ASSUME TypeOK, NEW r \in Ranks, NEW task \in Tasks, Push(r, task)
  PROVE  stack' \in [Ranks -> Seq({"send", "recv"} \X Channels)]
BY DEF TypeOK, Push, Tasks

(* The innermost wait ends.                                                 *)
LEMMA PopType ==
  ASSUME TypeOK, NEW r \in Ranks, NEW task, Top(r, task), Pop(r)
  PROVE  stack' \in [Ranks -> Seq({"send", "recv"} \X Channels)]
<1>1. stack[r] \in Seq(Tasks) /\ stack[r] # <<>>
  BY DEF TypeOK, Top, Tasks
<1>2. Front(stack[r]) \in Seq(Tasks)
  BY <1>1 DEF Front
<1> QED
  BY <1>2 DEF TypeOK, Pop, Tasks

(* The type invariant after a step that changes stack, send, hostSize and   *)
(* d2h only.                                                                *)
LEMMA SenderTypes ==
  ASSUME TypeOK, UNCHANGED <<step, due, guard, dev, host, sending, net, recv, inbox>>,
         stack' \in [Ranks -> Seq({"send", "recv"} \X Channels)],
         send' \in [Channels -> SendType],
         hostSize' \in [Channels -> [Parts -> 0 .. MaxSize]],
         d2h' \in [Channels -> [Parts -> BOOLEAN]]
  PROVE  TypeOK'
BY DEF TypeOK, SendType

(* A channel moves and the others do not: the invariant is kept.            *)
LEMMA OthersKept ==
  ASSUME Inv, TypeOK', NEW c \in Channels, ChannelOK(c)',
         UNCHANGED step,
         \A d \in Channels \ {c} :
           /\ due'[d] = due[d] /\ guard'[d] = guard[d] /\ send'[d] = send[d] /\ dev'[d] = dev[d]
           /\ host'[d] = host[d] /\ hostSize'[d] = hostSize[d] /\ d2h'[d] = d2h[d]
           /\ sending'[d] = sending[d] /\ net'[d] = net[d] /\ recv'[d] = recv[d]
           /\ inbox'[d] = inbox[d]
  PROVE  Inv'
<1> SUFFICES ASSUME NEW d \in Channels PROVE ChannelOK(d)'
  BY DEF Inv
<1>1. CASE d = c
  BY <1>1
<1>2. CASE d # c
  <2>1. ChannelOK(d)
    BY DEF Inv
  <2>2. step'[Src[d]] = step[Src[d]] /\ step'[Dst[d]] = step[Dst[d]]
    OBVIOUS
  <2>3. /\ due'[d] = due[d] /\ guard'[d] = guard[d] /\ send'[d] = send[d] /\ dev'[d] = dev[d]
        /\ host'[d] = host[d] /\ hostSize'[d] = hostSize[d] /\ d2h'[d] = d2h[d]
        /\ sending'[d] = sending[d] /\ net'[d] = net[d] /\ recv'[d] = recv[d]
        /\ inbox'[d] = inbox[d]
    BY <1>2
  <2> QED
    BY <2>1, <2>2, <2>3, Unmoved
<1> QED
  BY <1>1, <1>2

(* A step of the sender that moves no data keeps the invariant, if it is at *)
(* the right place afterwards.                                              *)
LEMMA SenderKeeps ==
  ASSUME Inv, NEW c \in Channels,
         UNCHANGED <<step, due, guard, dev, host, sending, net, recv, inbox>>,
         stack' \in [Ranks -> Seq({"send", "recv"} \X Channels)],
         send' \in [Channels -> SendType],
         hostSize' \in [Channels -> [Parts -> 0 .. MaxSize]],
         d2h' \in [Channels -> [Parts -> BOOLEAN]],
         \A d \in Channels \ {c} :
           send'[d] = send[d] /\ hostSize'[d] = hostSize[d] /\ d2h'[d] = d2h[d],
         SenderAt(send'[c], step[Src[c]], dev[c], guard[c]),
         \A p \in Parts : CopyAt(c, p)' /\ Lag(c, p)' = Lag(c, p)
  PROVE  Inv'
<1>1. TypeOK'
  BY SenderTypes DEF Inv
<1>2. ChannelOK(c)'
  <2>1. ChannelOK(c)
    BY DEF Inv
  <2>2. SenderAt(send[c], step[Src[c]], dev[c], guard[c])'
    OBVIOUS
  <2>3. /\ step'[Src[c]] = step[Src[c]] /\ step'[Dst[c]] = step[Dst[c]]
        /\ due'[c] = due[c] /\ guard'[c] = guard[c] /\ dev'[c] = dev[c] /\ host'[c] = host[c]
        /\ sending'[c] = sending[c] /\ net'[c] = net[c] /\ recv'[c] = recv[c]
        /\ inbox'[c] = inbox[c]
    OBVIOUS
  <2> QED
    BY <2>1, <2>2, <2>3, SenderMoves
<1> QED
  BY <1>1, <1>2, OthersKept

(* A channel of Inv.                                                        *)
LEMMA ChannelFacts ==
  ASSUME Inv, NEW c \in Channels
  PROVE  /\ Src[c] \in Ranks /\ Dst[c] \in Ranks
         /\ <<"send", c>> \in Tasks /\ <<"recv", c>> \in Tasks
         /\ SenderAt(send[c], step[Src[c]], dev[c], guard[c])
         /\ Inserting(c)
         /\ \A p \in Parts :
              CopyAt(c, p) /\ ReceiverAt(recv[c], step[Dst[c]], inbox[c][p])
         /\ send[c] \in SendType
         /\ send \in [Channels -> SendType]
         /\ hostSize \in [Channels -> [Parts -> 0 .. MaxSize]]
         /\ d2h \in [Channels -> [Parts -> BOOLEAN]]
         /\ dev[c] \in Data
         /\ recv[c] \in RecvType
         /\ MaxSize \in Int /\ 0 < MaxSize
         /\ step[Src[c]] \in Int
<1>1. send \in [Channels -> SendType]
  BY DEF Inv, TypeOK, SendType
<1>2. ChannelOK(c) /\ TypeOK
  BY DEF Inv
<1>3. /\ SenderAt(send[c], step[Src[c]], dev[c], guard[c])
      /\ Inserting(c)
      /\ \A p \in Parts : CopyAt(c, p) /\ ReceiverAt(recv[c], step[Dst[c]], inbox[c][p])
  BY <1>2 DEF ChannelOK, PartOK
<1>4. Src[c] \in Ranks /\ Dst[c] \in Ranks /\ MaxSize \in Int /\ 0 < MaxSize
  BY ExchangeAssumption
<1>5. <<"send", c>> \in Tasks /\ <<"recv", c>> \in Tasks
  BY DEF Tasks
<1>6. /\ hostSize \in [Channels -> [Parts -> 0 .. MaxSize]]
      /\ d2h \in [Channels -> [Parts -> BOOLEAN]]
  BY <1>2 DEF TypeOK
<1>7. /\ dev[c] \in Data /\ recv[c] \in RecvType /\ send[c] \in SendType
      /\ step[Src[c]] \in Int
  BY <1>2, ChannelTypes
<1> QED
  BY <1>1, <1>3, <1>4, <1>5, <1>6, <1>7

(* Where the sender is after its steps.                                     *)
LEMMA SenderGoes ==
  ASSUME NEW s \in SendType, NEW S \in Int, NEW d \in Data, NEW g, SenderAt(s, S, d, g)
  PROVE  /\ s.pc = "Constructor" => SenderAt([s EXCEPT !.pc = "Init"], S, d, g)
         /\ s.pc = "Init" =>
              SenderAt([s EXCEPT !.pc = "WaitForBash", !.round = @ + 1, !.bash = TRUE], S, d, g)
         /\ s.pc = "WaitForBash" /\ ~s.bash =>
              SenderAt([s EXCEPT !.pc = "SendFrames", !.lastSize = d.n], S, d, g)
         /\ s.pc = "SendFrames" => SenderAt([s EXCEPT !.pc = "SendIndex"], S, d, g)
         /\ s.pc = "SendIndex" => SenderAt([s EXCEPT !.pc = "WaitForSend"], S, d, g)
         /\ s.pc = "WaitForSend" /\ s.lastSize = MaxSize =>
              SenderAt([s EXCEPT !.pc = "Init"], S, d, g)
         /\ s.pc = "WaitForSend" /\ s.lastSize # MaxSize =>
              SenderAt([s EXCEPT !.pc = "WaitForSendEnd"], S, d, g)
         /\ s.pc = "WaitForSendEnd" => SenderAt([s EXCEPT !.pc = "Finished"], S, d, g)
<1> USE ExchangeAssumption DEF SendType, Data
<1>1. s.pc = "Constructor" => SenderAt([s EXCEPT !.pc = "Init"], S, d, g)
  BY DEF SenderAt, Follows
<1>2. s.pc = "Init" =>
        SenderAt([s EXCEPT !.pc = "WaitForBash", !.round = @ + 1, !.bash = TRUE], S, d, g)
  BY DEF SenderAt, Follows
<1>3. s.pc = "WaitForBash" /\ ~s.bash =>
        SenderAt([s EXCEPT !.pc = "SendFrames", !.lastSize = d.n], S, d, g)
  BY DEF SenderAt
<1>4. s.pc = "SendFrames" => SenderAt([s EXCEPT !.pc = "SendIndex"], S, d, g)
  BY DEF SenderAt
<1>5. s.pc = "SendIndex" => SenderAt([s EXCEPT !.pc = "WaitForSend"], S, d, g)
  BY DEF SenderAt
<1>6. s.pc = "WaitForSend" /\ s.lastSize = MaxSize => SenderAt([s EXCEPT !.pc = "Init"], S, d, g)
  BY DEF SenderAt, Follows
<1>7. s.pc = "WaitForSend" /\ s.lastSize # MaxSize =>
        SenderAt([s EXCEPT !.pc = "WaitForSendEnd"], S, d, g)
  BY DEF SenderAt
<1>8. s.pc = "WaitForSendEnd" => SenderAt([s EXCEPT !.pc = "Finished"], S, d, g)
  BY DEF SenderAt
<1> QED
  BY <1>1, <1>2, <1>3, <1>4, <1>5, <1>6, <1>7, <1>8

(* FirstSendRound keeps the invariant.                                      *)
LEMMA FirstSendRoundKeeps ==
  ASSUME Inv, NEW c \in Channels, FirstSendRound(c)
  PROVE  Inv'
<1>1. send'[c] = [send[c] EXCEPT !.pc = "Init"] /\ send' \in [Channels -> SendType]
  BY ChannelFacts DEF FirstSendRound, SendType
<1>2. stack' \in [Ranks -> Seq({"send", "recv"} \X Channels)]
  BY ChannelFacts, PushType DEF FirstSendRound, Inv
<1>3. hostSize' \in [Channels -> [Parts -> 0 .. MaxSize]]
  <2>1. [p \in Parts |-> 0] \in [Parts -> 0 .. MaxSize]
    BY ExchangeAssumption
  <2> QED
    BY <2>1, ChannelFacts DEF FirstSendRound
<1>4. SenderAt(send'[c], step[Src[c]], dev[c], guard[c])
  BY <1>1, ChannelFacts, SenderGoes DEF FirstSendRound
<1>5. \A p \in Parts : CopyAt(c, p)' /\ Lag(c, p)' = Lag(c, p)
  BY <1>1, ChannelFacts, ZenonT(60) DEF FirstSendRound, CopyAt, Lag, Unsent, SendType, SenderAt
<1>6. UNCHANGED <<step, due, guard, dev, host, d2h, sending, net, recv, inbox>>
  BY DEF FirstSendRound, recvVars
<1>7. \A d \in Channels \ {c} :
        send'[d] = send[d] /\ hostSize'[d] = hostSize[d] /\ d2h'[d] = d2h[d]
  BY <1>6, ChannelFacts DEF FirstSendRound
<1>8. d2h' \in [Channels -> [Parts -> BOOLEAN]]
  BY <1>6, ChannelFacts
<1> QED
  BY <1>1, <1>2, <1>3, <1>4, <1>5, <1>6, <1>7, <1>8, SenderKeeps

(* BashParticles keeps the invariant.                                       *)
LEMMA BashParticlesKeeps ==
  ASSUME Inv, NEW c \in Channels, BashParticles(c)
  PROVE  Inv'
<1>1. send'[c] = [send[c] EXCEPT !.pc = "WaitForBash", !.round = @ + 1, !.bash = TRUE] /\ send' \in [Channels -> SendType]
  <2>1. send \in [Channels -> SendType] /\ send[c] \in SendType
    BY ChannelFacts
  <2>2. send'[c] = [send[c] EXCEPT !.pc = "WaitForBash", !.round = @ + 1, !.bash = TRUE]
    BY <2>1 DEF BashParticles, SendType
  <2>3. [send[c] EXCEPT !.pc = "WaitForBash", !.round = @ + 1, !.bash = TRUE] \in SendType
    <3>1. PICK s \in SendType : s = send[c]
      BY <2>1
    <3>2. s.round + 1 \in Nat
      BY DEF SendType
    <3>3. \A n \in Nat : [s EXCEPT !.pc = "WaitForBash", !.round = n, !.bash = TRUE] \in SendType
      BY DEF SendType
    <3> QED
      BY <3>1, <3>2, <3>3
  <2> QED
    BY <2>1, <2>2, <2>3 DEF BashParticles
<1>2. stack' \in [Ranks -> Seq({"send", "recv"} \X Channels)]
  BY ChannelFacts, PopType DEF BashParticles, Inv, TypeOK
<1>3. hostSize' \in [Channels -> [Parts -> 0 .. MaxSize]]
  BY ChannelFacts DEF BashParticles, Data, Parts
<1>4. SenderAt(send'[c], step[Src[c]], dev[c], guard[c])
  BY <1>1, ChannelFacts, SenderGoes DEF BashParticles
<1>5. \A p \in Parts : CopyAt(c, p)' /\ Lag(c, p)' = Lag(c, p)
  <2>1. send[c] \in SendType /\ dev[c] \in Data
    BY ChannelFacts
  <2>2. send'[c].pc = "WaitForBash" /\ send'[c].bash = TRUE
    BY <1>1, <2>1 DEF SendType
  <2>3. ASSUME NEW p \in Parts PROVE CopyAt(c, p)'
    BY <2>1, <2>2, ChannelFacts, ZenonT(60) DEF BashParticles, CopyAt, SenderAt, Parts
  <2>4. ASSUME NEW p \in Parts PROVE Lag(c, p)' = Lag(c, p)
    <3>1. CopyAt(c, p) /\ SenderAt(send[c], step[Src[c]], dev[c], guard[c])
      BY ChannelFacts
    <3>2. Unsent(c, p)' <=> Unsent(c, p)
      BY <2>1, <2>2, <3>1, ChannelFacts DEF BashParticles, CopyAt, SenderAt, Unsent, Parts
    <3> QED
      BY <3>2 DEF Lag
  <2> QED
    BY <2>3, <2>4
<1>6. UNCHANGED <<step, due, guard, dev, host, sending, net, recv, inbox>>
  BY DEF BashParticles, recvVars
<1>7. \A d \in Channels \ {c} :
        send'[d] = send[d] /\ hostSize'[d] = hostSize[d] /\ d2h'[d] = d2h[d]
  BY ChannelFacts DEF BashParticles
<1>8. d2h' \in [Channels -> [Parts -> BOOLEAN]]
  BY ChannelFacts DEF BashParticles, Parts
<1> QED
  BY <1>1, <1>2, <1>3, <1>4, <1>5, <1>6, <1>7, <1>8, SenderKeeps

(* InitSend keeps the invariant.                                            *)
LEMMA InitSendKeeps ==
  ASSUME Inv, NEW c \in Channels, InitSend(c)
  PROVE  Inv'
<1>1. send'[c] = [send[c] EXCEPT !.pc = "SendFrames", !.lastSize = dev[c].n] /\ send' \in [Channels -> SendType]
  BY ChannelFacts DEF InitSend, SendType, Data
<1>2. stack' \in [Ranks -> Seq({"send", "recv"} \X Channels)]
  BY ChannelFacts, PushType DEF InitSend, Inv, TypeOK
<1>3. hostSize' \in [Channels -> [Parts -> 0 .. MaxSize]]
  BY ChannelFacts DEF InitSend, Data, Parts
<1>4. SenderAt(send'[c], step[Src[c]], dev[c], guard[c])
  BY <1>1, ChannelFacts, SenderGoes DEF InitSend
<1>5. \A p \in Parts : CopyAt(c, p)' /\ Lag(c, p)' = Lag(c, p)
  BY <1>1, ChannelFacts DEF InitSend, CopyAt, Lag, Unsent, SendType, SenderAt, Parts
<1>6. UNCHANGED <<step, due, guard, dev, host, sending, net, recv, inbox>>
  BY DEF InitSend, recvVars
<1>7. \A d \in Channels \ {c} :
        send'[d] = send[d] /\ hostSize'[d] = hostSize[d] /\ d2h'[d] = d2h[d]
  BY ChannelFacts DEF InitSend
<1>8. d2h' \in [Channels -> [Parts -> BOOLEAN]]
  BY ChannelFacts DEF InitSend, Parts
<1> QED
  BY <1>1, <1>2, <1>3, <1>4, <1>5, <1>6, <1>7, <1>8, SenderKeeps

(* AsyncSendFrames keeps the invariant.                                     *)
LEMMA AsyncSendFramesKeeps ==
  ASSUME Inv, NEW c \in Channels, AsyncSendFrames(c)
  PROVE  Inv'
<1>1. send'[c] = [send[c] EXCEPT !.pc = "SendIndex"] /\ send' \in [Channels -> SendType]
  BY ChannelFacts DEF AsyncSendFrames, AsyncSend, SendType, Data
<1>2. stack' \in [Ranks -> Seq({"send", "recv"} \X Channels)]
  BY ChannelFacts DEF AsyncSendFrames, AsyncSend, Inv, TypeOK
<1>3. hostSize' \in [Channels -> [Parts -> 0 .. MaxSize]]
  BY ChannelFacts DEF AsyncSendFrames, AsyncSend, Data, Parts
<1>4. SenderAt(send'[c], step[Src[c]], dev[c], guard[c])
  BY <1>1, ChannelFacts, SenderGoes DEF AsyncSendFrames, AsyncSend
<1>5. \A p \in Parts : CopyAt(c, p)' /\ Lag(c, p)' = Lag(c, p)
  <2>1. send[c] \in SendType /\ dev[c] \in Data
    BY ChannelFacts
  <2>2. send'[c].pc = "SendIndex" /\ send'[c].bash = send[c].bash
    BY <1>1, <2>1 DEF SendType
  <2>3. ASSUME NEW p \in Parts PROVE CopyAt(c, p)'
    BY <2>1, <2>2, ChannelFacts DEF AsyncSendFrames, AsyncSend, CopyAt, SenderAt, Parts
  <2>4. ASSUME NEW p \in Parts PROVE Lag(c, p)' = Lag(c, p)
    <3>1. CopyAt(c, p) /\ SenderAt(send[c], step[Src[c]], dev[c], guard[c])
      BY ChannelFacts
    <3>2. Unsent(c, p)' <=> Unsent(c, p)
      BY <2>1, <2>2, <3>1, ChannelFacts DEF AsyncSendFrames, AsyncSend, CopyAt, SenderAt, Unsent, Parts
    <3> QED
      BY <3>2 DEF Lag
  <2> QED
    BY <2>3, <2>4
<1>6. UNCHANGED <<step, due, guard, dev, host, sending, net, recv, inbox>>
  BY DEF AsyncSendFrames, AsyncSend, recvVars
<1>7. \A d \in Channels \ {c} :
        send'[d] = send[d] /\ hostSize'[d] = hostSize[d] /\ d2h'[d] = d2h[d]
  BY ChannelFacts DEF AsyncSendFrames, AsyncSend
<1>8. d2h' \in [Channels -> [Parts -> BOOLEAN]]
  BY ChannelFacts DEF AsyncSendFrames, AsyncSend, Parts
<1> QED
  BY <1>1, <1>2, <1>3, <1>4, <1>5, <1>6, <1>7, <1>8, SenderKeeps

(* AsyncSendIndex keeps the invariant.                                      *)
LEMMA AsyncSendIndexKeeps ==
  ASSUME Inv, NEW c \in Channels, AsyncSendIndex(c)
  PROVE  Inv'
<1>1. send'[c] = [send[c] EXCEPT !.pc = "WaitForSend"] /\ send' \in [Channels -> SendType]
  BY ChannelFacts DEF AsyncSendIndex, AsyncSend, SendType, Data
<1>2. stack' \in [Ranks -> Seq({"send", "recv"} \X Channels)]
  BY ChannelFacts, PopType DEF AsyncSendIndex, AsyncSend, Inv, TypeOK
<1>3. hostSize' \in [Channels -> [Parts -> 0 .. MaxSize]]
  BY ChannelFacts DEF AsyncSendIndex, AsyncSend, Data, Parts
<1>4. SenderAt(send'[c], step[Src[c]], dev[c], guard[c])
  BY <1>1, ChannelFacts, SenderGoes DEF AsyncSendIndex, AsyncSend
<1>5. \A p \in Parts : CopyAt(c, p)' /\ Lag(c, p)' = Lag(c, p)
  <2>1. send[c] \in SendType /\ dev[c] \in Data
    BY ChannelFacts
  <2>2. send'[c].pc = "WaitForSend" /\ send'[c].bash = send[c].bash
    BY <1>1, <2>1 DEF SendType
  <2>3. ASSUME NEW p \in Parts PROVE CopyAt(c, p)'
    BY <2>1, <2>2, ChannelFacts, ZenonT(60) DEF AsyncSendIndex, AsyncSend, CopyAt, SenderAt, Parts
  <2>4. ASSUME NEW p \in Parts PROVE Lag(c, p)' = Lag(c, p)
    <3>1. CopyAt(c, p) /\ SenderAt(send[c], step[Src[c]], dev[c], guard[c])
      BY ChannelFacts
    <3>2. Unsent(c, p)' <=> Unsent(c, p)
      BY <2>1, <2>2, <3>1, ChannelFacts DEF AsyncSendIndex, AsyncSend, CopyAt, SenderAt, Unsent, Parts
    <3> QED
      BY <3>2 DEF Lag
  <2> QED
    BY <2>3, <2>4
<1>6. UNCHANGED <<step, due, guard, dev, host, sending, net, recv, inbox>>
  BY DEF AsyncSendIndex, AsyncSend, recvVars
<1>7. \A d \in Channels \ {c} :
        send'[d] = send[d] /\ hostSize'[d] = hostSize[d] /\ d2h'[d] = d2h[d]
  BY ChannelFacts DEF AsyncSendIndex, AsyncSend
<1>8. d2h' \in [Channels -> [Parts -> BOOLEAN]]
  BY ChannelFacts DEF AsyncSendIndex, AsyncSend, Parts
<1> QED
  BY <1>1, <1>2, <1>3, <1>4, <1>5, <1>6, <1>7, <1>8, SenderKeeps

(* SendEnd keeps the invariant.                                             *)
LEMMA SendEndKeeps ==
  ASSUME Inv, NEW c \in Channels, SendEnd(c)
  PROVE  Inv'
<1>1. send'[c] = [send[c] EXCEPT !.pc = "Finished"] /\ send' \in [Channels -> SendType]
  BY ChannelFacts DEF SendEnd, SendType, Data
<1>2. stack' \in [Ranks -> Seq({"send", "recv"} \X Channels)]
  BY ChannelFacts DEF SendEnd, Inv, TypeOK
<1>3. hostSize' \in [Channels -> [Parts -> 0 .. MaxSize]]
  BY ChannelFacts DEF SendEnd, Data, Parts
<1>4. SenderAt(send'[c], step[Src[c]], dev[c], guard[c])
  BY <1>1, ChannelFacts, SenderGoes DEF SendEnd
<1>5. \A p \in Parts : CopyAt(c, p)' /\ Lag(c, p)' = Lag(c, p)
  BY <1>1, ChannelFacts DEF SendEnd, CopyAt, Lag, Unsent, SendType, SenderAt, Parts
<1>6. UNCHANGED <<step, due, guard, dev, host, sending, net, recv, inbox>>
  BY DEF SendEnd, recvVars
<1>7. \A d \in Channels \ {c} :
        send'[d] = send[d] /\ hostSize'[d] = hostSize[d] /\ d2h'[d] = d2h[d]
  BY ChannelFacts DEF SendEnd
<1>8. d2h' \in [Channels -> [Parts -> BOOLEAN]]
  BY ChannelFacts DEF SendEnd, Parts
<1> QED
  BY <1>1, <1>2, <1>3, <1>4, <1>5, <1>6, <1>7, <1>8, SenderKeeps

(* NextSendRound keeps the invariant: it is another round exactly if the    *)
(* buffer was full.                                                         *)
LEMMA NextSendRoundKeeps ==
  ASSUME Inv, NEW c \in Channels, NextSendRound(c)
  PROVE  Inv'
<1>1. /\ send[c].pc = "WaitForSend"
      /\ IF send[c].lastSize = MaxSize THEN send'[c] = [send[c] EXCEPT !.pc = "Init"]
         ELSE send'[c] = [send[c] EXCEPT !.pc = "WaitForSendEnd"]
      /\ \A d \in Channels \ {c} : send'[d] = send[d]
      /\ send' \in [Channels -> SendType]
  <2>1. send \in [Channels -> SendType] /\ send[c].pc = "WaitForSend"
    BY ChannelFacts DEF NextSendRound
  <2>2. CASE send[c].lastSize = MaxSize
    <3>1. send' = [send EXCEPT ![c].pc = "Init"]
      BY <2>2, Zenon DEF NextSendRound
    <3> QED
      BY <2>1, <2>2, <3>1 DEF SendType
  <2>3. CASE send[c].lastSize # MaxSize
    <3>1. send' = [send EXCEPT ![c].pc = "WaitForSendEnd"]
      BY <2>3, Zenon DEF NextSendRound
    <3> QED
      BY <2>1, <2>3, <3>1 DEF SendType
  <2> QED
    BY <2>2, <2>3
<1>2. stack' \in [Ranks -> Seq({"send", "recv"} \X Channels)]
  <2>1. stack' = stack \/ Push(Src[c], <<"send", c>>)
    BY DEF NextSendRound
  <2> QED
    BY <2>1, ChannelFacts, PushType DEF Inv, TypeOK
<1>3. /\ hostSize' \in [Channels -> [Parts -> 0 .. MaxSize]]
      /\ \A d \in Channels \ {c} : hostSize'[d] = hostSize[d]
  <2>1. [p \in Parts |-> 0] \in [Parts -> 0 .. MaxSize]
    BY ExchangeAssumption
  <2>2. hostSize' = hostSize \/ hostSize' = [hostSize EXCEPT ![c] = [p \in Parts |-> 0]]
    BY DEF NextSendRound
  <2> QED
    BY <2>1, <2>2, ChannelFacts
<1>4. SenderAt(send'[c], step[Src[c]], dev[c], guard[c])
  <2>1. /\ SenderAt(send[c], step[Src[c]], dev[c], guard[c])
        /\ send[c] \in SendType /\ step[Src[c]] \in Int /\ dev[c] \in Data
    BY ChannelFacts
  <2>2. CASE send[c].lastSize = MaxSize
    <3>1. SenderAt([send[c] EXCEPT !.pc = "Init"], step[Src[c]], dev[c], guard[c])
      BY <1>1, <2>1, <2>2, SenderGoes
    <3> QED
      BY <1>1, <2>2, <3>1
  <2>3. CASE send[c].lastSize # MaxSize
    <3>1. SenderAt([send[c] EXCEPT !.pc = "WaitForSendEnd"], step[Src[c]], dev[c], guard[c])
      BY <1>1, <2>1, <2>3, SenderGoes
    <3> QED
      BY <1>1, <2>3, <3>1
  <2> QED
    BY <2>2, <2>3
<1>5. \A p \in Parts : CopyAt(c, p)' /\ Lag(c, p)' = Lag(c, p)
  BY <1>1, ChannelFacts DEF NextSendRound, CopyAt, Lag, Unsent, SendType, SenderAt
<1>6. UNCHANGED <<step, due, guard, dev, host, d2h, sending, net, recv, inbox>>
  BY DEF NextSendRound, recvVars
<1>7. \A d \in Channels \ {c} :
        send'[d] = send[d] /\ hostSize'[d] = hostSize[d] /\ d2h'[d] = d2h[d]
  BY <1>1, <1>3, <1>6
<1>8. d2h' \in [Channels -> [Parts -> BOOLEAN]]
  BY <1>6, ChannelFacts
<1> QED
  BY <1>1, <1>2, <1>3, <1>4, <1>5, <1>6, <1>7, <1>8, SenderKeeps
-----------------------------------------------------------------------------
(* The steps that move data.                                                *)

(* The streams of a channel.                                                *)
LEMMA StreamFacts ==
  ASSUME Inv, NEW c \in Channels
  PROVE  /\ \A p \in Parts :
              /\ inbox[c][p].data \in Data
              /\ net[c][p] \in Seq(Message)
              /\ Chain(inbox[c][p].data, net[c][p], dev[c], Lag(c, p))
              /\ Carried(net[c][p], sending[c][p], host[c][p])
              /\ Lag(c, p) \in {0, 1}
              /\ Ahead(c, p) \in {0, 1}
         /\ PartsAgree(c)
         /\ Books(due[c], Ins(c), step[Dst[c]], inbox[c]["index"].data, net[c]["index"])
         /\ Balanced(due[c], Ins(c), step[Dst[c]], step[Src[c]], guard[c], dev[c])
         /\ step[Dst[c]] \in Nat
         /\ step[Src[c]] \in 0 .. MaxStep
         /\ guard[c] \in 0 .. MaxGuard
<1>1. ChannelOK(c) /\ TypeOK
  BY DEF Inv
<1>2. ASSUME NEW p \in Parts
      PROVE  /\ inbox[c][p].data \in Data
             /\ net[c][p] \in Seq(Message)
             /\ Chain(inbox[c][p].data, net[c][p], dev[c], Lag(c, p))
             /\ Carried(net[c][p], sending[c][p], host[c][p])
             /\ Lag(c, p) \in {0, 1}
             /\ Ahead(c, p) \in {0, 1}
  <2>1. inbox[c][p].data \in Data /\ net[c][p] \in Seq(Message)
    BY <1>1, ChannelTypes
  <2>2. Chain(inbox[c][p].data, net[c][p], dev[c], Lag(c, p)) /\ Carried(net[c][p], sending[c][p], host[c][p])
    BY <1>1 DEF ChannelOK, PartOK
  <2> QED
    BY <2>1, <2>2 DEF Lag, Ahead
<1>3. /\ PartsAgree(c)
      /\ Books(due[c], Ins(c), step[Dst[c]], inbox[c]["index"].data, net[c]["index"])
      /\ Balanced(due[c], Ins(c), step[Dst[c]], step[Src[c]], guard[c], dev[c])
  BY <1>1 DEF ChannelOK, Ledger
<1>4. step[Dst[c]] \in Nat /\ step[Src[c]] \in 0 .. MaxStep /\ guard[c] \in 0 .. MaxGuard
  BY <1>1, ChannelTypes, ExchangeAssumption
<1> QED
  BY <1>2, <1>3, <1>4

(* The balance of the sender after a bash.                                  *)
LEMMA BalancedFill ==
  ASSUME NEW left, NEW ins, NEW now, NEW S \in Nat, NEW g \in Int, NEW g2 \in Int,
         NEW dv \in Data, NEW dw \in Data, Follows(dv, dw), dw.step = S, g = g2 + dw.n,
         Balanced(left, ins, now, S, g, dv)
  PROVE  Balanced(left, ins, now, S, g2, dw)
<1> SUFFICES ASSUME S >= 1, S >= now
             PROVE  Owed(left, ins, now, S) = g2 + Sum(dw)
  BY DEF Balanced
<1>1. Owed(left, ins, now, S) = g + IF dv.step = S THEN Sum(dv) ELSE 0
  BY DEF Balanced
<1>2. Sum(dw) - dw.n = IF dv.n = MaxSize THEN Sum(dv) ELSE 0
  BY SumFollows
<1>3. Sum(dv) \in Int /\ Sum(dw) \in Int /\ dw.n \in Int /\ dv.step \in Int
  BY SumType, DataType
<1>4. dv.n = MaxSize <=> dv.step = S
  BY <1>3 DEF Follows
<1>5. Sum(dw) - dw.n = IF dv.step = S THEN Sum(dv) ELSE 0
  BY <1>2, <1>4
<1>6. PICK x \in Int : x = IF dv.step = S THEN Sum(dv) ELSE 0
  BY <1>3
<1>7. Owed(left, ins, now, S) = g + x
  BY <1>1, <1>6, Zenon
<1>8. Sum(dw) - dw.n = x
  BY <1>5, <1>6, Zenon
<1> QED
  BY <1>3, <1>7, <1>8

(* BashDone keeps the invariant: the buffer of the sender holds the next    *)
(* message.                                                                 *)
LEMMA BashDoneKeeps ==
  ASSUME Inv, NEW c \in Channels, BashDone(c)
  PROVE  Inv'
<1> DEFINE S == step[Src[c]]
           m == IF guard[c] < MaxSize THEN guard[c] ELSE MaxSize
<1>1. /\ send[c] \in SendType /\ send \in [Channels -> SendType]
      /\ dev[c] \in Data
      /\ SenderAt(send[c], S, dev[c], guard[c])
      /\ MaxSize \in Int /\ 0 < MaxSize
      /\ S \in 0 .. MaxStep
      /\ guard[c] \in 0 .. MaxGuard
  BY ChannelFacts, StreamFacts
<1>2. send[c].bash /\ send[c].pc = "WaitForBash"
      /\ Follows(dev[c], [step |-> S, round |-> send[c].round])
  BY <1>1 DEF BashDone, SenderAt
<1>3. /\ guard' = [guard EXCEPT ![c] = @ - m]
      /\ dev' = [dev EXCEPT ![c] = [step |-> S, round |-> send[c].round, n |-> m]]
      /\ send' = [send EXCEPT ![c].bash = FALSE]
      /\ UNCHANGED <<step, due, stack, host, hostSize, d2h, sending, net, recv, inbox>>
  BY Zenon DEF BashDone, recvVars
<1>4. m \in 0 .. MaxSize /\ guard[c] - m \in 0 .. MaxGuard /\ (m = MaxSize \/ guard[c] - m = 0)
  BY <1>1, ExchangeAssumption
<1>5. PICK dw : dw = [step |-> S, round |-> send[c].round, n |-> m]
  OBVIOUS
<1>6. dw \in Data /\ dw.step = S /\ dw.round = send[c].round /\ dw.n = m
  BY <1>1, <1>4, <1>5 DEF Data, SendType
<1>7. Follows(dev[c], dw)
  BY <1>2, <1>6 DEF Follows
<1>8. /\ dev'[c] = dw
      /\ guard'[c] = guard[c] - m
      /\ send'[c] = [send[c] EXCEPT !.bash = FALSE]
      /\ \A d \in Channels \ {c} : guard'[d] = guard[d] /\ send'[d] = send[d] /\ dev'[d] = dev[d]
  BY <1>1, <1>3, <1>5 DEF Inv, TypeOK
<1>9. TypeOK'
  <2>1. send' \in [Channels -> SendType]
    BY <1>1, <1>3 DEF SendType
  <2>2. guard' \in [Channels -> 0 .. MaxGuard]
    BY <1>3, <1>4 DEF Inv, TypeOK
  <2>3. dev' \in [Channels -> Data]
    BY <1>3, <1>5, <1>6 DEF Inv, TypeOK
  <2> QED
    BY <1>3, <2>1, <2>2, <2>3 DEF Inv, TypeOK, SendType
<1>10. send'[c].pc = "WaitForBash" /\ send'[c].bash = FALSE /\ send'[c].round = send[c].round
  BY <1>1, <1>2, <1>8 DEF SendType
<1>11. SenderAt(send[c], step[Src[c]], dev[c], guard[c])'
  <2>1. S >= 1
    BY <1>1, <1>2 DEF SenderAt
  <2> QED
    BY <1>3, <1>4, <1>6, <1>8, <1>10, <2>1 DEF SenderAt
<1>12. \A p \in Parts : ~d2h[c][p] /\ Lag(c, p) = 0 /\ Lag(c, p)' = 1 /\ CopyAt(c, p)'
                        /\ Ahead(c, p)' = Ahead(c, p)
  <2> SUFFICES ASSUME NEW p \in Parts
               PROVE  ~d2h[c][p] /\ Lag(c, p) = 0 /\ Lag(c, p)' = 1 /\ CopyAt(c, p)'
                        /\ Ahead(c, p)' = Ahead(c, p)
    OBVIOUS
  <2>1. CopyAt(c, p)
    BY ChannelFacts
  <2>2. ~d2h[c][p] /\ ~d2h'[c][p]
    BY <1>2, <1>3, <2>1 DEF CopyAt
  <2> QED
    BY <1>2, <1>3, <1>10, <2>2 DEF Lag, Unsent, CopyAt, Ahead, Arrived
<1>13. \A p \in Parts : PartOK(c, p)'
  <2> SUFFICES ASSUME NEW p \in Parts PROVE PartOK(c, p)'
    OBVIOUS
  <2>1. Chain(inbox[c][p].data, net[c][p], dev[c], 0)
        /\ inbox[c][p].data \in Data /\ net[c][p] \in Seq(Message)
        /\ Carried(net[c][p], sending[c][p], host[c][p])
    BY <1>12, StreamFacts
  <2>2. Chain(inbox[c][p].data, net[c][p], dw, 1)
    BY <1>1, <1>6, <1>7, <2>1, ChainFill
  <2>3. Chain(inbox[c][p].data, net[c][p], dev[c], Lag(c, p))'
    BY <1>3, <1>8, <1>12, <2>2
  <2>4. ReceiverAt(recv[c], step[Dst[c]], inbox[c][p])
    BY ChannelFacts
  <2> QED
    BY <1>3, <1>12, <2>1, <2>3, <2>4 DEF PartOK
<1>14. PartsAgree(c)'
  <2>1. /\ inbox[c]["frames"].data \in Data /\ net[c]["frames"] \in Seq(Message)
        /\ inbox[c]["index"].data \in Data /\ net[c]["index"] \in Seq(Message)
        /\ Lag(c, "frames") = 0 /\ Lag(c, "frames")' = 1 /\ Lag(c, "index") = 0 /\ Lag(c, "index")' = 1
        /\ Ahead(c, "frames")' = Ahead(c, "frames") /\ Ahead(c, "index")' = Ahead(c, "index")
        /\ Ahead(c, "frames") \in Int /\ Ahead(c, "index") \in Int
    BY <1>12, StreamFacts DEF Parts
  <2>2. /\ Aligned(inbox[c]["frames"].data, net[c]["frames"], 0, inbox[c]["index"].data, net[c]["index"], 0)
        /\ Len(net[c]["frames"]) + 0 + Ahead(c, "frames") = Len(net[c]["index"]) + 0 + Ahead(c, "index")
    BY <2>1, StreamFacts DEF PartsAgree
  <2>3. Aligned(inbox[c]["frames"].data, net[c]["frames"], 1, inbox[c]["index"].data, net[c]["index"], 1)
    BY <2>1, <2>2, AlignedFill
  <2>4. Len(net[c]["frames"]) + 1 + Ahead(c, "frames") = Len(net[c]["index"]) + 1 + Ahead(c, "index")
    <3>1. PICK a \in Int, b \in Int, u \in Int, v \in Int :
            /\ a = Len(net[c]["frames"]) /\ b = Len(net[c]["index"])
            /\ u = Ahead(c, "frames") /\ v = Ahead(c, "index")
      BY <2>1
    <3>2. a + 0 + u = b + 0 + v
      BY <2>2, <3>1, Zenon
    <3>3. a + 1 + u = b + 1 + v
      BY <3>2
    <3> QED
      BY <3>1, <3>3, Zenon
  <2> QED
    BY <1>3, <2>1, <2>3, <2>4 DEF PartsAgree
<1>15. Ledger(c)'
  <2>1. Ins(c)' = Ins(c)
    BY <1>3 DEF Ins
  <2>2. Balanced(due[c], Ins(c), step[Dst[c]], S, guard[c] - m, dw)
    <3>1. Balanced(due[c], Ins(c), step[Dst[c]], S, guard[c], dev[c])
      BY StreamFacts
    <3>2. guard[c] \in Int /\ guard[c] - m \in Int /\ guard[c] = (guard[c] - m) + dw.n /\ S \in Nat
      BY <1>1, <1>4, <1>6
    <3> QED
      BY <1>1, <1>6, <1>7, <3>1, <3>2, BalancedFill
  <2> QED
    BY <1>3, <1>8, <2>1, <2>2, StreamFacts DEF Ledger
<1>16. ChannelOK(c)'
  <2>1. Inserting(c)'
    BY <1>3, ChannelFacts DEF Inserting
  <2> QED
    BY <1>11, <1>13, <1>14, <1>15, <2>1 DEF ChannelOK
<1> QED
  BY <1>3, <1>8, <1>9, <1>16, OthersKept

(* The lengths of the two streams of a channel.                             *)
Even(l1, b1, a1, l2, b2, a2) == l1 + b1 + a1 = l2 + b2 + a2

(* The agreement of the parts does not depend on their order.               *)
LEMMA AgreeOf ==
  ASSUME Inv, NEW c \in Channels, NEW p \in Parts, NEW o \in Parts, o # p
  PROVE  /\ Even(Len(net[c][p]), Lag(c, p), Ahead(c, p), Len(net[c][o]), Lag(c, o), Ahead(c, o))
         /\ Aligned(inbox[c][p].data, net[c][p], Lag(c, p), inbox[c][o].data, net[c][o], Lag(c, o))
<1>1. PartsAgree(c)
  BY StreamFacts
<1>2. CASE p = "frames"
  <2>1. o = "index"
    BY <1>2 DEF Parts
  <2> QED
    BY <1>1, <1>2, <2>1 DEF PartsAgree, Even
<1>3. CASE p = "index"
  <2>1. o = "frames"
    BY <1>3 DEF Parts
  <2>2. Aligned(inbox[c]["index"].data, net[c]["index"], Lag(c, "index"),
                inbox[c]["frames"].data, net[c]["frames"], Lag(c, "frames"))
    BY <1>1, AlignedSym DEF PartsAgree
  <2> QED
    BY <1>1, <1>3, <2>1, <2>2 DEF PartsAgree, Even
<1> QED
  BY <1>2, <1>3 DEF Parts

(* The agreement of the parts follows from that of either order.            *)
LEMMA AgreeFrom ==
  ASSUME NEW c \in Channels, NEW p \in Parts, NEW o \in Parts, o # p,
         Even(Len(net[c][p]), Lag(c, p), Ahead(c, p), Len(net[c][o]), Lag(c, o), Ahead(c, o))',
         Aligned(inbox[c][p].data, net[c][p], Lag(c, p), inbox[c][o].data, net[c][o], Lag(c, o))'
  PROVE  PartsAgree(c)'
<1>2. CASE p = "frames"
  <2>1. o = "index"
    BY <1>2 DEF Parts
  <2> QED
    BY <1>2, <2>1 DEF PartsAgree, Even
<1>3. CASE p = "index"
  <2>1. o = "frames"
    BY <1>3 DEF Parts
  <2>2. Aligned(inbox[c]["frames"].data, net[c]["frames"], Lag(c, "frames"),
                inbox[c]["index"].data, net[c]["index"], Lag(c, "index"))'
    BY <1>3, <2>1, AlignedSym
  <2> QED
    BY <1>3, <2>1, <2>2 DEF PartsAgree, Even
<1> QED
  BY <1>2, <1>3 DEF Parts

(* StartMPISend keeps the invariant: the stream of the part is complete.    *)
LEMMA StartMPISendKeeps ==
  ASSUME Inv, NEW c \in Channels, NEW p \in Parts, StartMPISend(c, p)
  PROVE  Inv'
<1> DEFINE S == step[Src[c]]
           q == net[c][p]
<1>1. /\ send[c] \in SendType
      /\ dev[c] \in Data
      /\ SenderAt(send[c], S, dev[c], guard[c])
      /\ CopyAt(c, p)
      /\ hostSize[c][p] \in 0 .. MaxSize
      /\ S \in 0 .. MaxStep
  BY ChannelFacts, StreamFacts
<1>2. /\ d2h[c][p]
      /\ send[c].pc = "WaitForSend" \/ (send[c].pc = "SendIndex" /\ p = "frames")
      /\ ~sending[c][p]
      /\ hostSize[c][p] = dev[c].n
  BY <1>1 DEF CopyAt, StartMPISend
<1>3. /\ ~send[c].bash
      /\ dev[c].step = S
      /\ dev[c].n = MaxSize \/ guard[c] = 0
  BY <1>1, <1>2 DEF SenderAt
<1>4. /\ d2h' = [d2h EXCEPT ![c][p] = FALSE]
      /\ host' = [host EXCEPT ![c][p] = dev[c]]
      /\ UNCHANGED <<step, due, stack, guard, send, dev, hostSize, recv, inbox>>
  BY DEF StartMPISend, recvVars
<1>5. PICK protocol \in Protocols[c] :
        /\ sending' = [sending EXCEPT ![c][p] = (protocol = "rendezvous")]
        /\ net' = [net EXCEPT ![c][p] =
                     Append(@, [protocol |-> protocol, size |-> hostSize[c][p], data |-> dev[c]])]
  BY Zenon DEF StartMPISend
<1>6. PICK m : m = [protocol |-> protocol, size |-> hostSize[c][p], data |-> dev[c]]
  OBVIOUS
<1>7. m \in Message /\ m.data = dev[c] /\ m.size = dev[c].n /\ m.protocol = protocol
  <2>1. protocol \in {"eager", "rendezvous"}
    BY ExchangeAssumption
  <2> QED
    BY <1>1, <1>2, <1>6, <2>1 DEF Message
<1>8. PICK o \in Parts : o # p /\ \A x \in Parts : x = p \/ x = o
  BY DEF Parts
<1>9. /\ net \in [Channels -> [Parts -> Seq(Message)]]
      /\ sending \in [Channels -> [Parts -> BOOLEAN]]
      /\ d2h \in [Channels -> [Parts -> BOOLEAN]]
      /\ host \in [Channels -> [Parts -> Data]]
  BY DEF Inv, TypeOK, Message
<1>10. /\ net'[c][p] = Append(q, m) /\ net'[c][o] = net[c][o]
       /\ sending'[c][p] = (protocol = "rendezvous") /\ sending'[c][o] = sending[c][o]
       /\ d2h'[c][p] = FALSE /\ d2h'[c][o] = d2h[c][o]
       /\ host'[c][p] = dev[c] /\ host'[c][o] = host[c][o]
  BY <1>4, <1>5, <1>6, <1>8, <1>9
<1>11. \A d \in Channels \ {c} :
         net'[d] = net[d] /\ sending'[d] = sending[d] /\ d2h'[d] = d2h[d] /\ host'[d] = host[d]
  BY <1>4, <1>5, <1>9
<1>12. q \in Seq(Message) /\ Append(q, m) \in Seq(Message)
  BY <1>7, <1>9
<1>13. TypeOK'
  <2>1. net' \in [Channels -> [Parts -> Seq(Message)]]
    BY <1>5, <1>6, <1>9, <1>12
  <2>2. sending' \in [Channels -> [Parts -> BOOLEAN]]
    BY <1>5, <1>9
  <2>3. d2h' \in [Channels -> [Parts -> BOOLEAN]] /\ host' \in [Channels -> [Parts -> Data]]
    BY <1>1, <1>4, <1>9
  <2> QED
    BY <1>4, <2>1, <2>2, <2>3 DEF Inv, TypeOK, Message
<1>14. /\ Lag(c, p) = 1 /\ Lag(c, p)' = 0
       /\ Lag(c, o)' = Lag(c, o)
       /\ Ahead(c, p)' = Ahead(c, p) /\ Ahead(c, o)' = Ahead(c, o)
  BY <1>2, <1>3, <1>4, <1>10 DEF Lag, Unsent, Ahead, Arrived
<1>15. PartOK(c, p)'
  <2>1. /\ inbox[c][p].data \in Data
        /\ Chain(inbox[c][p].data, q, dev[c], 1)
        /\ Carried(q, FALSE, host[c][p])
    <3>1. sending[c][p] = FALSE
      BY <1>2, <1>9
    <3> QED
      BY <1>14, <3>1, StreamFacts
  <2>2. Chain(inbox[c][p].data, Append(q, m), dev[c], 0)
    BY <1>1, <1>7, <1>12, <2>1, ChainSend
  <2>3. Carried(Append(q, m), m.protocol = "rendezvous", dev[c])
    BY <1>1, <1>7, <1>12, <2>1, CarriedSend
  <2>4. ReceiverAt(recv[c], step[Dst[c]], inbox[c][p])
    BY ChannelFacts
  <2>5. Chain(inbox[c][p].data, net[c][p], dev[c], Lag(c, p))'
    BY <1>4, <1>10, <1>14, <2>2
  <2>6. Carried(net[c][p], sending[c][p], host[c][p])'
    BY <1>7, <1>10, <2>3
  <2>7. CopyAt(c, p)'
    BY <1>10 DEF CopyAt
  <2> QED
    BY <1>4, <2>4, <2>5, <2>6, <2>7 DEF PartOK
<1>16. PartOK(c, o)'
  <2>1. CopyAt(c, o) /\ ReceiverAt(recv[c], step[Dst[c]], inbox[c][o])
    BY ChannelFacts
  <2>2. /\ Chain(inbox[c][o].data, net[c][o], dev[c], Lag(c, o))
        /\ Carried(net[c][o], sending[c][o], host[c][o])
    BY StreamFacts
  <2>3. CopyAt(c, o)'
    BY <1>4, <1>10, <2>1 DEF CopyAt
  <2> QED
    BY <1>4, <1>10, <1>14, <2>1, <2>2, <2>3 DEF PartOK
<1>17. PartsAgree(c)'
  <2>1. /\ Even(Len(q), 1, Ahead(c, p), Len(net[c][o]), Lag(c, o), Ahead(c, o))
        /\ Aligned(inbox[c][p].data, q, 1, inbox[c][o].data, net[c][o], Lag(c, o))
    BY <1>8, <1>14, AgreeOf
  <2>2. /\ inbox[c][p].data \in Data /\ inbox[c][o].data \in Data /\ net[c][o] \in Seq(Message)
        /\ Lag(c, o) \in {0, 1} /\ Chain(inbox[c][o].data, net[c][o], dev[c], Lag(c, o))
        /\ Ahead(c, p) \in Int
    BY StreamFacts
  <2>3. Aligned(inbox[c][p].data, Append(q, m), 0, inbox[c][o].data, net[c][o], Lag(c, o))
    BY <1>1, <1>7, <1>12, <2>1, <2>2, AlignedSend
  <2>4. Even(Len(Append(q, m)), 0, Ahead(c, p), Len(net[c][o]), Lag(c, o), Ahead(c, o))
    <3>1. PICK l \in Nat, a \in Int : l = Len(q) /\ a = Ahead(c, p) /\ Len(Append(q, m)) = l + 1
      BY <1>7, <1>12, <2>2
    <3>2. (l + 1) + 0 + a = l + 1 + a
      OBVIOUS
    <3> QED
      BY <2>1, <3>1, <3>2 DEF Even
  <2> QED
    BY <1>4, <1>8, <1>10, <1>14, <2>3, <2>4, AgreeFrom
<1>18. Ledger(c)'
  <2>1. Ins(c)' = Ins(c)
    BY <1>4 DEF Ins
  <2>2. /\ Books(due[c], Ins(c), step[Dst[c]], inbox[c]["index"].data, net[c]["index"])
        /\ Balanced(due[c], Ins(c), step[Dst[c]], S, guard[c], dev[c])
        /\ step[Dst[c]] \in Nat
        /\ inbox[c]["index"].data \in Data
        /\ guard[c] \in Nat
    BY StreamFacts, ExchangeAssumption DEF Parts
  <2>3. Books(due[c], Ins(c), step[Dst[c]], inbox[c]["index"].data, net'[c]["index"])
    <3>1. CASE p = "index"
      <4>1. Books(due[c], Ins(c), step[Dst[c]], inbox[c]["index"].data, Append(net[c]["index"], m))
        BY <1>1, <1>3, <1>7, <1>12, <2>2, <3>1, BooksSend
      <4> QED
        BY <1>10, <3>1, <4>1
    <3>2. CASE p # "index"
      BY <1>8, <1>10, <2>2, <3>2 DEF Parts
    <3> QED
      BY <3>1, <3>2
  <2> QED
    BY <1>4, <2>1, <2>2, <2>3 DEF Ledger
<1>19. ChannelOK(c)'
  <2>1. Inserting(c)' /\ SenderAt(send[c], step[Src[c]], dev[c], guard[c])'
    BY <1>1, <1>4, ChannelFacts DEF Inserting
  <2>2. \A x \in Parts : PartOK(c, x)'
    BY <1>8, <1>15, <1>16
  <2> QED
    BY <1>17, <1>18, <2>1, <2>2 DEF ChannelOK
<1>20. UNCHANGED step
  BY <1>4
<1>21. \A d \in Channels \ {c} :
         /\ due'[d] = due[d] /\ guard'[d] = guard[d] /\ send'[d] = send[d] /\ dev'[d] = dev[d]
         /\ host'[d] = host[d] /\ hostSize'[d] = hostSize[d] /\ d2h'[d] = d2h[d]
         /\ sending'[d] = sending[d] /\ net'[d] = net[d] /\ recv'[d] = recv[d]
         /\ inbox'[d] = inbox[d]
  BY <1>4, <1>11
<1> QED
  BY <1>13, <1>19, <1>20, <1>21, OthersKept

(* Transfer keeps the invariant: what arrives is the message the receiver   *)
(* waits for.                                                               *)
LEMMA TransferKeeps ==
  ASSUME Inv, NEW c \in Channels, NEW p \in Parts, Transfer(c, p)
  PROVE  Inv'
<1> DEFINE R == step[Dst[c]]
           q == net[c][p]
           got == inbox[c][p].data
<1>1. /\ recv[c] \in RecvType
      /\ ReceiverAt(recv[c], R, inbox[c][p])
      /\ Inserting(c)
      /\ R \in Nat
      /\ q \in Seq(Message)
      /\ got \in Data
      /\ Chain(got, q, dev[c], Lag(c, p))
      /\ Carried(q, sending[c][p], host[c][p])
      /\ Lag(c, p) \in {0, 1}
      /\ dev[c] \in Data
  BY ChannelFacts, StreamFacts
<1>2. inbox[c][p].st = "posted" /\ q # <<>>
  BY DEF Transfer
<1>3. recv[c].pc = "WaitForReceive" /\ ~recv[c].kernel
  BY <1>1, <1>2 DEF ReceiverAt, RecvType, Inserting
<1>4. PICK m \in Message : m = Head(q)
  BY <1>1, <1>2, HeadTailProperties
<1>5. /\ inbox' = [inbox EXCEPT ![c][p] =
                     [st |-> "copying",
                      data |-> IF m.protocol = "eager" THEN m.data ELSE host[c][p],
                      size |-> m.size]]
      /\ sending' = [sending EXCEPT ![c][p] = @ /\ m.protocol = "eager"]
      /\ net' = [net EXCEPT ![c][p] = Tail(@)]
      /\ UNCHANGED <<step, due, stack, guard, send, dev, host, hostSize, d2h, recv>>
  BY <1>4, Zenon DEF Transfer
<1>6. /\ net \in [Channels -> [Parts -> Seq(Message)]]
      /\ sending \in [Channels -> [Parts -> BOOLEAN]]
      /\ inbox \in [Channels -> [Parts -> Inbox]]
  BY DEF Inv, TypeOK, Message, Inbox
<1>7. sending[c][p] \in BOOLEAN
  BY <1>6
<1>8. /\ Carried(Tail(q), sending[c][p] /\ m.protocol = "eager", host[c][p])
      /\ m.size = m.data.n
      /\ (IF m.protocol = "eager" THEN m.data ELSE host[c][p]) = m.data
  BY <1>1, <1>2, <1>4, <1>7, CarriedReceive
<1>9. Chain(m.data, Tail(q), dev[c], Lag(c, p)) /\ Follows(got, m.data)
  BY <1>1, <1>2, <1>4, ChainReceive
<1>10. m.data \in Data /\ m.size \in 0 .. MaxSize
  BY DEF Message
<1>11. PICK o \in Parts : o # p /\ \A x \in Parts : x = p \/ x = o
  BY DEF Parts
<1>12. /\ inbox'[c][p] = [st |-> "copying", data |-> m.data, size |-> m.size]
       /\ inbox'[c][o] = inbox[c][o]
       /\ net'[c][p] = Tail(q) /\ net'[c][o] = net[c][o]
       /\ sending'[c][p] = (sending[c][p] /\ m.protocol = "eager")
       /\ sending'[c][o] = sending[c][o]
  BY <1>5, <1>6, <1>8, <1>11
<1>13. inbox'[c][p].st = "copying" /\ inbox'[c][p].data = m.data /\ inbox'[c][p].size = m.size
  BY <1>12
<1>14. \A d \in Channels \ {c} :
         net'[d] = net[d] /\ sending'[d] = sending[d] /\ inbox'[d] = inbox[d]
  BY <1>5, <1>6
<1>15. Tail(q) \in Seq(Message) /\ Len(q) \in Nat /\ Len(Tail(q)) = Len(q) - 1
  BY <1>1, <1>2, AtTail
<1>16. TypeOK'
  <2>1. net' \in [Channels -> [Parts -> Seq(Message)]]
    BY <1>5, <1>6, <1>15
  <2>2. sending' \in [Channels -> [Parts -> BOOLEAN]]
    BY <1>5, <1>6
  <2>3. inbox' \in [Channels -> [Parts -> Inbox]]
    <3>1. PICK b : b = [st |-> "copying", data |-> m.data, size |-> m.size]
      OBVIOUS
    <3>2. b \in Inbox
      BY <1>10, <3>1 DEF Inbox
    <3>3. inbox' = [inbox EXCEPT ![c][p] = b]
      BY <1>5, <1>8, <3>1
    <3> QED
      BY <1>6, <3>2, <3>3
  <2> QED
    BY <1>5, <2>1, <2>2, <2>3 DEF Inv, TypeOK, Message, Inbox
<1>17. /\ Lag(c, p)' = Lag(c, p) /\ Lag(c, o)' = Lag(c, o)
       /\ Ahead(c, p) = 0 /\ Ahead(c, p)' = 1
       /\ Ahead(c, o)' = Ahead(c, o)
  BY <1>2, <1>3, <1>5, <1>12, <1>13 DEF Lag, Unsent, Ahead, Arrived
<1>18. got.step = (IF got.n = MaxSize THEN R ELSE R - 1) /\ m.data.step = R
  <2>1. got.step = IF got.n = MaxSize THEN R ELSE R - 1
    BY <1>1, <1>2, <1>3 DEF ReceiverAt
  <2>2. got.step \in Int /\ m.data.step \in Int
    BY <1>1, <1>10, DataType
  <2> QED
    BY <1>1, <1>9, <2>1, <2>2 DEF Follows
<1>19. PartOK(c, p)'
  <2>1. ReceiverAt(recv[c], R, inbox'[c][p])
    BY <1>1, <1>3, <1>8, <1>13, <1>18 DEF ReceiverAt
  <2>2. CopyAt(c, p)'
    <3>1. CopyAt(c, p)
      BY ChannelFacts
    <3> QED
      BY <1>5, <1>12, <3>1 DEF CopyAt
  <2>3. Chain(inbox[c][p].data, net[c][p], dev[c], Lag(c, p))'
    BY <1>5, <1>9, <1>12, <1>13, <1>17
  <2>4. Carried(net[c][p], sending[c][p], host[c][p])'
    BY <1>5, <1>8, <1>12
  <2> QED
    BY <1>5, <2>1, <2>2, <2>3, <2>4 DEF PartOK
<1>20. PartOK(c, o)'
  <2>1. CopyAt(c, o) /\ ReceiverAt(recv[c], R, inbox[c][o])
    BY ChannelFacts
  <2>2. /\ Chain(inbox[c][o].data, net[c][o], dev[c], Lag(c, o))
        /\ Carried(net[c][o], sending[c][o], host[c][o])
    BY StreamFacts
  <2>3. CopyAt(c, o)'
    BY <1>5, <1>12, <2>1 DEF CopyAt
  <2> QED
    BY <1>5, <1>12, <1>17, <2>1, <2>2, <2>3 DEF PartOK
<1>21. PartsAgree(c)'
  <2>1. /\ Even(Len(q), Lag(c, p), 0, Len(net[c][o]), Lag(c, o), Ahead(c, o))
        /\ Aligned(got, q, Lag(c, p), inbox[c][o].data, net[c][o], Lag(c, o))
    BY <1>11, <1>17, AgreeOf
  <2>2. /\ inbox[c][o].data \in Data /\ net[c][o] \in Seq(Message)
        /\ Lag(c, o) \in {0, 1}
    BY StreamFacts
  <2>3. Aligned(m.data, Tail(q), Lag(c, p), inbox[c][o].data, net[c][o], Lag(c, o))
    BY <1>1, <1>2, <1>4, <2>1, <2>2, AlignedReceive
  <2>4. Even(Len(Tail(q)), Lag(c, p), 1, Len(net[c][o]), Lag(c, o), Ahead(c, o))
    <3>1. PICK l \in Nat, a \in Int : l = Len(q) /\ a = Lag(c, p) /\ Len(Tail(q)) = l - 1
      BY <1>1, <1>15
    <3>2. (l - 1) + a + 1 = l + a + 0
      OBVIOUS
    <3> QED
      BY <2>1, <3>1, <3>2 DEF Even
  <2> QED
    BY <1>11, <1>12, <1>13, <1>17, <2>3, <2>4, AgreeFrom
<1>22. Ins(c)' = Ins(c)
  <2>1. CASE p = "index"
    <3>1. Ins(c) = IF got.step # R THEN 0 ELSE Sum(got)
      BY <1>2, <1>3, <2>1 DEF Ins, Inserted
    <3>2. Ins(c)' = Sum(m.data) - m.data.n
      BY <1>3, <1>5, <1>13, <1>18, <2>1 DEF Ins, Inserted
    <3>3. Sum(m.data) - m.data.n = IF got.n = MaxSize THEN Sum(got) ELSE 0
      BY <1>1, <1>9, <1>10, SumFollows
    <3>4. got.n = MaxSize <=> got.step = R
      BY <1>1, <1>18
    <3> QED
      BY <3>1, <3>2, <3>3, <3>4
  <2>2. CASE p # "index"
    <3>1. inbox'[c]["index"] = inbox[c]["index"]
      BY <1>11, <1>12, <2>2 DEF Parts
    <3> QED
      BY <1>5, <3>1 DEF Ins
  <2> QED
    BY <2>1, <2>2
<1>23. Ledger(c)'
  <2>1. /\ Books(due[c], Ins(c), R, inbox[c]["index"].data, net[c]["index"])
        /\ Balanced(due[c], Ins(c), R, step[Src[c]], guard[c], dev[c])
    BY StreamFacts
  <2>2. Books(due[c], Ins(c), R, inbox'[c]["index"].data, net'[c]["index"])
    <3>1. CASE p = "index"
      <4>1. Books(due[c], Ins(c), R, m.data, Tail(q))
        BY <1>1, <1>2, <1>4, <2>1, <3>1, BooksReceive
      <4> QED
        BY <1>12, <1>13, <3>1, <4>1
    <3>2. CASE p # "index"
      BY <1>11, <1>12, <2>1, <3>2 DEF Parts
    <3> QED
      BY <3>1, <3>2
  <2> QED
    BY <1>5, <1>22, <2>1, <2>2 DEF Ledger
<1>24. ChannelOK(c)'
  <2>1. Inserting(c)'
    BY <1>3, <1>5 DEF Inserting
  <2>2. SenderAt(send[c], step[Src[c]], dev[c], guard[c])'
    BY <1>5, ChannelFacts
  <2>3. \A x \in Parts : PartOK(c, x)'
    BY <1>11, <1>19, <1>20
  <2> QED
    BY <1>21, <1>23, <2>1, <2>2, <2>3 DEF ChannelOK
<1>25. UNCHANGED step
  BY <1>5
<1>26. \A d \in Channels \ {c} :
         /\ due'[d] = due[d] /\ guard'[d] = guard[d] /\ send'[d] = send[d] /\ dev'[d] = dev[d]
         /\ host'[d] = host[d] /\ hostSize'[d] = hostSize[d] /\ d2h'[d] = d2h[d]
         /\ sending'[d] = sending[d] /\ net'[d] = net[d] /\ recv'[d] = recv[d]
         /\ inbox'[d] = inbox[d]
  BY <1>5, <1>14
<1> QED
  BY <1>16, <1>24, <1>25, <1>26, OthersKept
-----------------------------------------------------------------------------
(* The steps of the receiver.                                               *)

(* A step of the receiver that moves no data keeps the invariant, if it is  *)
(* at the right place afterwards.                                           *)
LEMMA ReceiverKeeps ==
  ASSUME Inv, TypeOK', NEW c \in Channels,
         UNCHANGED <<step, guard, send, dev, host, hostSize, d2h, sending, net>>,
         \A d \in Channels \ {c} :
           recv'[d] = recv[d] /\ inbox'[d] = inbox[d] /\ due'[d] = due[d],
         \A p \in Parts : /\ inbox'[c][p].data = inbox[c][p].data
                          /\ ReceiverAt(recv'[c], step[Dst[c]], inbox'[c][p]),
         Inserting(c)',
         \/ \A p \in Parts : Ahead(c, p)' = Ahead(c, p)
         \/ \A p, o \in Parts : Ahead(c, p) = Ahead(c, o) /\ Ahead(c, p)' = Ahead(c, o)',
         SameOwed(due[c], Ins(c), due'[c], Ins(c)', step[Dst[c]])
  PROVE  Inv'
<1>1. ChannelOK(c)'
  <2>1. TypeOK /\ ChannelOK(c)
    BY DEF Inv
  <2>2. /\ step' = step /\ guard'[c] = guard[c] /\ send'[c] = send[c] /\ dev'[c] = dev[c]
        /\ host'[c] = host[c] /\ hostSize'[c] = hostSize[c] /\ d2h'[c] = d2h[c]
        /\ sending'[c] = sending[c] /\ net'[c] = net[c]
    OBVIOUS
  <2>3. \A p \in Parts : /\ inbox'[c][p].data = inbox[c][p].data
                         /\ ReceiverAt(recv[c], step[Dst[c]], inbox[c][p])'
    BY <2>2
  <2> QED
    BY <2>1, <2>2, <2>3, ReceiverMoves
<1>2. UNCHANGED step
  OBVIOUS
<1>3. \A d \in Channels \ {c} :
         /\ due'[d] = due[d] /\ guard'[d] = guard[d] /\ send'[d] = send[d] /\ dev'[d] = dev[d]
         /\ host'[d] = host[d] /\ hostSize'[d] = hostSize[d] /\ d2h'[d] = d2h[d]
         /\ sending'[d] = sending[d] /\ net'[d] = net[d] /\ recv'[d] = recv[d]
         /\ inbox'[d] = inbox[d]
  OBVIOUS
<1> QED
  BY <1>1, <1>2, <1>3, OthersKept

(* The two parts hold the same data unless only one of them has come.       *)
LEMMA SameData ==
  ASSUME Inv, NEW c \in Channels, Ahead(c, "frames") = Ahead(c, "index")
  PROVE  inbox[c]["frames"].data = inbox[c]["index"].data
<1>1. /\ inbox[c]["frames"].data \in Data /\ net[c]["frames"] \in Seq(Message)
      /\ inbox[c]["index"].data \in Data /\ net[c]["index"] \in Seq(Message)
      /\ Lag(c, "frames") \in {0, 1} /\ Lag(c, "index") \in {0, 1}
      /\ Ahead(c, "frames") \in {0, 1}
      /\ PartsAgree(c)
  BY StreamFacts DEF Parts
<1>2. Len(net[c]["frames"]) + Lag(c, "frames") = Len(net[c]["index"]) + Lag(c, "index")
  <2>1. PICK a \in Int, b \in Int, x \in Int, y \in Int, u \in Int :
          /\ a = Len(net[c]["frames"]) /\ b = Len(net[c]["index"])
          /\ x = Lag(c, "frames") /\ y = Lag(c, "index")
          /\ u = Ahead(c, "frames") /\ u = Ahead(c, "index")
    <3>1. /\ Len(net[c]["frames"]) \in Int /\ Len(net[c]["index"]) \in Int
          /\ Lag(c, "frames") \in Int /\ Lag(c, "index") \in Int
          /\ Ahead(c, "frames") \in Int
      BY <1>1
    <3> QED
      BY <3>1, Zenon
  <2>2. a + x + u = b + y + u
    BY <1>1, <2>1, Zenon DEF PartsAgree
  <2>3. a + x = b + y
    BY <2>2
  <2> QED
    BY <2>1, <2>3, Zenon
<1>3. Aligned(inbox[c]["frames"].data, net[c]["frames"], Lag(c, "frames"),
              inbox[c]["index"].data, net[c]["index"], Lag(c, "index"))
  BY <1>1 DEF PartsAgree
<1> QED
  BY <1>1, <1>2, <1>3, AlignedEnds

(* The types of recv and inbox.                                             *)
LEMMA ReceiverTypes ==
  ASSUME Inv
  PROVE  recv \in [Channels -> RecvType] /\ inbox \in [Channels -> [Parts -> Inbox]]
BY DEF Inv, TypeOK, RecvType, Inbox

(* CopyReceived keeps the invariant.                                        *)
LEMMA CopyReceivedKeeps ==
  ASSUME Inv, NEW c \in Channels, NEW p \in Parts, CopyReceived(c, p)
  PROVE  Inv'
<1>1. /\ inbox \in [Channels -> [Parts -> Inbox]]
      /\ inbox[c][p] \in Inbox
      /\ recv[c] \in RecvType
      /\ Inserting(c)
      /\ \A o \in Parts : ReceiverAt(recv[c], step[Dst[c]], inbox[c][o])
  BY ReceiverTypes, ChannelFacts
<1>2. /\ inbox[c][p].st = "copying"
      /\ inbox' = [inbox EXCEPT ![c][p].st = "none"]
      /\ UNCHANGED <<step, due, stack, net, recv, guard, send, dev, host, hostSize, d2h, sending>>
  BY DEF CopyReceived, sendVars
<1>3. /\ inbox' \in [Channels -> [Parts -> Inbox]]
      /\ inbox'[c][p] = [inbox[c][p] EXCEPT !.st = "none"]
      /\ \A o \in Parts \ {p} : inbox'[c][o] = inbox[c][o]
      /\ \A d \in Channels \ {c} : inbox'[d] = inbox[d]
  BY <1>1, <1>2 DEF Inbox
<1>4. /\ inbox'[c][p].st = "none"
      /\ inbox'[c][p].data = inbox[c][p].data
      /\ inbox'[c][p].size = inbox[c][p].size
  BY <1>1, <1>3 DEF Inbox
<1>5. recv[c].pc = "WaitForReceive"
  BY <1>1, <1>2 DEF ReceiverAt, RecvType
<1>6. TypeOK'
  BY <1>2, <1>3 DEF Inv, TypeOK, Inbox
<1>7. \A o \in Parts : /\ inbox'[c][o].data = inbox[c][o].data
                       /\ inbox'[c][o].size = inbox[c][o].size
                       /\ inbox'[c][o].st # "posted" <=> inbox[c][o].st # "posted"
  BY <1>2, <1>3, <1>4
<1>8. ASSUME NEW o \in Parts
      PROVE  ReceiverAt(recv'[c], step[Dst[c]], inbox'[c][o]) /\ Ahead(c, o)' = Ahead(c, o)
  <2>1. ReceiverAt(recv[c], step[Dst[c]], inbox[c][o])
    BY <1>1
  <2> QED
    BY <1>2, <1>5, <1>7, <2>1 DEF ReceiverAt, Ahead, Arrived
<1>9. Inserting(c)'
  BY <1>1, <1>2, <1>7 DEF Inserting, Parts
<1>10. Ins(c)' = Ins(c)
  <2>1. "index" \in Parts
    BY DEF Parts
  <2> QED
    BY <1>2, <1>7, <2>1 DEF Ins, Inserted
<1>11. SameOwed(due[c], Ins(c), due'[c], Ins(c)', step[Dst[c]])
  BY <1>2, <1>10 DEF SameOwed
<1>12. \A d \in Channels \ {c} :
         recv'[d] = recv[d] /\ inbox'[d] = inbox[d] /\ due'[d] = due[d]
  BY <1>2, <1>3
<1> QED
  BY <1>2, <1>6, <1>7, <1>8, <1>9, <1>11, <1>12, ReceiverKeeps

(* The type invariant after a step that changes stack and recv only.        *)
LEMMA ReceiverStepTypes ==
  ASSUME TypeOK,
         UNCHANGED <<step, due, guard, send, dev, host, hostSize, d2h, sending, net, inbox>>,
         stack' \in [Ranks -> Seq({"send", "recv"} \X Channels)],
         recv' \in [Channels -> RecvType]
  PROVE  TypeOK'
BY DEF TypeOK, RecvType

(* InitInsert keeps the invariant.                                          *)
LEMMA InitInsertKeeps ==
  ASSUME Inv, NEW c \in Channels, InitInsert(c)
  PROVE  Inv'
<1> DEFINE R == step[Dst[c]]
           in == inbox[c]["index"]
           next == IF in.size # 0 THEN "InitInsert" ELSE "WaitForInsert"
<1>1. /\ recv \in [Channels -> RecvType]
      /\ recv[c] \in RecvType
      /\ Inserting(c)
      /\ \A o \in Parts : ReceiverAt(recv[c], R, inbox[c][o]) /\ inbox[c][o] \in Inbox
      /\ Dst[c] \in Ranks /\ <<"recv", c>> \in Tasks
  BY ReceiverTypes, ChannelFacts
<1>2. /\ recv[c].pc = "WaitForReceive"
      /\ \A p \in Parts : inbox[c][p].st = "none"
      /\ UNCHANGED <<step, due, net, inbox, guard, send, dev, host, hostSize, d2h, sending>>
  BY DEF InitInsert, sendVars
<1>3. PICK v : v = [recv[c] EXCEPT !.lastSize = inbox[c]["frames"].size, !.pc = next]
  OBVIOUS
<1>4. recv' = [recv EXCEPT ![c] = v] /\ (stack' = stack \/ Push(Dst[c], <<"recv", c>>))
  <2>1. CASE in.size # 0
    BY <1>1, <1>3, <2>1 DEF InitInsert, RecvType
  <2>2. CASE in.size = 0
    BY <1>1, <1>3, <2>2 DEF InitInsert, RecvType
  <2> QED
    BY <2>1, <2>2
<1>5. v \in RecvType /\ v.pc = next /\ v.lastSize = inbox[c]["frames"].size /\ v.kernel = recv[c].kernel
  <2>1. inbox[c]["frames"].size \in 0 .. MaxSize
    BY <1>1 DEF Inbox, Parts
  <2> QED
    BY <1>1, <1>3, <2>1 DEF RecvType
<1>6. ~recv[c].kernel
  BY <1>1, <1>2 DEF Inserting
<1>7. recv'[c] = v /\ recv' \in [Channels -> RecvType] /\ \A d \in Channels \ {c} : recv'[d] = recv[d]
  BY <1>1, <1>4, <1>5
<1>8. TypeOK'
  <2>1. stack' \in [Ranks -> Seq({"send", "recv"} \X Channels)]
    BY <1>1, <1>4, PushType DEF Inv, TypeOK
  <2> QED
    BY <1>2, <1>7, <2>1, ReceiverStepTypes DEF Inv
<1>9. ASSUME NEW p \in Parts
      PROVE  /\ inbox'[c][p].data = inbox[c][p].data
             /\ ReceiverAt(recv'[c], R, inbox'[c][p])
             /\ Ahead(c, p) = 1
             /\ Ahead(c, p)' = 0
  <2>1. ReceiverAt(recv[c], R, inbox[c][p]) /\ inbox[c][p].st = "none"
    BY <1>1, <1>2
  <2> QED
    BY <1>2, <1>5, <1>7, <2>1 DEF ReceiverAt, Ahead, Arrived
<1>10. Inserting(c)'
  BY <1>2, <1>5, <1>6, <1>7 DEF Inserting
<1>11. Ins(c)' = Ins(c)
  <2>1. ReceiverAt(recv[c], R, in) /\ in.st = "none" /\ in.data \in Data
    BY <1>1, <1>2 DEF Parts, Inbox
  <2>2. in.data.step = R /\ in.size = in.data.n
    BY <1>2, <2>1 DEF ReceiverAt
  <2>3. Ins(c) = Sum(in.data) - in.data.n
    BY <1>2, <2>1, <2>2 DEF Ins, Inserted
  <2>4. Sum(in.data) \in Int
    BY <2>1, SumType
  <2>5. CASE in.size # 0
    BY <1>2, <1>5, <1>7, <2>2, <2>3, <2>5 DEF Ins, Inserted
  <2>6. CASE in.size = 0
    <3>1. Ins(c)' = Sum(in.data)
      BY <1>2, <1>5, <1>6, <1>7, <2>2, <2>6 DEF Ins, Inserted
    <3> QED
      BY <2>2, <2>3, <2>4, <2>6, <3>1
  <2> QED
    BY <2>5, <2>6
<1>12. SameOwed(due[c], Ins(c), due'[c], Ins(c)', step[Dst[c]])
  BY <1>2, <1>11 DEF SameOwed
<1>13. \A d \in Channels \ {c} :
         recv'[d] = recv[d] /\ inbox'[d] = inbox[d] /\ due'[d] = due[d]
  BY <1>2, <1>7
<1>14. \A p, o \in Parts : Ahead(c, p) = Ahead(c, o) /\ Ahead(c, p)' = Ahead(c, o)'
  BY <1>9
<1> QED
  BY <1>2, <1>8, <1>9, <1>10, <1>12, <1>13, <1>14, ReceiverKeeps

(* InsertParticles keeps the invariant.                                     *)
LEMMA InsertParticlesKeeps ==
  ASSUME Inv, NEW c \in Channels, InsertParticles(c)
  PROVE  Inv'
<1> DEFINE R == step[Dst[c]]
<1>1. /\ recv \in [Channels -> RecvType]
      /\ recv[c] \in RecvType
      /\ Inserting(c)
      /\ \A o \in Parts : ReceiverAt(recv[c], R, inbox[c][o])
      /\ Dst[c] \in Ranks
  BY ReceiverTypes, ChannelFacts
<1>2. /\ recv[c].pc = "InitInsert"
      /\ recv' = [recv EXCEPT ![c].pc = "WaitForInsert", ![c].kernel = TRUE]
      /\ UNCHANGED <<step, due, net, inbox, guard, send, dev, host, hostSize, d2h, sending>>
  BY DEF InsertParticles, sendVars
<1>3. /\ recv'[c] = [recv[c] EXCEPT !.pc = "WaitForInsert", !.kernel = TRUE]
      /\ recv' \in [Channels -> RecvType]
      /\ \A d \in Channels \ {c} : recv'[d] = recv[d]
  BY <1>1, <1>2 DEF RecvType
<1>4. recv'[c].pc = "WaitForInsert" /\ recv'[c].kernel /\ recv'[c].lastSize = recv[c].lastSize
  BY <1>1, <1>3 DEF RecvType
<1>5. TypeOK'
  <2>1. stack' \in [Ranks -> Seq({"send", "recv"} \X Channels)]
    BY <1>1, PopType DEF Inv, InsertParticles
  <2> QED
    BY <1>2, <1>3, <2>1, ReceiverStepTypes DEF Inv
<1>6. ASSUME NEW p \in Parts
      PROVE  /\ inbox'[c][p].data = inbox[c][p].data
             /\ ReceiverAt(recv'[c], R, inbox'[c][p])
             /\ Ahead(c, p)' = Ahead(c, p)
  <2>1. ReceiverAt(recv[c], R, inbox[c][p])
    BY <1>1
  <2> QED
    BY <1>2, <1>4, <2>1 DEF ReceiverAt, Ahead, Arrived
<1>7. Inserting(c)'
  BY <1>1, <1>2, <1>4 DEF Inserting
<1>8. Ins(c)' = Ins(c)
  BY <1>2, <1>4 DEF Ins, Inserted
<1>9. SameOwed(due[c], Ins(c), due'[c], Ins(c)', step[Dst[c]])
  BY <1>2, <1>8 DEF SameOwed
<1>10. \A d \in Channels \ {c} :
         recv'[d] = recv[d] /\ inbox'[d] = inbox[d] /\ due'[d] = due[d]
  BY <1>2, <1>3
<1> QED
  BY <1>2, <1>5, <1>6, <1>7, <1>9, <1>10, ReceiverKeeps

(* What the insert kernel inserts was owed in the receiver's step.          *)
LEMMA InsertsWhatIsDue ==
  ASSUME Inv, NEW c \in Channels, recv[c].kernel
  PROVE  /\ step[Dst[c]] \in 1 .. MaxStep
         /\ inbox[c]["index"].size \in 1 .. due[c][step[Dst[c]]]
         /\ due[c][step[Dst[c]]] \in Nat
         /\ inbox[c]["index"].data.step = step[Dst[c]]
         /\ inbox[c]["index"].data.n = inbox[c]["index"].size
<1> DEFINE R == step[Dst[c]]
           d == inbox[c]["index"].data
<1>1. /\ Inserting(c)
      /\ ReceiverAt(recv[c], R, inbox[c]["index"])
      /\ d \in Data
      /\ net[c]["index"] \in Seq(Message)
      /\ Books(due[c], Ins(c), R, d, net[c]["index"])
  BY ChannelFacts, StreamFacts DEF Parts
<1>2. R \in 0 .. MaxStep /\ due[c] \in [1 .. MaxStep -> Nat]
  BY ChannelTypes DEF Inv
<1>3. /\ recv[c].pc = "WaitForInsert"
      /\ inbox[c]["index"].size # 0
      /\ R >= 1 /\ d.step = R /\ d.n = inbox[c]["index"].size
  BY <1>1 DEF Inserting, ReceiverAt
<1>4. R \in 1 .. MaxStep /\ due[c][R] \in Nat
  <2>1. R \in 1 .. MaxStep
    BY <1>2, <1>3, ExchangeAssumption
  <2> QED
    BY <1>2, <2>1
<1>5. Ins(c) = Sum(d) - d.n
  BY <1>3 DEF Ins, Inserted
<1>6. Sum(d) <= Owed(due[c], Ins(c), R, R)
  <2>1. At(d, net[c]["index"], 0) = d /\ 0 \in 0 .. Len(net[c]["index"])
    BY <1>1 DEF At
  <2>2. d.step >= 1 /\ d.step >= R
    BY <1>3, <1>4
  <2> QED
    BY <1>1, <1>3, <2>1, <2>2 DEF Books
<1>7. Owed(due[c], Ins(c), R, R) = due[c][R] + (Sum(d) - d.n)
  BY <1>5 DEF Owed
<1>8. Sum(d) \in Int /\ d.n \in 0 .. MaxSize /\ MaxSize \in Nat
  BY <1>1, SumType, DataType, ExchangeAssumption
<1>9. d.n <= due[c][R] /\ d.n >= 1
  <2>1. PICK s \in Int, n \in Nat, k \in Nat : s = Sum(d) /\ n = d.n /\ k = due[c][R]
    BY <1>4, <1>8
  <2>2. s <= k + (s - n)
    BY <1>6, <1>7, <2>1
  <2>3. n <= k
    BY <2>2
  <2>4. n # 0
    BY <1>3, <2>1
  <2> QED
    BY <2>1, <2>3, <2>4
<1> QED
  BY <1>3, <1>4, <1>8, <1>9

(* InsertDone keeps the invariant.                                          *)
LEMMA InsertDoneKeeps ==
  ASSUME Inv, NEW c \in Channels, InsertDone(c)
  PROVE  Inv'
<1> DEFINE R == step[Dst[c]]
           in == inbox[c]["index"]
<1>1. /\ recv \in [Channels -> RecvType]
      /\ recv[c] \in RecvType
      /\ Inserting(c)
      /\ \A o \in Parts : ReceiverAt(recv[c], R, inbox[c][o])
      /\ in.data \in Data
      /\ due \in [Channels -> [1 .. MaxStep -> Nat]]
  BY ReceiverTypes, ChannelFacts, StreamFacts DEF Parts, Inv, TypeOK
<1>2. /\ recv[c].kernel
      /\ recv' = [recv EXCEPT ![c].kernel = FALSE]
      /\ due' = [due EXCEPT ![c][R] = @ - in.size]
      /\ UNCHANGED <<step, stack, net, inbox, guard, send, dev, host, hostSize, d2h, sending>>
  BY DEF InsertDone, sendVars
<1>3. /\ R \in 1 .. MaxStep
      /\ in.size \in 1 .. due[c][R]
      /\ due[c][R] \in Nat
      /\ in.data.step = R
      /\ in.data.n = in.size
  BY <1>2, InsertsWhatIsDue
<1>4. recv[c].pc = "WaitForInsert"
  BY <1>1, <1>2 DEF Inserting
<1>5. /\ recv'[c] = [recv[c] EXCEPT !.kernel = FALSE]
      /\ recv' \in [Channels -> RecvType]
      /\ \A d \in Channels \ {c} : recv'[d] = recv[d]
  BY <1>1, <1>2 DEF RecvType
<1>6. recv'[c].pc = "WaitForInsert" /\ ~recv'[c].kernel /\ recv'[c].lastSize = recv[c].lastSize
  BY <1>1, <1>4, <1>5 DEF RecvType
<1>7. /\ due'[c][R] = due[c][R] - in.size
      /\ \A k \in 1 .. MaxStep : k # R => due'[c][k] = due[c][k]
      /\ \A d \in Channels \ {c} : due'[d] = due[d]
      /\ due' \in [Channels -> [1 .. MaxStep -> Nat]]
  <2>1. due[c][R] - in.size \in Nat
    BY <1>3
  <2> QED
    BY <1>1, <1>2, <1>3, <2>1
<1>8. TypeOK'
  BY <1>2, <1>5, <1>7 DEF Inv, TypeOK, RecvType
<1>9. ASSUME NEW p \in Parts
      PROVE  /\ inbox'[c][p].data = inbox[c][p].data
             /\ ReceiverAt(recv'[c], R, inbox'[c][p])
             /\ Ahead(c, p)' = Ahead(c, p)
  <2>1. ReceiverAt(recv[c], R, inbox[c][p])
    BY <1>1
  <2> QED
    BY <1>2, <1>4, <1>6, <2>1 DEF ReceiverAt, Ahead, Arrived
<1>10. Inserting(c)'
  BY <1>1, <1>2, <1>4, <1>6 DEF Inserting
<1>11. Ins(c) = Sum(in.data) - in.size /\ Ins(c)' = Sum(in.data)
  BY <1>2, <1>3, <1>6 DEF Ins, Inserted
<1>12. SameOwed(due[c], Ins(c), due'[c], Ins(c)', step[Dst[c]])
  <2> SUFFICES ASSUME NEW k \in 1 .. MaxStep
               PROVE  Owed(due'[c], Ins(c)', R, k) = Owed(due[c], Ins(c), R, k)
    BY DEF SameOwed
  <2>1. CASE k = R
    <3>1. PICK s \in Int, n \in Int, l \in Int : s = Sum(in.data) /\ n = in.size /\ l = due[c][R]
      BY <1>1, <1>3, SumType
    <3>2. (l - n) + s = l + (s - n)
      OBVIOUS
    <3>3. Owed(due'[c], Ins(c)', R, k) = (l - n) + s
      BY <1>7, <1>11, <2>1, <3>1 DEF Owed
    <3>4. Owed(due[c], Ins(c), R, k) = l + (s - n)
      BY <1>11, <2>1, <3>1 DEF Owed
    <3> QED
      BY <3>2, <3>3, <3>4
  <2>2. CASE k # R
    BY <1>7, <2>2 DEF Owed
  <2> QED
    BY <2>1, <2>2
<1>13. \A d \in Channels \ {c} :
         recv'[d] = recv[d] /\ inbox'[d] = inbox[d] /\ due'[d] = due[d]
  BY <1>2, <1>5, <1>7
<1> QED
  BY <1>2, <1>8, <1>9, <1>10, <1>12, <1>13, ReceiverKeeps

(* NextReceiveRound keeps the invariant: it is another round exactly if the *)
(* message was full, in both parts.                                         *)
LEMMA NextReceiveRoundKeeps ==
  ASSUME Inv, NEW c \in Channels, NextReceiveRound(c)
  PROVE  Inv'
<1> DEFINE R == step[Dst[c]]
           next == IF recv[c].lastSize = MaxSize THEN "WaitForReceive" ELSE "Finished"
           st == IF recv[c].lastSize = MaxSize THEN "posted" ELSE "none"
<1>1. /\ recv \in [Channels -> RecvType]
      /\ recv[c] \in RecvType
      /\ inbox \in [Channels -> [Parts -> Inbox]]
      /\ Inserting(c)
      /\ \A o \in Parts : ReceiverAt(recv[c], R, inbox[c][o])
      /\ MaxSize \in Int
  BY ReceiverTypes, ChannelFacts
<1>2. /\ recv[c].pc = "WaitForInsert"
      /\ ~recv[c].kernel
      /\ UNCHANGED <<step, due, stack, net, guard, send, dev, host, hostSize, d2h, sending>>
  BY DEF NextReceiveRound, sendVars
<1>3. /\ recv' = [recv EXCEPT ![c].pc = next]
      /\ inbox' \in [Channels -> [Parts -> Inbox]]
      /\ \A p \in Parts : /\ inbox'[c][p].st = st
                           /\ inbox'[c][p].data = inbox[c][p].data
                           /\ inbox'[c][p].size = inbox[c][p].size
      /\ \A d \in Channels \ {c} : inbox'[d] = inbox[d]
  <2>1. CASE recv[c].lastSize = MaxSize
    <3>1. /\ recv' = [recv EXCEPT ![c].pc = "WaitForReceive"]
          /\ inbox' = [inbox EXCEPT ![c] = [p \in Parts |-> [@[p] EXCEPT !.st = "posted"]]]
      BY <2>1, Zenon DEF NextReceiveRound
    <3>2. \A p \in Parts : [inbox[c][p] EXCEPT !.st = "posted"] \in Inbox
      BY <1>1 DEF Inbox
    <3>3. \A p \in Parts : inbox'[c][p] = [inbox[c][p] EXCEPT !.st = "posted"]
      BY <1>1, <3>1
    <3>4. inbox' \in [Channels -> [Parts -> Inbox]] /\ \A d \in Channels \ {c} : inbox'[d] = inbox[d]
      BY <1>1, <3>1, <3>2
    <3>5. \A p \in Parts : /\ inbox'[c][p].st = "posted"
                           /\ inbox'[c][p].data = inbox[c][p].data
                           /\ inbox'[c][p].size = inbox[c][p].size
      <4> SUFFICES ASSUME NEW p \in Parts
                   PROVE  /\ inbox'[c][p].st = "posted"
                          /\ inbox'[c][p].data = inbox[c][p].data
                          /\ inbox'[c][p].size = inbox[c][p].size
        OBVIOUS
      <4>1. PICK b \in Inbox : b = inbox[c][p]
        BY <1>1
      <4>2. inbox'[c][p] = [b EXCEPT !.st = "posted"]
        BY <3>3, <4>1
      <4> QED
        BY <4>1, <4>2 DEF Inbox
    <3> QED
      BY <2>1, <3>1, <3>4, <3>5
  <2>2. CASE recv[c].lastSize # MaxSize
    <3>1. recv' = [recv EXCEPT ![c].pc = "Finished"] /\ inbox' = inbox
      BY <2>2, Zenon DEF NextReceiveRound
    <3>2. \A p \in Parts : inbox[c][p].st = "none"
      BY <1>1, <1>2 DEF ReceiverAt
    <3> QED
      BY <1>1, <2>2, <3>1, <3>2
  <2> QED
    BY <2>1, <2>2
<1>4. /\ recv' \in [Channels -> RecvType]
      /\ recv'[c] = [recv[c] EXCEPT !.pc = next]
      /\ \A d \in Channels \ {c} : recv'[d] = recv[d]
  BY <1>1, <1>3 DEF RecvType
<1>5. recv'[c].pc = next /\ ~recv'[c].kernel
  BY <1>1, <1>2, <1>4 DEF RecvType
<1>6. TypeOK'
  BY <1>2, <1>3, <1>4 DEF Inv, TypeOK, RecvType, Inbox
<1>7. ASSUME NEW p \in Parts
      PROVE  recv[c].lastSize = inbox[c][p].data.n
  <2>1. Ahead(c, "frames") = Ahead(c, "index")
    BY <1>2 DEF Ahead, Arrived
  <2>2. inbox[c]["frames"].data = inbox[c]["index"].data
    BY <2>1, SameData
  <2>3. recv[c].lastSize = inbox[c]["frames"].size
    BY <1>1, <1>2 DEF Inserting
  <2>4. inbox[c]["frames"].size = inbox[c]["frames"].data.n
    BY <1>1 DEF ReceiverAt, Parts
  <2> QED
    BY <2>2, <2>3, <2>4 DEF Parts
<1>8. ASSUME NEW p \in Parts
      PROVE  /\ inbox'[c][p].data = inbox[c][p].data
             /\ ReceiverAt(recv'[c], R, inbox'[c][p])
             /\ Ahead(c, p)' = Ahead(c, p)
  <2>1. ReceiverAt(recv[c], R, inbox[c][p]) /\ recv[c].lastSize = inbox[c][p].data.n
    BY <1>1, <1>7
  <2>2. /\ R >= 1 /\ inbox[c][p].data.step = R
        /\ inbox[c][p].data.n \in 0 .. MaxSize
        /\ inbox[c][p].size = inbox[c][p].data.n
    <3>1. inbox[c][p].data \in Data
      BY StreamFacts
    <3> QED
      BY <1>2, <2>1, <3>1, DataType DEF ReceiverAt
  <2>3. CASE recv[c].lastSize = MaxSize
    BY <1>1, <1>2, <1>3, <1>5, <2>1, <2>2, <2>3 DEF ReceiverAt, Ahead, Arrived
  <2>4. CASE recv[c].lastSize # MaxSize
    <3>1. inbox[c][p].data.n < MaxSize
      <4>1. PICK n \in 0 .. MaxSize : n = inbox[c][p].data.n
        BY <2>2
      <4>2. n # MaxSize
        BY <2>1, <2>4, <4>1
      <4>3. n < MaxSize
        BY <1>1, <4>2
      <4> QED
        BY <4>1, <4>3
    <3>2. recv'[c].pc = "Finished" /\ inbox'[c][p].st = "none"
      BY <1>3, <1>5, <2>4
    <3>3. ReceiverAt(recv'[c], R, inbox'[c][p])
      BY <1>3, <2>2, <3>1, <3>2 DEF ReceiverAt
    <3>4. Ahead(c, p)' = Ahead(c, p)
      BY <1>2, <3>2 DEF Ahead, Arrived
    <3> QED
      BY <1>3, <3>3, <3>4
  <2> QED
    BY <2>3, <2>4
<1>9. Inserting(c)'
  BY <1>5 DEF Inserting
<1>10. Ins(c)' = Ins(c)
  <2>1. inbox'[c]["index"].st = st /\ inbox'[c]["index"].data = inbox[c]["index"].data
    BY <1>3 DEF Parts
  <2> QED
    BY <1>2, <1>5, <2>1 DEF Ins, Inserted
<1>11. SameOwed(due[c], Ins(c), due'[c], Ins(c)', step[Dst[c]])
  BY <1>2, <1>10 DEF SameOwed
<1>12. \A d \in Channels \ {c} :
         recv'[d] = recv[d] /\ inbox'[d] = inbox[d] /\ due'[d] = due[d]
  BY <1>2, <1>3, <1>4
<1> QED
  BY <1>2, <1>6, <1>8, <1>9, <1>11, <1>12, ReceiverKeeps
-----------------------------------------------------------------------------
(* A step of the simulation begins.                                         *)

(* The balance of a later step of the receiver.                             *)
LEMMA BalancedNextStep ==
  ASSUME NEW left, NEW ins, NEW now \in Nat, NEW S \in Nat, NEW g, NEW dv,
         Balanced(left, ins, now, S, g, dv)
  PROVE  Balanced(left, 0, now + 1, S, g, dv)
<1> SUFFICES ASSUME S >= 1, S >= now + 1
             PROVE  Owed(left, 0, now + 1, S) = g + IF dv.step = S THEN Sum(dv) ELSE 0
  BY DEF Balanced
<1>1. S >= now /\ S # now
  OBVIOUS
<1>2. Owed(left, ins, now, S) = g + IF dv.step = S THEN Sum(dv) ELSE 0
  BY <1>1 DEF Balanced
<1>3. Owed(left, ins, now, S) = left[S] + 0 /\ Owed(left, 0, now + 1, S) = left[S] + 0
  BY <1>1 DEF Owed
<1> QED
  BY <1>2, <1>3

(* The sender goes on to step S + 1 and owes what is in its guard.  No      *)
(* message of that step has been sent or received.                          *)
LEMMA LedgerNextStep ==
  ASSUME NEW left \in [1 .. MaxStep -> Nat], NEW ins, NEW now \in Nat,
         NEW got \in Data, NEW q \in Seq(Message), NEW dv \in Data, NEW b,
         NEW S \in 0 .. MaxStep, S < MaxStep, NEW g \in Nat,
         dv.step = S, Chain(got, q, dv, b), Books(left, ins, now, got, q),
         S + 1 = now => ins = 0,
         NEW left2, left2 = [left EXCEPT ![S + 1] = g]
  PROVE  Books(left2, ins, now, got, q) /\ Balanced(left2, ins, now, S + 1, g, dv)
<1>1. S + 1 \in 1 .. MaxStep /\ MaxStep \in Nat
  BY ExchangeAssumption
<1>2. left2[S + 1] = g /\ \A k \in 1 .. MaxStep : k # S + 1 => left2[k] = left[k]
  BY <1>1
<1>3. Books(left2, ins, now, got, q)
  <2> SUFFICES ASSUME NEW i \in 0 .. Len(q), NEW d, d = At(got, q, i),
                      d.step >= 1, d.step >= now
               PROVE  /\ Sum(d) <= Owed(left2, ins, now, d.step)
                      /\ d.n < MaxSize => Sum(d) = Owed(left2, ins, now, d.step)
    BY DEF Books
  <2>1. d \in Data /\ d.step <= S
    BY AtType DEF Chain
  <2>2. d.step \in 1 .. MaxStep /\ d.step # S + 1
    BY <1>1, <2>1, DataType
  <2>3. Owed(left2, ins, now, d.step) = Owed(left, ins, now, d.step)
    BY <1>2, <2>2 DEF Owed
  <2>4. /\ Sum(d) <= Owed(left, ins, now, d.step)
        /\ d.n < MaxSize => Sum(d) = Owed(left, ins, now, d.step)
    BY DEF Books
  <2> QED
    BY <2>3, <2>4
<1>4. Balanced(left2, ins, now, S + 1, g, dv)
  <2>1. Owed(left2, ins, now, S + 1) = g
    BY <1>2 DEF Owed
  <2>2. dv.step # S + 1
    BY <1>1
  <2> QED
    BY <2>1, <2>2 DEF Balanced
<1> QED
  BY <1>3, <1>4

(* StartStep keeps the type invariant.                                      *)
LEMMA StartStepTypes ==
  ASSUME Inv, NEW r \in Ranks, StartStep(r)
  PROVE  TypeOK'
<1>1. TypeOK
  BY DEF Inv
<1>2. PICK owed \in [Outgoing(r) -> 0 .. MaxGuard] :
        /\ guard' = [c \in Channels |-> IF c \in Outgoing(r) THEN owed[c] ELSE guard[c]]
        /\ due' = [c \in Channels |->
                     IF c \in Outgoing(r) THEN [due[c] EXCEPT ![step[r] + 1] = owed[c]] ELSE due[c]]
  BY Zenon DEF StartStep
<1>3. step' \in [Ranks -> 0 .. MaxStep]
  BY <1>1, ExchangeAssumption DEF StartStep, TypeOK
<1>4. due' \in [Channels -> [1 .. MaxStep -> Nat]]
  <2> SUFFICES ASSUME NEW c \in Channels, c \in Outgoing(r)
               PROVE  [due[c] EXCEPT ![step[r] + 1] = owed[c]] \in [1 .. MaxStep -> Nat]
    BY <1>1, <1>2 DEF TypeOK
  <2>1. owed[c] \in Nat /\ due[c] \in [1 .. MaxStep -> Nat]
    BY <1>1, ExchangeAssumption DEF TypeOK
  <2> QED
    BY <2>1
<1>5. guard' \in [Channels -> 0 .. MaxGuard]
  BY <1>1, <1>2 DEF TypeOK
<1>6. send' \in [Channels -> SendType]
  <2>1. [pc |-> "Constructor", round |-> 0, lastSize |-> 0, bash |-> FALSE] \in SendType
    BY ExchangeAssumption DEF SendType
  <2>2. send \in [Channels -> SendType]
    BY <1>1 DEF TypeOK, SendType
  <2> QED
    BY <2>1, <2>2 DEF StartStep
<1>7. recv' \in [Channels -> RecvType]
  <2>1. [pc |-> "WaitForReceive", lastSize |-> 0, kernel |-> FALSE] \in RecvType
    BY ExchangeAssumption DEF RecvType
  <2> QED
    BY <2>1, ReceiverTypes DEF StartStep
<1>8. inbox' \in [Channels -> [Parts -> Inbox]]
  <2>1. ASSUME NEW c \in Channels, NEW p \in Parts
        PROVE  [inbox[c][p] EXCEPT !.st = "posted"] \in Inbox
    BY ReceiverTypes DEF Inbox
  <2> QED
    BY <2>1, ReceiverTypes DEF StartStep
<1> QED
  BY <1>1, <1>3, <1>4, <1>5, <1>6, <1>7, <1>8 DEF StartStep, TypeOK, SendType, RecvType, Inbox

(* What the step changes at a channel, at its sender and at its receiver.   *)
SenderStarts(c) ==
  /\ step[Src[c]] < MaxStep
  /\ step'[Src[c]] = step[Src[c]] + 1
  /\ send[c].pc = "Finished"
  /\ send'[c] = [pc |-> "Constructor", round |-> 0, lastSize |-> 0, bash |-> FALSE]
  /\ guard'[c] \in 0 .. MaxGuard
  /\ due'[c] = [due[c] EXCEPT ![step[Src[c]] + 1] = guard'[c]]

SenderStays(c) ==
  step'[Src[c]] = step[Src[c]] /\ send'[c] = send[c] /\ guard'[c] = guard[c] /\ due'[c] = due[c]

ReceiverStarts(c) ==
  /\ step'[Dst[c]] = step[Dst[c]] + 1
  /\ recv[c].pc = "Finished"
  /\ recv'[c] = [pc |-> "WaitForReceive", lastSize |-> 0, kernel |-> FALSE]
  /\ \A p \in Parts : inbox'[c][p] = [inbox[c][p] EXCEPT !.st = "posted"]

ReceiverStays(c) ==
  step'[Dst[c]] = step[Dst[c]] /\ recv'[c] = recv[c] /\ inbox'[c] = inbox[c]

(* A channel in a step of StartStep.                                        *)
LEMMA StartStepAt ==
  ASSUME Inv, NEW r \in Ranks, StartStep(r), NEW c \in Channels
  PROVE  /\ UNCHANGED <<stack, dev, host, hostSize, d2h, sending, net>>
         /\ SenderStarts(c) \/ SenderStays(c)
         /\ ReceiverStarts(c) \/ ReceiverStays(c)
<1>1. step \in [Ranks -> 0 .. MaxStep] /\ Src[c] \in Ranks /\ Dst[c] \in Ranks
  BY ExchangeAssumption DEF Inv, TypeOK
<1>2. PICK owed \in [Outgoing(r) -> 0 .. MaxGuard] :
        /\ guard' = [d \in Channels |-> IF d \in Outgoing(r) THEN owed[d] ELSE guard[d]]
        /\ due' = [d \in Channels |->
                     IF d \in Outgoing(r) THEN [due[d] EXCEPT ![step[r] + 1] = owed[d]] ELSE due[d]]
  BY Zenon DEF StartStep
<1>3. step' = [step EXCEPT ![r] = @ + 1] /\ step[r] < MaxStep
  BY DEF StartStep
<1>4. UNCHANGED <<stack, dev, host, hostSize, d2h, sending, net>>
  BY DEF StartStep
<1>5. SenderStarts(c) \/ SenderStays(c)
  <2>1. CASE Src[c] = r
    <3>1. c \in Outgoing(r)
      BY <2>1 DEF Outgoing
    <3>2. guard'[c] = owed[c] /\ owed[c] \in 0 .. MaxGuard
          /\ due'[c] = [due[c] EXCEPT ![step[r] + 1] = owed[c]]
      BY <1>2, <3>1
    <3>3. /\ send[c].pc = "Finished"
          /\ send'[c] = [pc |-> "Constructor", round |-> 0, lastSize |-> 0, bash |-> FALSE]
      BY <3>1 DEF StartStep
    <3>4. step[Src[c]] < MaxStep /\ step'[Src[c]] = step[Src[c]] + 1
      BY <1>1, <1>3, <2>1
    <3> QED
      BY <2>1, <3>2, <3>3, <3>4 DEF SenderStarts
  <2>2. CASE Src[c] # r
    <3>1. c \notin Outgoing(r)
      BY <2>2 DEF Outgoing
    <3>2. guard'[c] = guard[c] /\ due'[c] = due[c]
      BY <1>2, <3>1
    <3>3. send'[c] = send[c]
      BY <3>1 DEF StartStep
    <3>4. step'[Src[c]] = step[Src[c]]
      BY <1>1, <1>3, <2>2
    <3> QED
      BY <3>2, <3>3, <3>4 DEF SenderStays
  <2> QED
    BY <2>1, <2>2
<1>6. ReceiverStarts(c) \/ ReceiverStays(c)
  <2>1. CASE Dst[c] = r
    <3>1. c \in Incoming(r)
      BY <2>1 DEF Incoming
    <3>2. /\ recv[c].pc = "Finished"
          /\ recv'[c] = [pc |-> "WaitForReceive", lastSize |-> 0, kernel |-> FALSE]
          /\ \A p \in Parts : inbox'[c][p] = [inbox[c][p] EXCEPT !.st = "posted"]
      BY <3>1 DEF StartStep
    <3>3. step'[Dst[c]] = step[Dst[c]] + 1
      BY <1>1, <1>3, <2>1
    <3> QED
      BY <3>2, <3>3 DEF ReceiverStarts
  <2>2. CASE Dst[c] # r
    <3>1. c \notin Incoming(r)
      BY <2>2 DEF Incoming
    <3>2. recv'[c] = recv[c] /\ inbox'[c] = inbox[c]
      BY <3>1 DEF StartStep
    <3>3. step'[Dst[c]] = step[Dst[c]]
      BY <1>1, <1>3, <2>2
    <3> QED
      BY <3>2, <3>3 DEF ReceiverStays
  <2> QED
    BY <2>1, <2>2
<1> QED
  BY <1>4, <1>5, <1>6, Zenon

(* The sender of a channel begins a step, or not.                           *)
LEMMA SenderStartsKeeps ==
  ASSUME Inv, NEW c \in Channels, UNCHANGED <<dev, host, hostSize, d2h, sending, net>>,
         SenderStarts(c) \/ SenderStays(c)
  PROVE  /\ SenderAt(send'[c], step'[Src[c]], dev[c], guard'[c])
         /\ \A p \in Parts : CopyAt(c, p)' /\ Lag(c, p)' = Lag(c, p)
         /\ Books(due'[c], Ins(c), step[Dst[c]], inbox[c]["index"].data, net[c]["index"])
         /\ Balanced(due'[c], Ins(c), step[Dst[c]], step'[Src[c]], guard'[c], dev[c])
         /\ step'[Src[c]] \in Nat
<1> DEFINE S == step[Src[c]]
           R == step[Dst[c]]
           d == inbox[c]["index"].data
<1>1. /\ send[c] \in SendType
      /\ dev[c] \in Data
      /\ SenderAt(send[c], S, dev[c], guard[c])
      /\ \A p \in Parts : CopyAt(c, p)
  BY ChannelFacts
<1>2. /\ Books(due[c], Ins(c), R, d, net[c]["index"])
      /\ Balanced(due[c], Ins(c), R, S, guard[c], dev[c])
      /\ d \in Data /\ net[c]["index"] \in Seq(Message)
      /\ Chain(d, net[c]["index"], dev[c], Lag(c, "index"))
      /\ R \in Nat /\ S \in 0 .. MaxStep
  BY StreamFacts DEF Parts
<1>3. due[c] \in [1 .. MaxStep -> Nat]
  BY ChannelTypes DEF Inv
<1>4. CASE SenderStays(c)
  <2>1. \A p \in Parts : CopyAt(c, p)' /\ Lag(c, p)' = Lag(c, p)
    BY <1>1, <1>4 DEF SenderStays, CopyAt, Lag, Unsent
  <2>2. S \in Nat
    BY <1>2, ExchangeAssumption
  <2> QED
    BY <1>1, <1>2, <1>4, <2>1, <2>2 DEF SenderStays
<1>5. CASE SenderStarts(c)
  <2>1. /\ S < MaxStep
        /\ step'[Src[c]] = S + 1
        /\ send[c].pc = "Finished"
        /\ send'[c].pc = "Constructor" /\ send'[c].round = 0 /\ send'[c].bash = FALSE
        /\ guard'[c] \in 0 .. MaxGuard
        /\ due'[c] = [due[c] EXCEPT ![S + 1] = guard'[c]]
    BY <1>5 DEF SenderStarts
  <2>2. dev[c].step = S /\ dev[c].n < MaxSize /\ ~send[c].bash
    BY <1>1, <2>1 DEF SenderAt
  <2>3. SenderAt(send'[c], S + 1, dev[c], guard'[c])
    BY <1>2, <2>1, <2>2 DEF SenderAt
  <2>4. ASSUME NEW p \in Parts PROVE CopyAt(c, p)' /\ Lag(c, p)' = Lag(c, p)
    <3>1. CopyAt(c, p)
      BY <1>1
    <3>2. ~d2h[c][p]
      BY <2>1, <3>1 DEF CopyAt
    <3> QED
      BY <2>1, <3>2 DEF CopyAt, Lag, Unsent
  <2>5. S + 1 = R => Ins(c) = 0
    <3>1. At(d, net[c]["index"], 0) = d /\ 0 \in 0 .. Len(net[c]["index"])
      BY <1>2 DEF At
    <3>2. d.step <= dev[c].step
      BY <1>2, <3>1 DEF Chain
    <3>3. S + 1 = R => d.step # R
      BY <1>2, <2>2, <3>2, DataType
    <3> QED
      BY <3>3 DEF Ins, Inserted
  <2>6. PICK g, left : g \in Nat /\ g = guard'[c] /\ left = due'[c]
    BY <2>1, ExchangeAssumption
  <2>7. g \in Nat /\ left = [due[c] EXCEPT ![S + 1] = g]
    BY <2>1, <2>6
  <2>8. Books(left, Ins(c), R, d, net[c]["index"]) /\ Balanced(left, Ins(c), R, S + 1, g, dev[c])
    BY <1>1, <1>2, <1>3, <2>1, <2>2, <2>5, <2>7, LedgerNextStep
  <2>9. S + 1 \in Nat
    BY <1>2, ExchangeAssumption
  <2> QED
    BY <2>1, <2>3, <2>4, <2>6, <2>8, <2>9
<1> QED
  BY <1>4, <1>5

(* The receiver of a channel begins a step, or not.                         *)
LEMMA ReceiverStartsKeeps ==
  ASSUME Inv, NEW c \in Channels, ReceiverStarts(c) \/ ReceiverStays(c)
  PROVE  /\ Inserting(c)'
         /\ \A p \in Parts :
              /\ inbox'[c][p].data = inbox[c][p].data
              /\ ReceiverAt(recv'[c], step'[Dst[c]], inbox'[c][p])
              /\ Ahead(c, p)' = Ahead(c, p)
         /\ \/ step'[Dst[c]] = step[Dst[c]] /\ Ins(c)' = Ins(c)
            \/ step'[Dst[c]] = step[Dst[c]] + 1 /\ Ins(c)' = 0
<1> DEFINE R == step[Dst[c]]
<1>1. /\ Inserting(c)
      /\ \A p \in Parts : ReceiverAt(recv[c], R, inbox[c][p]) /\ inbox[c][p] \in Inbox
      /\ R \in Nat
  BY ChannelFacts, StreamFacts, ReceiverTypes
<1>2. CASE ReceiverStays(c)
  <2>1. Inserting(c)' /\ Ins(c)' = Ins(c)
    BY <1>1, <1>2 DEF ReceiverStays, Inserting, Ins
  <2> QED
    BY <1>1, <1>2, <2>1 DEF ReceiverStays, Ahead, Arrived
<1>3. CASE ReceiverStarts(c)
  <2>1. /\ step'[Dst[c]] = R + 1
        /\ recv[c].pc = "Finished"
        /\ recv'[c].pc = "WaitForReceive" /\ recv'[c].kernel = FALSE
    BY <1>3 DEF ReceiverStarts
  <2>2. Inserting(c)'
    BY <2>1 DEF Inserting
  <2>3. ASSUME NEW p \in Parts
        PROVE  /\ inbox'[c][p].data = inbox[c][p].data
               /\ ReceiverAt(recv'[c], step'[Dst[c]], inbox'[c][p])
               /\ Ahead(c, p)' = Ahead(c, p)
               /\ inbox[c][p].data.step = R
    <3>1. PICK b \in Inbox : b = inbox[c][p] /\ inbox'[c][p] = [b EXCEPT !.st = "posted"]
      BY <1>1, <1>3 DEF ReceiverStarts
    <3>2. inbox'[c][p].st = "posted" /\ inbox'[c][p].data = b.data /\ inbox'[c][p].size = b.size
      BY <3>1 DEF Inbox
    <3>3. b.data.n < MaxSize /\ b.data.step = R /\ b.size = b.data.n
      BY <1>1, <2>1, <3>1 DEF ReceiverAt
    <3>4. b.data.n # MaxSize
      <4>1. b.data \in Data
        BY DEF Inbox
      <4> QED
        BY <3>3, <4>1, DataType, ExchangeAssumption
    <3>5. ReceiverAt(recv'[c], R + 1, inbox'[c][p])
      BY <1>1, <2>1, <3>2, <3>3, <3>4 DEF ReceiverAt
    <3> QED
      BY <2>1, <3>1, <3>2, <3>3, <3>5 DEF Ahead, Arrived
  <2>4. Ins(c)' = 0
    <3>1. inbox'[c]["index"].data.step = R /\ R # R + 1
      BY <1>1, <2>3 DEF Parts
    <3> QED
      BY <2>1, <3>1 DEF Ins, Inserted
  <2> QED
    BY <2>1, <2>2, <2>3, <2>4
<1> QED
  BY <1>2, <1>3

(* StartStep keeps the invariant.                                           *)
LEMMA StartStepKeeps ==
  ASSUME Inv, NEW r \in Ranks, StartStep(r)
  PROVE  Inv'
<1>1. TypeOK'
  BY StartStepTypes
<1> SUFFICES ASSUME NEW c \in Channels PROVE ChannelOK(c)'
  BY <1>1 DEF Inv
<1>2. /\ UNCHANGED <<stack, dev, host, hostSize, d2h, sending, net>>
      /\ SenderStarts(c) \/ SenderStays(c)
      /\ ReceiverStarts(c) \/ ReceiverStays(c)
  BY StartStepAt
<1>3. /\ SenderAt(send'[c], step'[Src[c]], dev[c], guard'[c])
      /\ \A p \in Parts : CopyAt(c, p)' /\ Lag(c, p)' = Lag(c, p)
      /\ Books(due'[c], Ins(c), step[Dst[c]], inbox[c]["index"].data, net[c]["index"])
      /\ Balanced(due'[c], Ins(c), step[Dst[c]], step'[Src[c]], guard'[c], dev[c])
      /\ step'[Src[c]] \in Nat
  BY <1>2, SenderStartsKeeps
<1>4. /\ Inserting(c)'
      /\ \A p \in Parts :
           /\ inbox'[c][p].data = inbox[c][p].data
           /\ ReceiverAt(recv'[c], step'[Dst[c]], inbox'[c][p])
           /\ Ahead(c, p)' = Ahead(c, p)
      /\ \/ step'[Dst[c]] = step[Dst[c]] /\ Ins(c)' = Ins(c)
         \/ step'[Dst[c]] = step[Dst[c]] + 1 /\ Ins(c)' = 0
  BY <1>2, ReceiverStartsKeeps
<1>5. \A p \in Parts : PartOK(c, p)'
  <2> SUFFICES ASSUME NEW p \in Parts PROVE PartOK(c, p)'
    OBVIOUS
  <2>1. /\ Chain(inbox[c][p].data, net[c][p], dev[c], Lag(c, p))
        /\ Carried(net[c][p], sending[c][p], host[c][p])
    BY StreamFacts
  <2> QED
    BY <1>2, <1>3, <1>4, <2>1 DEF PartOK
<1>6. PartsAgree(c)'
  <2>1. PartsAgree(c)
    BY StreamFacts
  <2>2. /\ inbox'[c]["frames"].data = inbox[c]["frames"].data
        /\ inbox'[c]["index"].data = inbox[c]["index"].data
        /\ Lag(c, "frames")' = Lag(c, "frames") /\ Lag(c, "index")' = Lag(c, "index")
        /\ Ahead(c, "frames")' = Ahead(c, "frames") /\ Ahead(c, "index")' = Ahead(c, "index")
    BY <1>3, <1>4 DEF Parts
  <2> QED
    BY <1>2, <2>1, <2>2 DEF PartsAgree
<1>7. Ledger(c)'
  <2>1. PICK left, ins, g, S : left = due'[c] /\ ins = Ins(c)' /\ g = guard'[c] /\ S = step'[Src[c]]
    OBVIOUS
  <2>0. S \in Nat
    BY <1>3, <2>1
  <2>2. /\ Books(left, Ins(c), step[Dst[c]], inbox[c]["index"].data, net[c]["index"])
        /\ Balanced(left, Ins(c), step[Dst[c]], S, g, dev[c])
        /\ inbox[c]["index"].data \in Data /\ net[c]["index"] \in Seq(Message)
        /\ step[Dst[c]] \in Nat
    BY <1>3, <2>1, StreamFacts DEF Parts
  <2>3. Books(left, ins, step'[Dst[c]], inbox[c]["index"].data, net[c]["index"])
    <3>1. Books(left, 0, step[Dst[c]] + 1, inbox[c]["index"].data, net[c]["index"])
      BY <2>2, BooksNextStep
    <3> QED
      BY <1>4, <2>1, <2>2, <3>1
  <2>4. Balanced(left, ins, step'[Dst[c]], S, g, dev[c])
    <3>1. Balanced(left, 0, step[Dst[c]] + 1, S, g, dev[c])
      BY <2>0, <2>2, BalancedNextStep
    <3> QED
      BY <1>4, <2>1, <2>2, <3>1
  <2>5. inbox'[c]["index"].data = inbox[c]["index"].data
    BY <1>4 DEF Parts
  <2> QED
    BY <1>2, <2>1, <2>3, <2>4, <2>5 DEF Ledger
<1> QED
  BY <1>2, <1>3, <1>4, <1>5, <1>6, <1>7 DEF ChannelOK

-----------------------------------------------------------------------------
(* Before the first step nothing is under way.                              *)
LEMMA InitInv == Init => Inv
<1> SUFFICES ASSUME Init PROVE Inv
  OBVIOUS
<1>1. NoData \in Data /\ NoData.step = 0 /\ NoData.round = 0 /\ NoData.n = 0
  BY ExchangeAssumption DEF NoData, Data
<1>2. TypeOK
  <2>1. [st |-> "none", data |-> NoData, size |-> 0] \in Inbox
    BY <1>1, ExchangeAssumption DEF Inbox
  <2>2. inbox \in [Channels -> [Parts -> Inbox]]
    BY <2>1 DEF Init
  <2>3. [pc |-> "Finished", round |-> 0, lastSize |-> 0, bash |-> FALSE] \in SendType
    BY ExchangeAssumption DEF SendType
  <2>4. [pc |-> "Finished", lastSize |-> 0, kernel |-> FALSE] \in RecvType
    BY ExchangeAssumption DEF RecvType
  <2>5. send \in [Channels -> SendType] /\ recv \in [Channels -> RecvType]
    BY <2>3, <2>4 DEF Init
  <2>6. /\ dev \in [Channels -> Data]
        /\ host \in [Channels -> [Parts -> Data]]
        /\ hostSize \in [Channels -> [Parts -> 0 .. MaxSize]]
        /\ d2h \in [Channels -> [Parts -> BOOLEAN]]
        /\ sending \in [Channels -> [Parts -> BOOLEAN]]
        /\ net \in [Channels -> [Parts -> Seq(Message)]]
    BY <1>1, ExchangeAssumption DEF Init
  <2>7. /\ step \in [Ranks -> 0 .. MaxStep]
        /\ due \in [Channels -> [1 .. MaxStep -> Nat]]
        /\ stack \in [Ranks -> Seq({"send", "recv"} \X Channels)]
        /\ guard \in [Channels -> 0 .. MaxGuard]
    BY ExchangeAssumption DEF Init
  <2> QED
    BY <2>2, <2>5, <2>6, <2>7 DEF TypeOK, Inbox, SendType, RecvType, Message
<1> SUFFICES ASSUME NEW c \in Channels PROVE ChannelOK(c)
  BY <1>2 DEF Inv
<1>3. /\ step[Src[c]] = 0 /\ step[Dst[c]] = 0 /\ guard[c] = 0
      /\ send[c].pc = "Finished" /\ ~send[c].bash
      /\ dev[c] = NoData
      /\ recv[c].pc = "Finished" /\ ~recv[c].kernel
  BY ExchangeAssumption DEF Init
<1>4. \A p \in Parts :
        /\ net[c][p] = <<>> /\ ~d2h[c][p] /\ sending[c][p] = FALSE
        /\ inbox[c][p].st = "none" /\ inbox[c][p].data = NoData /\ inbox[c][p].size = 0
  BY DEF Init
<1>5. SenderAt(send[c], step[Src[c]], dev[c], guard[c])
  BY <1>1, <1>3, ExchangeAssumption DEF SenderAt
<1>6. Inserting(c)
  BY <1>3 DEF Inserting
<1>7. \A p \in Parts : Lag(c, p) = 0 /\ Ahead(c, p) = 0
  BY <1>3, <1>4 DEF Lag, Ahead, Unsent, Arrived
<1>8. Len(<<>>) = 0 /\ At(NoData, <<>>, 0) = NoData
  BY DEF At
<1>9. \A p \in Parts : PartOK(c, p)
  <2> SUFFICES ASSUME NEW p \in Parts PROVE PartOK(c, p)
    OBVIOUS
  <2>1. CopyAt(c, p) /\ ReceiverAt(recv[c], step[Dst[c]], inbox[c][p])
    BY <1>1, <1>3, <1>4, ExchangeAssumption DEF CopyAt, ReceiverAt
  <2>2. Chain(NoData, <<>>, NoData, 0)
    BY <1>1, <1>8 DEF Chain
  <2>3. Carried(<<>>, FALSE, host[c][p])
    BY <1>8 DEF Carried
  <2> QED
    BY <1>3, <1>4, <1>7, <2>1, <2>2, <2>3 DEF PartOK
<1>10. PartsAgree(c)
  <2>1. Aligned(NoData, <<>>, 0, NoData, <<>>, 0)
    BY <1>8 DEF Aligned
  <2> QED
    BY <1>4, <1>7, <2>1 DEF PartsAgree, Parts
<1>11. Ledger(c)
  <2>1. Books(due[c], Ins(c), 0, NoData, <<>>)
    BY <1>1, <1>8 DEF Books
  <2>2. Balanced(due[c], Ins(c), 0, 0, 0, NoData)
    BY DEF Balanced
  <2> QED
    BY <1>3, <1>4, <2>1, <2>2 DEF Ledger, Parts
<1> QED
  BY <1>5, <1>6, <1>9, <1>10, <1>11 DEF ChannelOK

(* Every step keeps the invariant.                                          *)
LEMMA NextKeeps == Inv /\ [Next]_vars => Inv'
<1> SUFFICES ASSUME Inv, [Next]_vars PROVE Inv'
  OBVIOUS
<1>1. ASSUME NEW r \in Ranks, StartStep(r) PROVE Inv'
  BY <1>1, StartStepKeeps
<1>2. ASSUME NEW c \in Channels, SenderStep(c) PROVE Inv'
  BY <1>2, FirstSendRoundKeeps, BashParticlesKeeps, BashDoneKeeps, InitSendKeeps,
     AsyncSendFramesKeeps, AsyncSendIndexKeeps, NextSendRoundKeeps, SendEndKeeps DEF SenderStep
<1>3. ASSUME NEW c \in Channels, ReceiverStep(c) PROVE Inv'
  BY <1>3, InitInsertKeeps, InsertParticlesKeeps, InsertDoneKeeps, NextReceiveRoundKeeps
     DEF ReceiverStep
<1>4. ASSUME NEW c \in Channels, NEW p \in Parts, PartStep(c, p) PROVE Inv'
  BY <1>4, StartMPISendKeeps, TransferKeeps, CopyReceivedKeeps DEF PartStep
<1>5. CASE UNCHANGED vars
  <2>1. TypeOK'
    BY <1>5 DEF Inv, TypeOK, vars
  <2>2. ASSUME NEW c \in Channels PROVE ChannelOK(c)'
    BY <1>5, Unmoved DEF Inv, vars
  <2> QED
    BY <2>1, <2>2 DEF Inv
<1> QED
  BY <1>1, <1>2, <1>3, <1>4, <1>5 DEF Next, Terminated

(* The inductive invariant holds in every reachable state.                  *)
THEOREM ExchangeInductive == Spec => []Inv
<1>1. Init => Inv
  BY InitInv
<1>2. Inv /\ [Next]_vars => Inv'
  BY NextKeeps
<1> QED
  BY <1>1, <1>2, PTL DEF Spec

(* Every variable keeps its type; in particular no more particles are       *)
(* inserted than were owed.                                                 *)
THEOREM ExchangeTypes == Spec => []TypeOK
<1>1. Inv => TypeOK
  BY DEF Inv
<1> QED
  BY <1>1, ExchangeInductive, PTL

(* Nothing writes a buffer that something else still reads, on either side  *)
(* of any channel.                                                          *)
THEOREM BuffersAreExclusive == Spec => []BuffersExclusive
<1>1. Inv => BuffersExclusive
  <2> SUFFICES ASSUME Inv, NEW c \in Channels, NEW p \in Parts
               PROVE  /\ send[c].bash => ~d2h[c][p]
                      /\ d2h[c][p] => ~sending[c][p]
                      /\ recv[c].kernel => inbox[c][p].st = "none"
    BY DEF BuffersExclusive
  <2>1. /\ SenderAt(send[c], step[Src[c]], dev[c], guard[c])
        /\ CopyAt(c, p) /\ ReceiverAt(recv[c], step[Dst[c]], inbox[c][p]) /\ Inserting(c)
    BY ChannelFacts
  <2> QED
    BY <2>1 DEF SenderAt, CopyAt, ReceiverAt, Inserting
<1> QED
  BY <1>1, ExchangeInductive, PTL

(* What is inserted is one round of the sender, of the receiver's step,     *)
(* with the size that belongs to it.                                        *)
THEOREM MessagesAreIntact == Spec => []MessageIntact
<1>1. Inv => MessageIntact
  <2> SUFFICES ASSUME Inv, NEW c \in Channels, recv[c].pc \in {"InitInsert", "WaitForInsert"}
               PROVE  /\ inbox[c]["frames"].data = inbox[c]["index"].data
                      /\ inbox[c]["frames"].data.step = step[Dst[c]]
                      /\ \A p \in Parts : inbox[c][p].size = inbox[c][p].data.n
                      /\ recv[c].lastSize = inbox[c]["frames"].data.n
    BY DEF MessageIntact
  <2>1. /\ \A p \in Parts : ReceiverAt(recv[c], step[Dst[c]], inbox[c][p])
        /\ Inserting(c)
    BY ChannelFacts
  <2>2. Ahead(c, "frames") = Ahead(c, "index")
    BY DEF Ahead, Arrived
  <2>3. inbox[c]["frames"].data = inbox[c]["index"].data
    BY <2>2, SameData
  <2>4. \A p \in Parts : inbox[c][p].size = inbox[c][p].data.n /\ inbox[c][p].data.step = step[Dst[c]]
    BY <2>1 DEF ReceiverAt
  <2>5. recv[c].lastSize = inbox[c]["frames"].size
    BY <2>1 DEF Inserting
  <2> QED
    BY <2>3, <2>4, <2>5 DEF Parts
<1> QED
  BY <1>1, ExchangeInductive, PTL

(* When both ranks have ended a step, nothing of it is left in the guard or *)
(* under way.                                                               *)
THEOREM RoundsAreAgreed == Spec => []RoundsAgree
<1>1. Inv => RoundsAgree
  <2> SUFFICES ASSUME Inv, NEW c \in Channels, step[Src[c]] = step[Dst[c]],
                      send[c].pc = "Finished", recv[c].pc = "Finished", NEW p \in Parts
               PROVE  guard[c] = 0 /\ net[c][p] = <<>> /\ ~sending[c][p]
    <3>1. \E p \in Parts : TRUE
      BY DEF Parts
    <3> QED
      BY <3>1 DEF RoundsAgree
  <2> DEFINE S == step[Src[c]]
             got == inbox[c][p].data
             q == net[c][p]
  <2>1. /\ SenderAt(send[c], S, dev[c], guard[c])
        /\ ReceiverAt(recv[c], S, inbox[c][p])
        /\ dev[c] \in Data
        /\ MaxSize \in Int
    BY ChannelFacts
  <2>2. /\ got \in Data /\ q \in Seq(Message)
        /\ Chain(got, q, dev[c], Lag(c, p))
        /\ Carried(q, sending[c][p], host[c][p])
    BY StreamFacts
  <2>3. guard[c] = 0 /\ dev[c].step = S /\ got.step = S /\ got.n < MaxSize
    BY <2>1 DEF SenderAt, ReceiverAt
  <2>4. q = <<>>
    <3> SUFFICES ASSUME q # <<>> PROVE FALSE
      OBVIOUS
    <3>1. Len(q) \in Nat /\ 1 <= Len(q)
      BY <2>2, AtTail
    <3>2. 1 \in 1 .. Len(q) /\ 1 \in 0 .. Len(q)
      BY <3>1
    <3>3. Follows(At(got, q, 1 - 1), At(got, q, 1)) /\ At(got, q, 1).step <= dev[c].step
      BY <2>2, <3>2 DEF Chain
    <3>4. At(got, q, 1 - 1) = got
      BY DEF At
    <3>5. got.n # MaxSize /\ got.step \in Int
      BY <2>1, <2>2, <2>3, DataType
    <3>6. At(got, q, 1).step = S + 1
      BY <2>3, <3>3, <3>4, <3>5 DEF Follows
    <3> QED
      BY <2>3, <3>3, <3>5, <3>6
  <2>5. ~sending[c][p]
    BY <2>2, <2>4 DEF Carried
  <2> QED
    BY <2>3, <2>4, <2>5
<1> QED
  BY <1>1, ExchangeInductive, PTL

-----------------------------------------------------------------------------
(* What the send buffer holds is of a step that its rank has begun.         *)
LEMMA SentInTime ==
  ASSUME Inv, NEW c \in Channels
  PROVE  dev[c].step <= step[Src[c]]
<1>1. /\ SenderAt(send[c], step[Src[c]], dev[c], guard[c])
      /\ dev[c] \in Data /\ send[c] \in SendType
      /\ step[Src[c]] \in Int
  BY ChannelFacts
<1>2. dev[c].step \in Int
  BY <1>1, DataType
<1>3. CASE send[c].pc = "Constructor"
  <2>1. dev[c].step + 1 = step[Src[c]]
    BY <1>1, <1>3 DEF SenderAt
  <2> QED
    BY <1>1, <1>2, <2>1
<1>4. CASE send[c].pc = "Init" \/ send[c].bash
  <2>1. \E k : Follows(dev[c], [step |-> step[Src[c]], round |-> k])
    BY <1>1, <1>4 DEF SenderAt
  <2>2. step[Src[c]] = dev[c].step \/ step[Src[c]] = dev[c].step + 1
    BY <2>1 DEF Follows
  <2> QED
    BY <1>1, <1>2, <2>2
<1>5. CASE send[c].pc \notin {"Constructor", "Init"} /\ ~send[c].bash
  <2>1. dev[c].step = step[Src[c]]
    BY <1>1, <1>5 DEF SenderAt, SendType
  <2> QED
    BY <1>2, <2>1
<1> QED
  BY <1>3, <1>4, <1>5

(* A receiver that has finished a step has got everything that was owed to  *)
(* it in that step, from a sender that has begun the step.                  *)
LEMMA FinishedGotAll ==
  ASSUME Inv, NEW c \in Channels, recv[c].pc = "Finished", step[Dst[c]] > 0
  PROVE  step[Src[c]] >= step[Dst[c]] /\ due[c][step[Dst[c]]] = 0
<1> DEFINE R == step[Dst[c]]
           d == inbox[c]["index"].data
           q == net[c]["index"]
<1>1. /\ Inserting(c)
      /\ ReceiverAt(recv[c], R, inbox[c]["index"])
      /\ d \in Data /\ q \in Seq(Message)
      /\ Chain(d, q, dev[c], Lag(c, "index"))
      /\ Books(due[c], Ins(c), R, d, q)
      /\ step[Src[c]] \in Int /\ dev[c] \in Data
  BY ChannelFacts, StreamFacts DEF Parts
<1>2. R \in 0 .. MaxStep /\ due[c] \in [1 .. MaxStep -> Nat] /\ MaxStep \in Nat
  BY ChannelTypes, ExchangeAssumption DEF Inv
<1>3. d.step = R /\ d.n < MaxSize /\ ~recv[c].kernel
  BY <1>1 DEF Inserting, ReceiverAt
<1>4. R \in 1 .. MaxStep /\ due[c][R] \in Nat
  <2>1. R \in 1 .. MaxStep
    BY <1>2
  <2> QED
    BY <1>2, <2>1
<1>5. At(d, q, 0) = d /\ 0 \in 0 .. Len(q)
  BY <1>1 DEF At
<1>6. step[Src[c]] >= R
  <2>1. d.step <= dev[c].step
    BY <1>1, <1>5 DEF Chain
  <2>2. dev[c].step <= step[Src[c]] /\ dev[c].step \in Int
    BY <1>1, SentInTime, DataType
  <2> QED
    BY <1>1, <1>3, <1>4, <2>1, <2>2
<1>7. Ins(c) = Sum(d)
  BY <1>3 DEF Ins, Inserted
<1>8. Sum(d) = Owed(due[c], Ins(c), R, R)
  <2>1. d.step >= 1 /\ d.step >= R
    BY <1>3, <1>4
  <2> QED
    BY <1>1, <1>3, <1>5, <2>1 DEF Books
<1>9. Sum(d) = due[c][R] + Sum(d)
  BY <1>7, <1>8 DEF Owed
<1>10. Sum(d) \in Int
  BY <1>1, SumType
<1>11. due[c][R] = 0
  <2>1. PICK s \in Int, k \in Nat : s = Sum(d) /\ k = due[c][R]
    BY <1>4, <1>10
  <2>2. s = k + s
    BY <1>9, <2>1
  <2>3. k = 0
    BY <2>2
  <2> QED
    BY <2>1, <2>3
<1> QED
  BY <1>6, <1>11

(* A step of the tasks is a step of the abstract delivery, or none.         *)
LEMMA StepOfDelivery ==
  Inv /\ [Next]_vars => [Abstract!AbsNext]_(Abstract!absVars)
<1> SUFFICES ASSUME Inv, [Next]_vars
             PROVE  Abstract!AbsNext \/ UNCHANGED <<step, due>>
  BY DEF Abstract!absVars
<1>1. ASSUME NEW r \in Ranks, StartStep(r)
      PROVE  Abstract!AbsStartStep(r)
  <2>1. Abstract!Outgoing(r) = Outgoing(r) /\ Abstract!Incoming(r) = Incoming(r)
    BY DEF Abstract!Outgoing, Abstract!Incoming, Outgoing, Incoming
  <2>2. ASSUME NEW c \in Incoming(r), step[r] > 0
        PROVE  step[Src[c]] >= step[r] /\ due[c][step[r]] = 0
    <3>1. c \in Channels /\ Dst[c] = r
      BY DEF Incoming
    <3>2. recv[c].pc = "Finished"
      BY <1>1 DEF StartStep
    <3> QED
      BY <2>2, <3>1, <3>2, FinishedGotAll
  <2>3. PICK owed \in [Outgoing(r) -> 0 .. MaxGuard] :
          due' = [c \in Channels |->
                    IF c \in Outgoing(r) THEN [due[c] EXCEPT ![step[r] + 1] = owed[c]] ELSE due[c]]
    BY <1>1, Zenon DEF StartStep
  <2>4. step[r] < MaxStep /\ step' = [step EXCEPT ![r] = @ + 1]
    BY <1>1, Zenon DEF StartStep
  <2> QED
    BY <2>1, <2>2, <2>3, <2>4, Zenon DEF Abstract!AbsStartStep
<1>2. ASSUME NEW c \in Channels, InsertDone(c)
      PROVE  Abstract!AbsDeliver(c)
  <2>1. /\ step[Dst[c]] > 0
        /\ inbox[c]["index"].size \in 1 .. due[c][step[Dst[c]]]
    <3>1. recv[c].kernel
      BY <1>2 DEF InsertDone
    <3> QED
      BY <3>1, InsertsWhatIsDue
  <2>2. /\ due' = [due EXCEPT ![c][step[Dst[c]]] = @ - inbox[c]["index"].size]
        /\ UNCHANGED step
    BY <1>2, Zenon DEF InsertDone
  <2> QED
    BY <2>1, <2>2, Zenon DEF Abstract!AbsDeliver
<1>3. ASSUME NEW c \in Channels, SenderStep(c)
      PROVE  UNCHANGED <<step, due>>
  BY <1>3 DEF SenderStep, FirstSendRound, BashParticles, BashDone, InitSend, AsyncSendFrames,
     AsyncSendIndex, NextSendRound, SendEnd
<1>4. ASSUME NEW c \in Channels, InitInsert(c) \/ InsertParticles(c) \/ NextReceiveRound(c)
      PROVE  UNCHANGED <<step, due>>
  BY <1>4 DEF InitInsert, InsertParticles, NextReceiveRound
<1>5. ASSUME NEW c \in Channels, NEW p \in Parts, PartStep(c, p)
      PROVE  UNCHANGED <<step, due>>
  BY <1>5 DEF PartStep, StartMPISend, Transfer, CopyReceived
<1>6. CASE Terminated \/ UNCHANGED vars
  BY <1>6 DEF Terminated, vars
<1> QED
  BY <1>1, <1>2, <1>3, <1>4, <1>5, <1>6 DEF Next, ReceiverStep, Abstract!AbsNext

(* The tasks implement the promise of GuardDelivery: no rank leaves a step  *)
(* before every particle owed to it in that step has been inserted, and     *)
(* none is inserted twice, or in another step than the one it belongs to.   *)
THEOREM ExchangeDelivers == Spec => Delivers
<1>1. Init => Abstract!AbsInit
  BY DEF Init, Abstract!AbsInit
<1> QED
  BY <1>1, StepOfDelivery, ExchangeInductive, PTL DEF Spec, Delivers, Abstract!AbsSpec
=============================================================================
