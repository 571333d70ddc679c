------------------------ MODULE FieldExchangeProofs ------------------------
(***************************************************************************)
(* Proofs about FieldExchange, for any number of ranks and steps and any   *)
(* way of MPI to transfer a message.                                       *)
(*                                                                         *)
(* A channel of a field is a queue.  How many messages a rank has sent and *)
(* how many receives it has posted is a function of its place in the       *)
(* program; the k-th message of a field carries a version that depends on  *)
(* k only.  What is in a guard follows from counting.                      *)
(***************************************************************************)
EXTENDS FieldExchange, TLAPS

(* Quotient and remainder are determined by their bounds.                   *)
LEMMA DivUnique ==
  ASSUME NEW q \in Int, NEW r \in Int, NEW b \in Nat \ {0}, 0 <= r, r < b
  PROVE  (q * b + r) \div b = q /\ (q * b + r) % b = r
OBVIOUS

(* The place of the kernel that adds the current: 13 with the filter, 12    *)
(* without.  What depends on the filter is a function of this number.       *)
Adds == IF filtered THEN 13 ELSE 12

(* The place of the wait for the exchange of the current.                   *)
WaitJ(o) == 23 - o

One(b) == IF b THEN 1 ELSE 0

(* Where field f is exchanged, and until where the exchange may go on.      *)
AtComm(f, o, p) ==
  \/ f = "B" /\ (p = 3 \/ p = o + 5)
  \/ f = "E" /\ p = o + 1
  \/ f = "Jrecv" /\ o = 13 /\ p = 11
  \/ f = "J" /\ p = 9

Open(f, o, p) ==
  \/ f = "B" /\ (p \in 3 .. 5 \/ p \in o + 5 .. o + 6)
  \/ f = "E" /\ p \in o + 1 .. o + 3
  \/ f = "Jrecv" /\ o = 13 /\ p \in 11 .. 12
  \/ f = "J" /\ p \in 9 .. WaitJ(o)

(* The exchanges of f that a rank has completed at place p of step s.       *)
Full(f, o, s, p) ==
  IF f = "B" THEN 2 * s + One(p > 3) + One(p > o + 5)
  ELSE IF f = "E" THEN s + One(p > o + 1)
  ELSE IF f = "Jrecv" THEN IF o = 13 THEN s + One(p > 11) ELSE 0
  ELSE s + One(p > 9)

(* The part of an exchange in which a channel of direction d is used.       *)
PostAt(f, d) == IF d = "left" THEN 1 ELSE IF f = "J" THEN 2 ELSE 3
SendAt(d) == IF d = "left" THEN 2 ELSE 4

(* The receives that a rank has posted for a channel of direction d, at     *)
(* part e of an exchange.                                                   *)
Posted(f, o, s, p, e, d) == Full(f, o, s, p) + One(AtComm(f, o, p) /\ e > PostAt(f, d))

(* The copies it has begun.  A current is sent by its task, in state t.     *)
Sent(f, o, s, p, e, d, t) ==
  IF f = "J" THEN s + One(p > 9 /\ t \in {"WaitForSendEnd", "Finished"})
  ELSE Full(f, o, s, p) + One(AtComm(f, o, p) /\ e > SendAt(d))

(* The version that the k-th message of a field carries.                    *)
Version(f, k) == IF f = "E" THEN 2 * k ELSE IF f = "Jrecv" THEN 3 * k ELSE k

-----------------------------------------------------------------------------
(* The messages of a channel: a sent, q posted.                             *)
Pipe(f, a, q, copies, sends, buffer, msgs, ib, g) ==
  LET t == q - One(ib.st = "posted") IN
  /\ a - One(copies) - Len(msgs) = t
  /\ \A i \in 1 .. Len(msgs) :
       /\ msgs[i].data = Version(f, t + i)
       /\ msgs[i].protocol # "eager" => i = Len(msgs) /\ sends /\ buffer = msgs[i].data
  /\ copies => ~sends
  /\ ib.st = "copying" => ib.data = Version(f, q)
  /\ ib.st = "none" => (IF f = "J" THEN ib.data ELSE g) = Version(f, q)

SentOn(c, f) == Sent(f, Adds, step[c[1]], pc[c[1]], exchange[c[1]], c[2], sendJ[c])
PostedOn(c, f) == Posted(f, Adds, step[Dst(c)], pc[Dst(c)], exchange[Dst(c)], c[2])

PipeOK(c, f) ==
  Pipe(f, SentOn(c, f), PostedOn(c, f), d2h[c][f], sending[c][f], host[c][f], net[c][f],
       inbox[c][f], guard[c][f])

(* Copies are under way in an exchange only.                                *)
CopyOut(c, f) ==
  d2h[c][f] =>
    /\ Open(f, Adds, pc[c[1]])
    /\ Outbox(c, f) = Version(f, SentOn(c, f))
    /\ f = "J" => sendJ[c] = "WaitForSendEnd"

CopyIn(c, f) ==
  inbox[c][f].st # "none" =>
    /\ Open(f, Adds, pc[Dst(c)])
    /\ f = "J" => insertJ[Dst(c)].pc = "WaitForReceived"

CopiesOK(c, f) == CopyOut(c, f) /\ CopyIn(c, f)

(* TaskFieldSendExchange and its buffer.                                    *)
SendTaskOK(c) ==
  /\ sendJ[c] # "Finished" => pc[c[1]] \in 10 .. WaitJ(Adds)
  /\ sendJ[c] \in {"Bashed", "InitSend", "WaitForSendEnd"} => dev[c] = step[c[1]] + 1

-----------------------------------------------------------------------------
(* The task that inserts the current exists.                                *)
InsertOpen(o, p, e) == (p = 9 /\ e > 1) \/ p \in 10 .. WaitJ(o)

(* The exchanges of which the current has been inserted.                    *)
Inserted(o, p, e, n) == IF InsertOpen(o, p, e) THEN n - 1 ELSE IF p > WaitJ(o) THEN 2 ELSE 0

PlaceOK(o, s, p, e) ==
  /\ p \in 1 .. o + 7
  /\ e \in 1 .. 4
  /\ (\A f \in Fields : ~AtComm(f, o, p)) => e = 1
  /\ p = 9 => e <= 3

BorderOK(o, s, p, e, n, b) ==
  /\ b["B"] = 2 * s + One(p > 2) + One(p > o + 4)
  /\ b["E"] = 2 * s + One(p > 6) + One(p > o)
  /\ b["Jrecv"] = 3 * s + One(p > 8) + Inserted(o, p, e, n)

InsertTaskOK(o, p, e, t) ==
  /\ ~InsertOpen(o, p, e) => t.pc = "Finished"
  /\ t.pc = "WaitForReceived" => t.next = 1
  /\ InsertOpen(o, p, e) /\ t.pc = "Finished" => t.next = 3
  /\ p = 9 /\ e = 2 => t.pc = "WaitForReceived"

(* What has been added from the channel of the i-th direction.              *)
AddedOK(o, s, p, e, n, i, x) ==
  p >= 8 => x = IF Inserted(o, p, e, n) >= i THEN <<s + 1>> ELSE <<>>

RankOK(r) ==
  /\ PlaceOK(Adds, step[r], pc[r], exchange[r])
  /\ BorderOK(Adds, step[r], pc[r], exchange[r], insertJ[r].next, border[r])
  /\ pc[r] \in 9 .. WaitJ(Adds) => deposited[r] = step[r] + 1
  /\ InsertTaskOK(Adds, pc[r], exchange[r], insertJ[r])
  /\ \A i \in 1 .. 2 :
       AddedOK(Adds, step[r], pc[r], exchange[r], insertJ[r].next, i,
               added[r][ChannelIn(r, Directions[i])])

-----------------------------------------------------------------------------
Messages == [protocol : {"eager", "rendezvous"}, data : Int]

Types ==
  /\ filtered \in BOOLEAN
  /\ step \in [Ranks -> Nat]
  /\ pc \in [Ranks -> Nat]
  /\ exchange \in [Ranks -> Nat]
  /\ border \in [Ranks -> [Fields -> Int]]
  /\ guard \in [Channels -> [Fields -> Int]]
  /\ deposited \in [Ranks -> Int]
  /\ DOMAIN added = Ranks
  /\ \A r \in Ranks : added[r] \in [Incoming(r) -> Seq(Int)]
  /\ dev \in [Channels -> Int]
  /\ d2h \in [Channels -> [Fields -> BOOLEAN]]
  /\ host \in [Channels -> [Fields -> Int]]
  /\ sending \in [Channels -> [Fields -> BOOLEAN]]
  /\ net \in [Channels -> [Fields -> Seq(Messages)]]
  /\ inbox \in [Channels -> [Fields -> [st : {"none", "posted", "copying"}, data : Int]]]
  /\ sendJ \in [Channels -> {"WaitForBash", "Bashed", "InitSend", "WaitForSendEnd", "Finished"}]
  /\ insertJ \in [Ranks -> [pc : {"Finished", "WaitForReceived", "WaitInsertFinished"},
                            next : 1 .. 3]]

Inv ==
  /\ Types
  /\ \A r \in Ranks : RankOK(r)
  /\ \A c \in Channels : SendTaskOK(c)
  /\ \A c \in Channels, f \in Fields : PipeOK(c, f) /\ CopiesOK(c, f)

-----------------------------------------------------------------------------
(* The entries of five sequences after one another.                         *)
Joined(x, a, b, c, d, e, m) ==
  /\ Len(x) = 15 + m
  /\ x[1] = a[1]
  /\ \A i \in 1 .. 5 : x[1 + i] = b[i]
  /\ \A i \in 1 .. 3 : x[6 + i] = c[i]
  /\ \A i \in 1 .. m : x[9 + i] = d[i]
  /\ \A i \in 1 .. 6 : x[9 + m + i] = e[i]

(* The entries of two.                                                      *)
Cat(x, a, b, m, n) ==
  /\ Len(x) = m + n
  /\ \A i \in 1 .. m : x[i] = a[i]
  /\ \A i \in 1 .. n : x[m + i] = b[i]

(* Concatenation, by the number of entries.                                 *)
LEMMA CatAt ==
  ASSUME NEW S, NEW a \in Seq(S), NEW b \in Seq(S), NEW m \in Nat, NEW n \in Nat,
         Len(a) = m, Len(b) = n
  PROVE  \E x \in Seq(S) : x = a \o b /\ Cat(x, a, b, m, n)
<1>1. a \o b \in Seq(S) /\ Cat(a \o b, a, b, m, n)
  BY DEF Cat
<1> QED
  BY <1>1

(* Four concatenations make five parts.                                     *)
LEMMA CatsJoin ==
  ASSUME NEW a, NEW b, NEW c, NEW d, NEW e, NEW m \in Nat, NEW y, NEW z, NEW w, NEW v,
         Cat(y, a, b, 1, 5), Cat(z, c, d, 3, m), Cat(w, y, z, 6, 3 + m), Cat(v, w, e, 9 + m, 6)
  PROVE  Joined(v, a, b, c, d, e, m)
<1>1. /\ \A i \in 1 .. 1 : y[i] = a[i]
      /\ \A i \in 1 .. 5 : y[1 + i] = b[i]
      /\ \A i \in 1 .. 3 : z[i] = c[i]
      /\ \A i \in 1 .. m : z[3 + i] = d[i]
      /\ \A i \in 1 .. 6 : w[i] = y[i]
      /\ \A i \in 1 .. 3 + m : w[6 + i] = z[i]
      /\ \A i \in 1 .. 9 + m : v[i] = w[i]
      /\ \A i \in 1 .. 6 : v[9 + m + i] = e[i]
      /\ Len(v) = (9 + m) + 6
  BY Zenon DEF Cat
<1>2. v[1] = a[1]
  BY <1>1
<1>3. \A i \in 1 .. 5 : v[1 + i] = b[i]
  BY <1>1
<1>4. \A i \in 1 .. 3 : v[6 + i] = c[i]
  BY <1>1
<1>5. \A i \in 1 .. m : v[9 + i] = d[i]
  <2> SUFFICES ASSUME NEW i \in 1 .. m PROVE v[9 + i] = d[i]
    OBVIOUS
  <2>1. 3 + i \in 1 .. 3 + m /\ 9 + i \in 1 .. 9 + m /\ 6 + (3 + i) = 9 + i
    OBVIOUS
  <2>2. w[6 + (3 + i)] = z[3 + i] /\ v[9 + i] = w[9 + i] /\ z[3 + i] = d[i]
    BY <1>1, <2>1, Zenon
  <2> QED
    BY <2>1, <2>2, Zenon
<1>6. Len(v) = 15 + m
  BY <1>1
<1> QED
  BY <1>1, <1>2, <1>3, <1>4, <1>5, <1>6, Zenon DEF Joined

(* Joined says what the concatenation of the five is.                       *)
LEMMA JoinedParts ==
  ASSUME NEW S, NEW a \in Seq(S), NEW b \in Seq(S), NEW c \in Seq(S), NEW d \in Seq(S),
         NEW e \in Seq(S), NEW m \in Nat,
         Len(a) = 1, Len(b) = 5, Len(c) = 3, Len(d) = m, Len(e) = 6,
         NEW x, x = ((a \o b) \o (c \o d)) \o e
  PROVE  Joined(x, a, b, c, d, e, m)
<1>0. 1 \in Nat /\ 5 \in Nat /\ 3 \in Nat /\ 6 \in Nat /\ 3 + m \in Nat /\ 9 + m \in Nat
  OBVIOUS
<1>1. PICK y \in Seq(S) : y = a \o b /\ Cat(y, a, b, 1, 5)
  BY <1>0, CatAt, Zenon
<1>2. PICK z \in Seq(S) : z = c \o d /\ Cat(z, c, d, 3, m)
  BY <1>0, CatAt, Zenon
<1>3. Len(y) = 6 /\ Len(z) = 3 + m
  BY <1>1, <1>2 DEF Cat
<1>4. PICK w \in Seq(S) : w = y \o z /\ Cat(w, y, z, 6, 3 + m)
  BY <1>0, <1>3, CatAt, Zenon
<1>5. Len(w) = 9 + m
  BY <1>4 DEF Cat
<1>6. PICK v \in Seq(S) : v = w \o e /\ Cat(v, w, e, 9 + m, 6)
  BY <1>0, <1>5, CatAt, Zenon
<1>7. x = v
  BY <1>1, <1>2, <1>4, <1>6, Zenon
<1> QED
  BY <1>1, <1>2, <1>4, <1>6, <1>7, CatsJoin, Zenon

(* The program of a step with the filter.                                   *)
LEMMA ProgramFiltered ==
  LET P == Program[TRUE] IN
  /\ Len(P) = 19
  /\ P[1] = Kernel({"E", "B"}, {}) /\ P[2] = Kernel({"E"}, {"B"}) /\ P[3] = Comm("B")
  /\ P[4] = Core /\ P[5] = Wait("B") /\ P[6] = Kernel({"B"}, {"E"})
  /\ P[7] = [op |-> "clear"] /\ P[8] = [op |-> "computeCurrent"] /\ P[9] = [op |-> "commJ"]
  /\ P[10] = Wait("J") /\ P[11] = Comm("Jrecv") /\ P[12] = Wait("Jrecv")
  /\ P[13] = Kernel({"Jrecv"}, {"E"})
  /\ P[14] = Comm("E") /\ P[15] = Core /\ P[16] = Wait("E") /\ P[17] = Kernel({"E"}, {"B"})
  /\ P[18] = Comm("B") /\ P[19] = Wait("B")
<1> DEFINE a == <<Kernel({"E", "B"}, {})>>
           b == update_beforeCurrent
           c == <<[op |-> "clear"], [op |-> "computeCurrent"], [op |-> "commJ"]>>
           d == <<Wait("J"), Comm("Jrecv"), Wait("Jrecv"), Kernel({"Jrecv"}, {"E"})>>
           e == update_afterCurrent
           S == UNION {{a[i] : i \in 1 .. 1}, {b[i] : i \in 1 .. 5}, {c[i] : i \in 1 .. 3},
                       {d[i] : i \in 1 .. 4}, {e[i] : i \in 1 .. 6}}
<1>1. Program[TRUE] = ((a \o b) \o (c \o d)) \o e
  BY DEF Program, current
<1>2. a \in Seq(S) /\ Len(a) = 1
  OBVIOUS
<1>3. b \in Seq(S) /\ Len(b) = 5
  BY DEF update_beforeCurrent
<1>4. c \in Seq(S) /\ Len(c) = 3
  OBVIOUS
<1>5. d \in Seq(S) /\ Len(d) = 4
  OBVIOUS
<1>6. e \in Seq(S) /\ Len(e) = 6
  BY DEF update_afterCurrent
<1>7. PICK x, a1, b1, c1, d1, e1, S1 :
         x = Program[TRUE] /\ a1 = a /\ b1 = b /\ c1 = c /\ d1 = d /\ e1 = e /\ S1 = S
  OBVIOUS
<1>8. /\ a1 \in Seq(S1) /\ b1 \in Seq(S1) /\ c1 \in Seq(S1) /\ d1 \in Seq(S1) /\ e1 \in Seq(S1)
      /\ Len(a1) = 1 /\ Len(b1) = 5 /\ Len(c1) = 3 /\ Len(d1) = 4 /\ Len(e1) = 6 /\ 4 \in Nat
      /\ x = ((a1 \o b1) \o (c1 \o d1)) \o e1
  <2> HIDE DEF a, b, c, d, e, S
  <2> QED
    BY <1>1, <1>2, <1>3, <1>4, <1>5, <1>6, <1>7
<1>9. Joined(x, a1, b1, c1, d1, e1, 4)
  BY <1>8, JoinedParts
<1>10. /\ a1[1] = Kernel({"E", "B"}, {})
       /\ \A i \in 1 .. 5 : b1[i] = b[i]
       /\ \A i \in 1 .. 3 : c1[i] = c[i]
       /\ \A i \in 1 .. 4 : d1[i] = d[i]
       /\ \A i \in 1 .. 6 : e1[i] = e[i]
  BY <1>7
<1>11. /\ b[1] = Kernel({"E"}, {"B"}) /\ b[2] = Comm("B") /\ b[3] = Core /\ b[4] = Wait("B")
       /\ b[5] = Kernel({"B"}, {"E"})
  BY DEF update_beforeCurrent
<1>12. /\ e[1] = Comm("E") /\ e[2] = Core /\ e[3] = Wait("E") /\ e[4] = Kernel({"E"}, {"B"})
       /\ e[5] = Comm("B") /\ e[6] = Wait("B")
  BY DEF update_afterCurrent
<1>13. Len(x) = 15 + 4 /\ x[1] = a1[1] /\ x[2] = b[1] /\ x[3] = b[2] /\ x[4] = b[3] /\ x[5] = b[4] /\ x[6] = b[5]
  BY <1>9, <1>10 DEF Joined
<1>14. x[7] = c[1] /\ x[8] = c[2] /\ x[9] = c[3] /\ x[10] = d[1] /\ x[11] = d[2] /\ x[12] = d[3] /\ x[13] = d[4]
  BY <1>9, <1>10 DEF Joined
<1>15. x[14] = e[1] /\ x[15] = e[2] /\ x[16] = e[3] /\ x[17] = e[4] /\ x[18] = e[5] /\ x[19] = e[6]
  BY <1>9, <1>10 DEF Joined
<1> QED
  BY <1>7, <1>10, <1>11, <1>12, <1>13, <1>14, <1>15

(* The program of a step without it.                                        *)
LEMMA ProgramUnfiltered ==
  LET P == Program[FALSE] IN
  /\ Len(P) = 18
  /\ P[1] = Kernel({"E", "B"}, {}) /\ P[2] = Kernel({"E"}, {"B"}) /\ P[3] = Comm("B")
  /\ P[4] = Core /\ P[5] = Wait("B") /\ P[6] = Kernel({"B"}, {"E"})
  /\ P[7] = [op |-> "clear"] /\ P[8] = [op |-> "computeCurrent"] /\ P[9] = [op |-> "commJ"]
  /\ P[10] = Core /\ P[11] = Wait("J") /\ P[12] = Kernel({}, {"E"})
  /\ P[13] = Comm("E") /\ P[14] = Core /\ P[15] = Wait("E") /\ P[16] = Kernel({"E"}, {"B"})
  /\ P[17] = Comm("B") /\ P[18] = Wait("B")
<1> DEFINE a == <<Kernel({"E", "B"}, {})>>
           b == update_beforeCurrent
           c == <<[op |-> "clear"], [op |-> "computeCurrent"], [op |-> "commJ"]>>
           d == <<Core, Wait("J"), Kernel({}, {"E"})>>
           e == update_afterCurrent
           S == UNION {{a[i] : i \in 1 .. 1}, {b[i] : i \in 1 .. 5}, {c[i] : i \in 1 .. 3},
                       {d[i] : i \in 1 .. 3}, {e[i] : i \in 1 .. 6}}
<1>1. Program[FALSE] = ((a \o b) \o (c \o d)) \o e
  BY DEF Program, current
<1>2. a \in Seq(S) /\ Len(a) = 1
  OBVIOUS
<1>3. b \in Seq(S) /\ Len(b) = 5
  BY DEF update_beforeCurrent
<1>4. c \in Seq(S) /\ Len(c) = 3
  OBVIOUS
<1>5. d \in Seq(S) /\ Len(d) = 3
  OBVIOUS
<1>6. e \in Seq(S) /\ Len(e) = 6
  BY DEF update_afterCurrent
<1>7. PICK x, a1, b1, c1, d1, e1, S1 :
         x = Program[FALSE] /\ a1 = a /\ b1 = b /\ c1 = c /\ d1 = d /\ e1 = e /\ S1 = S
  OBVIOUS
<1>8. /\ a1 \in Seq(S1) /\ b1 \in Seq(S1) /\ c1 \in Seq(S1) /\ d1 \in Seq(S1) /\ e1 \in Seq(S1)
      /\ Len(a1) = 1 /\ Len(b1) = 5 /\ Len(c1) = 3 /\ Len(d1) = 3 /\ Len(e1) = 6 /\ 3 \in Nat
      /\ x = ((a1 \o b1) \o (c1 \o d1)) \o e1
  <2> HIDE DEF a, b, c, d, e, S
  <2> QED
    BY <1>1, <1>2, <1>3, <1>4, <1>5, <1>6, <1>7
<1>9. Joined(x, a1, b1, c1, d1, e1, 3)
  BY <1>8, JoinedParts
<1>10. /\ a1[1] = Kernel({"E", "B"}, {})
       /\ \A i \in 1 .. 5 : b1[i] = b[i]
       /\ \A i \in 1 .. 3 : c1[i] = c[i]
       /\ \A i \in 1 .. 3 : d1[i] = d[i]
       /\ \A i \in 1 .. 6 : e1[i] = e[i]
  BY <1>7
<1>11. /\ b[1] = Kernel({"E"}, {"B"}) /\ b[2] = Comm("B") /\ b[3] = Core /\ b[4] = Wait("B")
       /\ b[5] = Kernel({"B"}, {"E"})
  BY DEF update_beforeCurrent
<1>12. /\ e[1] = Comm("E") /\ e[2] = Core /\ e[3] = Wait("E") /\ e[4] = Kernel({"E"}, {"B"})
       /\ e[5] = Comm("B") /\ e[6] = Wait("B")
  BY DEF update_afterCurrent
<1>13. Len(x) = 15 + 3 /\ x[1] = a1[1] /\ x[2] = b[1] /\ x[3] = b[2] /\ x[4] = b[3] /\ x[5] = b[4] /\ x[6] = b[5]
  BY <1>9, <1>10 DEF Joined
<1>14. x[7] = c[1] /\ x[8] = c[2] /\ x[9] = c[3] /\ x[10] = d[1] /\ x[11] = d[2] /\ x[12] = d[3]
  BY <1>9, <1>10 DEF Joined
<1>15. x[13] = e[1] /\ x[14] = e[2] /\ x[15] = e[3] /\ x[16] = e[4] /\ x[17] = e[5] /\ x[18] = e[6]
  BY <1>9, <1>10 DEF Joined
<1> QED
  BY <1>7, <1>10, <1>11, <1>12, <1>13, <1>14, <1>15

(* Where field f is waited for.                                             *)
AtWait(f, o, p) ==
  \/ f = "B" /\ (p = 5 \/ p = o + 6)
  \/ f = "E" /\ p = o + 3
  \/ f = "Jrecv" /\ o = 13 /\ p = 12
  \/ f = "J" /\ p = WaitJ(o)

(* What the operation at a place may be.                                    *)
OpAt(o, p, x) ==
  /\ x.op \in {"kernel", "comm", "core", "wait", "clear", "computeCurrent", "commJ"}
  /\ x.op = "kernel" =>
       \/ p = 1 /\ x.reads = {"E", "B"} /\ x.writes = {}
       \/ (p = 2 \/ p = o + 4) /\ x.reads = {"E"} /\ x.writes = {"B"}
       \/ p = 6 /\ x.reads = {"B"} /\ x.writes = {"E"}
       \/ p = o /\ x.reads = (IF o = 13 THEN {"Jrecv"} ELSE {}) /\ x.writes = {"E"}
  /\ x.op = "comm" => x.field \in {"E", "B", "Jrecv"} /\ AtComm(x.field, o, p)
  /\ x.op = "core" => p = 4 \/ p = o + 2 \/ (o = 12 /\ p = 10)
  /\ x.op = "wait" => x.field \in Fields /\ AtWait(x.field, o, p)
  /\ x.op = "clear" => p = 7
  /\ x.op = "computeCurrent" => p = 8
  /\ x.op = "commJ" <=> p = 9

(* The operation of each kind of entry.                                     *)
LEMMA KernelAt ==
  ASSUME NEW R, NEW W, NEW x, x = Kernel(R, W)
  PROVE  x.op = "kernel" /\ x.reads = R /\ x.writes = W
BY DEF Kernel

(* The other kinds.                                                         *)
LEMMA OtherAt ==
  ASSUME NEW f, NEW x
  PROVE  /\ x = Comm(f) => x.op = "comm" /\ x.field = f
         /\ x = Wait(f) => x.op = "wait" /\ x.field = f
         /\ x = Core => x.op = "core"
BY DEF Comm, Wait, Core

(* The program, by places.                                                  *)
LEMMA Places ==
  ASSUME filtered \in BOOLEAN
  PROVE  /\ Adds \in {12, 13}
         /\ Len(Program[filtered]) = Adds + 6
         /\ \A p \in 1 .. Adds + 6 : OpAt(Adds, p, Program[filtered][p])
<1>1. CASE filtered = TRUE
  <2> DEFINE P == Program[TRUE]
  <2>1. Adds = 13
    BY <1>1 DEF Adds
  <2>2. /\ Len(P) = 19
        /\ P[1] = Kernel({"E", "B"}, {}) /\ P[2] = Kernel({"E"}, {"B"}) /\ P[3] = Comm("B")
        /\ P[4] = Core /\ P[5] = Wait("B") /\ P[6] = Kernel({"B"}, {"E"})
        /\ P[7] = [op |-> "clear"] /\ P[8] = [op |-> "computeCurrent"] /\ P[9] = [op |-> "commJ"]
        /\ P[10] = Wait("J") /\ P[11] = Comm("Jrecv") /\ P[12] = Wait("Jrecv")
        /\ P[13] = Kernel({"Jrecv"}, {"E"})
        /\ P[14] = Comm("E") /\ P[15] = Core /\ P[16] = Wait("E") /\ P[17] = Kernel({"E"}, {"B"})
        /\ P[18] = Comm("B") /\ P[19] = Wait("B")
    BY ProgramFiltered
  <2> HIDE DEF P
  <2>3. ASSUME NEW p \in 1 .. 19 PROVE OpAt(13, p, P[p])
    <3>1. p \in {1, 2, 3, 4, 5, 6, 7} \/ p \in {8, 9, 10, 11, 12, 13} \/ p \in {14, 15, 16, 17, 18, 19}
      OBVIOUS
    <3>2. CASE p \in {1, 2, 6, 13, 17}
      BY <2>2, <3>2, KernelAt DEF OpAt
    <3>3. CASE p \in {3, 11, 14, 18}
      BY <2>2, <3>3, OtherAt DEF OpAt, AtComm
    <3>4. CASE p \in {5, 10, 12, 16, 19}
      BY <2>2, <3>4, OtherAt DEF OpAt, AtWait, WaitJ, Fields
    <3>5. CASE p \in {4, 15}
      BY <2>2, <3>5, OtherAt DEF OpAt
    <3>6. CASE p \in {7, 8, 9}
      BY <2>2, <3>6 DEF OpAt
    <3> QED
      BY <3>1, <3>2, <3>3, <3>4, <3>5, <3>6
  <2>4. P = Program[filtered]
    BY <1>1 DEF P
  <2>5. 13 + 6 = 19
    OBVIOUS
  <2> QED
    BY <2>1, <2>2, <2>3, <2>4, <2>5
<1>2. CASE filtered = FALSE
  <2> DEFINE P == Program[FALSE]
  <2>1. Adds = 12
    BY <1>2 DEF Adds
  <2>2. /\ Len(P) = 18
        /\ P[1] = Kernel({"E", "B"}, {}) /\ P[2] = Kernel({"E"}, {"B"}) /\ P[3] = Comm("B")
        /\ P[4] = Core /\ P[5] = Wait("B") /\ P[6] = Kernel({"B"}, {"E"})
        /\ P[7] = [op |-> "clear"] /\ P[8] = [op |-> "computeCurrent"] /\ P[9] = [op |-> "commJ"]
        /\ P[10] = Core /\ P[11] = Wait("J") /\ P[12] = Kernel({}, {"E"})
        /\ P[13] = Comm("E") /\ P[14] = Core /\ P[15] = Wait("E") /\ P[16] = Kernel({"E"}, {"B"})
        /\ P[17] = Comm("B") /\ P[18] = Wait("B")
    BY ProgramUnfiltered
  <2> HIDE DEF P
  <2>3. ASSUME NEW p \in 1 .. 18 PROVE OpAt(12, p, P[p])
    <3>1. p \in {1, 2, 3, 4, 5, 6, 7} \/ p \in {8, 9, 10, 11, 12, 13} \/ p \in {14, 15, 16, 17, 18}
      OBVIOUS
    <3>2. CASE p \in {1, 2, 6, 12, 16}
      BY <2>2, <3>2, KernelAt DEF OpAt
    <3>3. CASE p \in {3, 13, 17}
      BY <2>2, <3>3, OtherAt DEF OpAt, AtComm
    <3>4. CASE p \in {5, 11, 15, 18}
      BY <2>2, <3>4, OtherAt DEF OpAt, AtWait, WaitJ, Fields
    <3>5. CASE p \in {4, 10, 14}
      BY <2>2, <3>5, OtherAt DEF OpAt
    <3>6. CASE p \in {7, 8, 9}
      BY <2>2, <3>6 DEF OpAt
    <3> QED
      BY <3>1, <3>2, <3>3, <3>4, <3>5, <3>6
  <2>4. P = Program[filtered]
    BY <1>2 DEF P
  <2>5. 12 + 6 = 18
    OBVIOUS
  <2> QED
    BY <2>1, <2>2, <2>3, <2>4, <2>5
<1> QED
  BY <1>1, <1>2

-----------------------------------------------------------------------------
(* The ring.                                                                *)
LEMMA Around ==
  ASSUME NEW r \in Ranks
  PROVE  /\ (r + 1) % NumRanks = (IF r = NumRanks - 1 THEN 0 ELSE r + 1)
         /\ (r + -1) % NumRanks = (IF r = 0 THEN NumRanks - 1 ELSE r - 1)
<1> DEFINE N == NumRanks
<1>0. N \in Nat \ {0} /\ r \in 0 .. N - 1
  BY FieldAssumption DEF Ranks
<1> HIDE DEF N
<1>1. (r + 1) % N = (IF r = N - 1 THEN 0 ELSE r + 1)
  <2>1. CASE r = N - 1
    <3>1. (1 * N + 0) % N = 0
      BY <1>0, DivUnique
    <3>2. 1 * N + 0 = r + 1
      BY <1>0, <2>1
    <3> QED
      BY <2>1, <3>1, <3>2
  <2>2. CASE r # N - 1
    <3>0. r + 1 \in Int /\ 0 <= r + 1 /\ r + 1 < N
      BY <1>0, <2>2
    <3>1. (0 * N + (r + 1)) % N = r + 1
      BY <1>0, <3>0, DivUnique
    <3>2. 0 * N + (r + 1) = r + 1
      BY <1>0
    <3> QED
      BY <2>2, <3>1, <3>2
  <2> QED
    BY <2>1, <2>2
<1>2. (r + -1) % N = (IF r = 0 THEN N - 1 ELSE r - 1)
  <2>1. CASE r = 0
    <3>0. N - 1 \in Int /\ 0 <= N - 1 /\ N - 1 < N
      BY <1>0
    <3>1. ((-1) * N + (N - 1)) % N = N - 1
      BY <1>0, <3>0, DivUnique
    <3>2. (-1) * N + (N - 1) = r + -1
      BY <1>0, <2>1
    <3> QED
      BY <2>1, <3>1, <3>2
  <2>2. CASE r # 0
    <3>0. r - 1 \in Int /\ 0 <= r - 1 /\ r - 1 < N
      BY <1>0, <2>2
    <3>1. (0 * N + (r - 1)) % N = r - 1
      BY <1>0, <3>0, DivUnique
    <3>2. 0 * N + (r - 1) = r + -1
      BY <1>0
    <3> QED
      BY <2>2, <3>1, <3>2
  <2> QED
    BY <2>1, <2>2
<1> QED
  BY <1>1, <1>2 DEF N

(* The neighbours, and that of a neighbour back.                            *)
LEMMA Neighbours ==
  ASSUME NEW r \in Ranks, NEW d \in {"right", "left"}
  PROVE  /\ Neighbour(r, d) \in Ranks
         /\ Neighbour(Neighbour(r, d), Mirrored(d)) = r
         /\ Mirrored(d) \in {"right", "left"} /\ Mirrored(d) # d /\ Mirrored(Mirrored(d)) = d
<1>0. NumRanks \in Nat \ {0} /\ r \in 0 .. NumRanks - 1
  BY FieldAssumption DEF Ranks
<1>1. CASE d = "right"
  <2>1. PICK n : n = Neighbour(r, d) /\ n = (IF r = NumRanks - 1 THEN 0 ELSE r + 1)
    BY <1>1, Around DEF Neighbour
  <2>2. n \in Ranks
    BY <1>0, <2>1 DEF Ranks
  <2>3. Neighbour(n, Mirrored(d)) = (n + -1) % NumRanks
    BY <1>1 DEF Neighbour, Mirrored
  <2>4. (n + -1) % NumRanks = (IF n = 0 THEN NumRanks - 1 ELSE n - 1)
    BY <2>2, Around
  <2>5. (IF n = 0 THEN NumRanks - 1 ELSE n - 1) = r
    BY <1>0, <2>1
  <2> QED
    BY <1>1, <2>1, <2>2, <2>3, <2>4, <2>5 DEF Mirrored
<1>2. CASE d = "left"
  <2>1. PICK n : n = Neighbour(r, d) /\ n = (IF r = 0 THEN NumRanks - 1 ELSE r - 1)
    BY <1>2, Around DEF Neighbour
  <2>2. n \in Ranks
    BY <1>0, <2>1 DEF Ranks
  <2>3. Neighbour(n, Mirrored(d)) = (n + 1) % NumRanks
    BY <1>2 DEF Neighbour, Mirrored
  <2>4. (n + 1) % NumRanks = (IF n = NumRanks - 1 THEN 0 ELSE n + 1)
    BY <2>2, Around
  <2>5. (IF n = NumRanks - 1 THEN 0 ELSE n + 1) = r
    BY <1>0, <2>1
  <2> QED
    BY <1>2, <2>1, <2>2, <2>3, <2>4, <2>5 DEF Mirrored
<1> QED
  BY <1>1, <1>2

(* A channel, its ends and the direction its messages go.                   *)
LEMMA ChannelEnds ==
  ASSUME NEW c \in Channels
  PROVE  c[1] \in Ranks /\ c[2] \in {"right", "left"} /\ Dst(c) \in Ranks
         /\ c = <<c[1], c[2]>> /\ c = ChannelIn(Dst(c), Mirrored(c[2]))
<1>1. c[1] \in Ranks /\ c[2] \in {"right", "left"} /\ c = <<c[1], c[2]>>
  BY DEF Channels
<1>2. Neighbour(c[1], c[2]) \in Ranks
      /\ Neighbour(Neighbour(c[1], c[2]), Mirrored(c[2])) = c[1] /\ Mirrored(Mirrored(c[2])) = c[2]
  BY <1>1, Neighbours
<1> QED
  BY <1>1, <1>2 DEF Dst, ChannelIn

(* The channel an exchange of a rank receives from.                         *)
LEMMA ReceivesFrom ==
  ASSUME NEW r \in Ranks, NEW d \in {"right", "left"}
  PROVE  /\ ChannelIn(r, d) \in Channels /\ Dst(ChannelIn(r, d)) = r
         /\ ChannelIn(r, d)[2] = Mirrored(d)
         /\ \A c \in Channels : Dst(c) = r /\ c[2] = Mirrored(d) => c = ChannelIn(r, d)
<1>1. /\ Neighbour(r, d) \in Ranks /\ Neighbour(Neighbour(r, d), Mirrored(d)) = r
      /\ Mirrored(d) \in {"right", "left"} /\ Mirrored(Mirrored(d)) = d
  BY Neighbours
<1>2. ChannelIn(r, d) \in Channels /\ Dst(ChannelIn(r, d)) = r /\ ChannelIn(r, d)[2] = Mirrored(d)
  BY <1>1 DEF ChannelIn, Channels, Dst
<1>3. ASSUME NEW c \in Channels, Dst(c) = r, c[2] = Mirrored(d) PROVE c = ChannelIn(r, d)
  BY <1>1, <1>3, ChannelEnds
<1> QED
  BY <1>2, <1>3

(* The two channels a rank receives from.                                   *)
LEMMA TwoIncoming ==
  ASSUME NEW r \in Ranks
  PROVE  /\ Directions[1] = "right" /\ Directions[2] = "left"
         /\ ChannelIn(r, "right") \in Incoming(r) /\ ChannelIn(r, "left") \in Incoming(r)
         /\ ChannelIn(r, "right")[2] = "left" /\ ChannelIn(r, "left")[2] = "right"
         /\ \A c \in Incoming(r) : /\ c[2] = "left" => c = ChannelIn(r, "right")
                                   /\ c[2] = "right" => c = ChannelIn(r, "left")
                                   /\ c[2] \in {"right", "left"}
<1>1. Mirrored("right") = "left" /\ Mirrored("left") = "right"
      /\ "left" \in {"right", "left"} /\ "right" \in {"right", "left"}
  BY DEF Mirrored
<1>2. \A d \in {"right", "left"} :
        /\ ChannelIn(r, d) \in Channels /\ Dst(ChannelIn(r, d)) = r
        /\ ChannelIn(r, d)[2] = Mirrored(d)
        /\ \A c \in Channels : Dst(c) = r /\ c[2] = Mirrored(d) => c = ChannelIn(r, d)
  BY ReceivesFrom
<1>3. \A c \in Incoming(r) : c \in Channels /\ Dst(c) = r /\ c[2] \in {"right", "left"}
  BY ChannelEnds DEF Incoming
<1>4. Directions[1] = "right" /\ Directions[2] = "left"
  BY DEF Directions
<1>5. ChannelIn(r, "right") \in Incoming(r) /\ ChannelIn(r, "left") \in Incoming(r)
  BY <1>1, <1>2 DEF Incoming
<1> QED
  BY <1>1, <1>2, <1>3, <1>4, <1>5

-----------------------------------------------------------------------------
(***************************************************************************)
(* How the counts change as a rank goes on.                                *)
(***************************************************************************)
SameCounts(f, o, d, t, s, p, e, s2, p2, e2) ==
  /\ Sent(f, o, s2, p2, e2, d, t) = Sent(f, o, s, p, e, d, t)
  /\ Posted(f, o, s2, p2, e2, d) = Posted(f, o, s, p, e, d)

(* A rank goes to the next place, and no exchange of f is left.             *)
LEMMA QuietMove ==
  ASSUME NEW o \in {12, 13}, NEW s \in Nat, NEW p \in 1 .. o + 6, NEW f \in Fields,
         ~AtComm(f, o, p), NEW d \in {"right", "left"}, NEW t, NEW p2, p2 = p + 1
  PROVE  SameCounts(f, o, d, t, s, p, 1, s, p2, 1)
<1>1. f \in {"E", "B", "J", "Jrecv"}
  BY DEF Fields
<1> QED
  BY <1>1 DEF SameCounts, Sent, Posted, Full, One, AtComm, SendAt, PostAt

(* The place after the last one of a step, and the next step or place.      *)
AtLast(o, p) == p = o + 7
After(n, n2) == n2 = n + 1

(* The end of a step.                                                       *)
LEMMA EndMove ==
  ASSUME NEW o \in {12, 13}, NEW s \in Nat, NEW f \in Fields, NEW d \in {"right", "left"},
         NEW p, AtLast(o, p), NEW s2, After(s, s2)
  PROVE  SameCounts(f, o, d, "Finished", s, p, 1, s2, 1, 1)
<1>1. f \in {"E", "B", "J", "Jrecv"} /\ p = o + 7 /\ s2 = s + 1
  BY DEF Fields, AtLast, After
<1> QED
  BY <1>1 DEF SameCounts, Sent, Posted, Full, One, AtComm, SendAt, PostAt

(* The next part of an exchange that has so many, or the next place.        *)
GoesOn(p, e, last, p2, e2) ==
  IF e = last THEN p2 = p + 1 /\ e2 = 1 ELSE p2 = p /\ e2 = e + 1

SameSent(f, o, d, t, s, p, e, p2, e2) == Sent(f, o, s, p2, e2, d, t) = Sent(f, o, s, p, e, d, t)
MoreSent(f, o, d, t, s, p, e, p2, e2) == Sent(f, o, s, p2, e2, d, t) = Sent(f, o, s, p, e, d, t) + 1
SamePosted(f, o, d, s, p, e, p2, e2) == Posted(f, o, s, p2, e2, d) = Posted(f, o, s, p, e, d)
MorePosted(f, o, d, s, p, e, p2, e2) == Posted(f, o, s, p2, e2, d) = Posted(f, o, s, p, e, d) + 1

(* What a receive, and a copy to a send buffer, of field g change.          *)
ReceiveCounts(g, f, o, d, t, s, p, e, p2, e2) ==
  /\ SameSent(f, o, d, t, s, p, e, p2, e2)
  /\ f = g /\ e = PostAt(f, d) => MorePosted(f, o, d, s, p, e, p2, e2)
  /\ f # g \/ e # PostAt(f, d) => SamePosted(f, o, d, s, p, e, p2, e2)

SendCounts(g, f, o, d, t, s, p, e, p2, e2) ==
  /\ SamePosted(f, o, d, s, p, e, p2, e2)
  /\ f = g /\ e = SendAt(d) => MoreSent(f, o, d, t, s, p, e, p2, e2)
  /\ f # g \/ e # SendAt(d) => SameSent(f, o, d, t, s, p, e, p2, e2)

(* A receive is posted.                                                     *)
LEMMA PostMove ==
  ASSUME NEW o \in {12, 13}, NEW s \in Nat, NEW p \in 1 .. o + 6, NEW e \in {1, 3},
         NEW g \in {"E", "B", "Jrecv"}, AtComm(g, o, p),
         NEW f \in Fields, NEW d \in {"right", "left"}, NEW t,
         NEW p2, NEW e2, GoesOn(p, e, 4, p2, e2)
  PROVE  ReceiveCounts(g, f, o, d, t, s, p, e, p2, e2)
<1>1. f \in {"E", "B", "J", "Jrecv"} /\ p2 = p /\ e2 = e + 1
  BY DEF Fields, GoesOn
<1>2. SameSent(f, o, d, t, s, p, e, p2, e2)
  BY <1>1 DEF SameSent, Sent, Full, One, AtComm, SendAt
<1>3. f = g /\ e = PostAt(f, d) => MorePosted(f, o, d, s, p, e, p2, e2)
  BY <1>1 DEF MorePosted, Posted, Full, One, AtComm, PostAt
<1>4. f # g \/ e # PostAt(f, d) => SamePosted(f, o, d, s, p, e, p2, e2)
  BY <1>1 DEF SamePosted, Posted, Full, One, AtComm, PostAt
<1> QED
  BY <1>2, <1>3, <1>4 DEF ReceiveCounts

(* A copy to a send buffer is begun.                                        *)
LEMMA SendMove ==
  ASSUME NEW o \in {12, 13}, NEW s \in Nat, NEW p \in 1 .. o + 6, NEW e \in {2, 4},
         NEW g \in {"E", "B", "Jrecv"}, AtComm(g, o, p),
         NEW f \in Fields, NEW d \in {"right", "left"}, NEW t,
         NEW p2, NEW e2, GoesOn(p, e, 4, p2, e2)
  PROVE  SendCounts(g, f, o, d, t, s, p, e, p2, e2)
<1>1. /\ f \in {"E", "B", "J", "Jrecv"}
      /\ (e = 2 /\ p2 = p /\ e2 = 3) \/ (e = 4 /\ p2 = p + 1 /\ e2 = 1)
  BY DEF Fields, GoesOn
<1>2. SamePosted(f, o, d, s, p, e, p2, e2)
  BY <1>1 DEF SamePosted, Posted, Full, One, AtComm, PostAt
<1>3. f = g /\ e = SendAt(d) => MoreSent(f, o, d, t, s, p, e, p2, e2)
  BY <1>1 DEF MoreSent, Sent, Full, One, AtComm, SendAt
<1>4. f # g \/ e # SendAt(d) => SameSent(f, o, d, t, s, p, e, p2, e2)
  BY <1>1 DEF SameSent, Sent, Full, One, AtComm, SendAt
<1> QED
  BY <1>2, <1>3, <1>4 DEF SendCounts

(* A receive of the current is posted.                                      *)
LEMMA PostMoveJ ==
  ASSUME NEW o \in {12, 13}, NEW s \in Nat, NEW e \in {1, 2}, NEW f \in Fields,
         NEW d \in {"right", "left"}, NEW t, NEW e2, After(e, e2)
  PROVE  ReceiveCounts("J", f, o, d, t, s, 9, e, 9, e2)
<1>1. f \in {"E", "B", "J", "Jrecv"} /\ e2 = e + 1
  BY DEF Fields, After
<1> QED
  BY <1>1 DEF ReceiveCounts, SameSent, SamePosted, MorePosted, Sent, Posted, Full, One, AtComm, SendAt, PostAt

(* The tasks that send the current are created.                             *)
TaskMade(f, o, d, t, s) ==
  /\ Sent(f, o, s, 10, 1, d, "WaitForBash") = Sent(f, o, s, 9, 3, d, t)
  /\ Posted(f, o, s, 10, 1, d) = Posted(f, o, s, 9, 3, d)

(* No count changes.                                                        *)
LEMMA SendMoveJ ==
  ASSUME NEW o \in {12, 13}, NEW s \in Nat, NEW f \in Fields, NEW d \in {"right", "left"}, NEW t
  PROVE  TaskMade(f, o, d, t, s)
<1>1. f \in {"E", "B", "J", "Jrecv"}
  BY DEF Fields
<1> QED
  BY <1>1 DEF TaskMade, Sent, Posted, Full, One, AtComm, SendAt, PostAt

(* Only fields other than J are sent by the exchange itself.                *)
LEMMA SentByTask ==
  ASSUME NEW o \in {12, 13}, NEW s \in Nat, NEW p \in 1 .. o + 7, NEW e \in 1 .. 4,
         NEW f \in Fields, NEW d \in {"right", "left"}, NEW t, NEW u
  PROVE  /\ f # "J" => Sent(f, o, s, p, e, d, t) = Sent(f, o, s, p, e, d, u)
         /\ p > 9 => Sent("J", o, s, p, e, d, "WaitForSendEnd") = s + 1
         /\ p > 9 => Sent("J", o, s, p, e, d, "Finished") = s + 1
         /\ \A v \in {"WaitForBash", "Bashed", "InitSend"} : Sent("J", o, s, p, e, d, v) = s
BY DEF Sent, One

-----------------------------------------------------------------------------
(* At most one exchange goes on at a place.                                 *)
LEMMA OpenFields ==
  ASSUME NEW o \in {12, 13}, NEW p \in 1 .. o + 7, NEW f \in Fields
  PROVE  /\ p \in {1, 2, 6, 7, 8, o, o + 4, o + 7} => ~Open(f, o, p)
         /\ p = 4 \/ p = o + 2 \/ (o = 12 /\ p = 10) => (Open(f, o, p) => Open(f, o, p + 1))
         /\ \A g \in Fields : AtWait(g, o, p) /\ Open(f, o, p) => f = g
         /\ \A g \in Fields : AtComm(g, o, p) =>
              Open(g, o, p) /\ Open(g, o, p + 1) /\ (Open(f, o, p) => f = g)
<1>1. f \in {"E", "B", "J", "Jrecv"}
  BY DEF Fields
<1>2. p \in {1, 2, 6, 7, 8, o, o + 4, o + 7} => ~Open(f, o, p)
  BY <1>1 DEF Open, WaitJ
<1>3. p = 4 \/ p = o + 2 \/ (o = 12 /\ p = 10) => (Open(f, o, p) => Open(f, o, p + 1))
  BY <1>1 DEF Open, WaitJ
<1>4. \A g \in Fields : AtWait(g, o, p) /\ Open(f, o, p) => f = g
  BY <1>1 DEF Open, WaitJ, AtWait
<1>5. \A g \in Fields : AtComm(g, o, p) =>
        Open(g, o, p) /\ Open(g, o, p + 1) /\ (Open(f, o, p) => f = g)
  BY <1>1 DEF Open, WaitJ, AtComm
<1> QED
  BY <1>2, <1>3, <1>4, <1>5

(* A border that is sent has the version that its message is to carry.      *)
Carries(f, o, s, p, e, b, d, t) ==
  /\ b[f] = Version(f, Full(f, o, s, p) + 1)
  /\ e = SendAt(d) => Sent(f, o, s, p, e, d, t) = Full(f, o, s, p)

(* So it is at the place of the exchange.                                   *)
LEMMA BorderSent ==
  ASSUME NEW o \in {12, 13}, NEW s \in Nat, NEW p \in 1 .. o + 7, NEW e \in 1 .. 4, NEW n, NEW b,
         BorderOK(o, s, p, e, n, b), NEW f \in {"E", "B", "Jrecv"}, AtComm(f, o, p),
         NEW d \in {"right", "left"}, NEW t
  PROVE  Carries(f, o, s, p, e, b, d, t)
<1>1. b[f] = Version(f, Full(f, o, s, p) + 1)
  BY DEF BorderOK, Version, Full, One, AtComm, Inserted, InsertOpen, WaitJ
<1>2. e = SendAt(d) => Sent(f, o, s, p, e, d, t) = Full(f, o, s, p)
  BY DEF Sent, One, SendAt, Full
<1> QED
  BY <1>1, <1>2, Zenon DEF Carries

-----------------------------------------------------------------------------
(***************************************************************************)
(* What happens to the messages of a channel.                              *)
(***************************************************************************)
Inboxes == [st : {"none", "posted", "copying"}, data : Int]

(* A receive is posted.                                                     *)
LEMMA PipePost ==
  ASSUME NEW f, NEW a \in Int, NEW q \in Int, NEW copies \in BOOLEAN, NEW sends \in BOOLEAN,
         NEW buffer, NEW msgs \in Seq(Messages), NEW ib \in Inboxes, NEW g,
         Pipe(f, a, q, copies, sends, buffer, msgs, ib, g),
         ib.st = "none", NEW ib2, ib2 = [ib EXCEPT !.st = "posted"]
  PROVE  Pipe(f, a, q + 1, copies, sends, buffer, msgs, ib2, g)
<1>1. ib2.st = "posted"
  BY DEF Inboxes
<1>2. q - 0 = q /\ (q + 1) - 1 = q
  OBVIOUS
<1> QED
  BY <1>1, <1>2 DEF Pipe, One

(* A copy to the send buffer is begun.                                      *)
LEMMA PipeSend ==
  ASSUME NEW f, NEW a \in Int, NEW q \in Int, NEW sends,
         NEW buffer, NEW msgs \in Seq(Messages), NEW ib \in Inboxes, NEW g,
         Pipe(f, a, q, FALSE, sends, buffer, msgs, ib, g), ~sends
  PROVE  Pipe(f, a + 1, q, TRUE, sends, buffer, msgs, ib, g)
<1>1. PICK n \in Nat : n = Len(msgs)
  OBVIOUS
<1>2. (a - 0) - n = (a + 1 - 1) - n
  OBVIOUS
<1> QED
  BY <1>1, <1>2 DEF Pipe, One

(* It has finished, and the message is sent.                                *)
LEMMA PipeStart ==
  ASSUME NEW f, NEW a \in Int, NEW q \in Int, NEW sends, NEW buffer,
         NEW msgs \in Seq(Messages), NEW ib \in Inboxes, NEW g,
         Pipe(f, a, q, TRUE, sends, buffer, msgs, ib, g),
         NEW out \in Int, out = Version(f, a), NEW protocol \in {"eager", "rendezvous"},
         NEW msgs2, msgs2 = Append(msgs, [protocol |-> protocol, data |-> out]),
         NEW sends2, sends2 <=> protocol = "rendezvous"
  PROVE  Pipe(f, a, q, FALSE, sends2, out, msgs2, ib, g)
<1>1. PICK n \in Nat : n = Len(msgs)
  OBVIOUS
<1>2. PICK t \in Int : t = q - One(ib.st = "posted")
  BY DEF One
<1>3. /\ a - 1 - n = t
      /\ \A i \in 1 .. n : msgs[i].data = Version(f, t + i) /\ msgs[i].protocol = "eager"
      /\ ib.st = "copying" => ib.data = Version(f, q)
      /\ ib.st = "none" => (IF f = "J" THEN ib.data ELSE g) = Version(f, q)
  <2>1. /\ a - One(TRUE) - n = t
        /\ \A i \in 1 .. n : /\ msgs[i].data = Version(f, t + i)
                             /\ msgs[i].protocol # "eager" => sends
        /\ ib.st = "copying" => ib.data = Version(f, q)
        /\ ib.st = "none" => (IF f = "J" THEN ib.data ELSE g) = Version(f, q)
        /\ ~sends
    BY <1>1, <1>2, Zenon DEF Pipe
  <2>2. One(TRUE) = 1
    BY DEF One
  <2> QED
    BY <2>1, <2>2
<1>4. Len(msgs2) = n + 1 /\ \A i \in 1 .. n : msgs2[i] = msgs[i]
  BY <1>1 DEF Messages
<1>5. msgs2[n + 1] = [protocol |-> protocol, data |-> out]
  BY <1>1 DEF Messages
<1>6. msgs2[n + 1].protocol = protocol /\ msgs2[n + 1].data = out
  <2>1. PICK m : m = [protocol |-> protocol, data |-> out] /\ m.protocol = protocol /\ m.data = out
    OBVIOUS
  <2> QED
    BY <1>5, <2>1, Zenon
<1>7. t + (n + 1) = a /\ a - 0 - (n + 1) = t
  BY <1>3
<1>8. \A i \in 1 .. n + 1 : i \in 1 .. n \/ i = n + 1
  OBVIOUS
<1>9. \A i \in 1 .. n + 1 :
        /\ msgs2[i].data = Version(f, t + i)
        /\ msgs2[i].protocol # "eager" => i = n + 1 /\ sends2 /\ out = msgs2[i].data
  BY <1>3, <1>4, <1>6, <1>7, <1>8, Zenon
<1>10. a - One(FALSE) - Len(msgs2) = t
  <2>1. One(FALSE) = 0
    BY DEF One
  <2> QED
    BY <1>4, <1>7, <2>1, Zenon
<1> QED
  BY <1>2, <1>3, <1>4, <1>9, <1>10, Zenon DEF Pipe

(* The oldest message is received.                                          *)
LEMMA PipeTransfer ==
  ASSUME NEW f, NEW a \in Int, NEW q \in Int, NEW copies \in BOOLEAN, NEW sends, NEW buffer,
         NEW msgs \in Seq(Messages), NEW ib \in Inboxes, NEW g,
         Pipe(f, a, q, copies, sends, buffer, msgs, ib, g), ib.st = "posted", msgs # <<>>,
         NEW ib2, ib2.st = "copying",
         ib2.data = (IF Head(msgs).protocol = "eager" THEN Head(msgs).data ELSE buffer),
         NEW sends2, sends2 <=> sends /\ Head(msgs).protocol = "eager"
  PROVE  Pipe(f, a, q, copies, sends2, buffer, Tail(msgs), ib2, g)
<1>1. PICK n \in Nat, k \in {0, 1} : n = Len(msgs) /\ k = One(copies)
  BY DEF One
<1>2. n >= 1 /\ Head(msgs) = msgs[1] /\ Len(Tail(msgs)) = n - 1
      /\ \A i \in 1 .. n - 1 : Tail(msgs)[i] = msgs[i + 1]
  BY <1>1
<1>3. /\ a - k - n = q - 1
      /\ \A i \in 1 .. n : /\ msgs[i].data = Version(f, (q - 1) + i)
                           /\ msgs[i].protocol # "eager" => i = n /\ sends /\ buffer = msgs[i].data
      /\ copies => ~sends
  <2>1. q - One(ib.st = "posted") = q - 1
    BY DEF One
  <2> QED
    BY <1>1, <2>1, Zenon DEF Pipe
<1>4. 1 \in 1 .. n /\ (q - 1) + 1 = q
  BY <1>2
<1>5. ib2.data = Version(f, q)
  BY <1>2, <1>3, <1>4, Zenon
<1>6. a - k - (n - 1) = q - 0
  BY <1>3
<1>7. \A i \in 1 .. n - 1 :
        /\ Tail(msgs)[i].data = Version(f, q + i)
        /\ Tail(msgs)[i].protocol # "eager" => i = n - 1 /\ sends2 /\ buffer = Tail(msgs)[i].data
  <2> SUFFICES ASSUME NEW i \in 1 .. n - 1
               PROVE  /\ Tail(msgs)[i].data = Version(f, q + i)
                      /\ Tail(msgs)[i].protocol # "eager" =>
                           i = n - 1 /\ sends2 /\ buffer = Tail(msgs)[i].data
    OBVIOUS
  <2>1. i + 1 \in 1 .. n /\ (q - 1) + (i + 1) = q + i /\ (i + 1 = n => i = n - 1) /\ 1 # n
    BY <1>1
  <2>2. Tail(msgs)[i] = msgs[i + 1]
    BY <1>2
  <2>3. Head(msgs).protocol = "eager"
    BY <1>2, <1>3, <1>4, <2>1, Zenon
  <2> QED
    BY <1>3, <2>1, <2>2, <2>3, Zenon
<1>8. One(ib2.st = "posted") = 0
  BY DEF One
<1>9. q - One(ib2.st = "posted") = q
  BY <1>8
<1>10. a - One(copies) - Len(Tail(msgs)) = q
  BY <1>1, <1>2, <1>6
<1> QED
  BY <1>2, <1>3, <1>5, <1>7, <1>9, <1>10, Zenon DEF Pipe

(* It has been copied to the device.                                        *)
LEMMA PipeCopied ==
  ASSUME NEW f, NEW a \in Int, NEW q \in Int, NEW copies \in BOOLEAN, NEW sends, NEW buffer,
         NEW msgs \in Seq(Messages), NEW ib \in Inboxes, NEW g,
         Pipe(f, a, q, copies, sends, buffer, msgs, ib, g), ib.st = "copying",
         NEW ib2, ib2.st = "none", ib2.data = ib.data,
         NEW g2, f # "J" => g2 = ib.data
  PROVE  Pipe(f, a, q, copies, sends, buffer, msgs, ib2, g2)
<1>1. One(ib.st = "posted") = 0 /\ One(ib2.st = "posted") = 0
  BY DEF One
<1>2. q - One(ib.st = "posted") = q - One(ib2.st = "posted")
  BY <1>1
<1>3. ib.data = Version(f, q)
  BY DEF Pipe
<1> QED
  BY <1>2, <1>3, Zenon DEF Pipe

-----------------------------------------------------------------------------
(***************************************************************************)
(* What the invariant says of a rank and of a channel.                     *)
(***************************************************************************)
LEMMA RankFacts ==
  ASSUME Inv, NEW r \in Ranks
  PROVE  /\ Adds \in {12, 13} /\ step[r] \in Nat /\ pc[r] \in 1 .. Adds + 7 /\ exchange[r] \in 1 .. 4
         /\ AtEnd(r) <=> pc[r] = Adds + 7
         /\ ~AtEnd(r) => pc[r] \in 1 .. Adds + 6 /\ OpAt(Adds, pc[r], Op(r))
         /\ RankOK(r)
<1>1. RankOK(r) /\ Types
  BY DEF Inv
<1>2. /\ Adds \in {12, 13}
      /\ Len(Program[filtered]) = Adds + 6
      /\ \A p \in 1 .. Adds + 6 : OpAt(Adds, p, Program[filtered][p])
  BY <1>1, Places DEF Types
<1>3. pc[r] \in 1 .. Adds + 7 /\ exchange[r] \in 1 .. 4 /\ step[r] \in Nat
  BY <1>1 DEF RankOK, PlaceOK, Types
<1>4. AtEnd(r) <=> pc[r] = Adds + 7
  BY <1>2, <1>3 DEF AtEnd
<1>5. ~AtEnd(r) => pc[r] \in 1 .. Adds + 6
  BY <1>2, <1>3, <1>4
<1>6. ~AtEnd(r) => OpAt(Adds, pc[r], Op(r))
  BY <1>2, <1>5 DEF Op
<1> QED
  BY <1>1, <1>2, <1>3, <1>4, <1>5, <1>6

(* The operation a rank runs.                                               *)
LEMMA RunsAt ==
  ASSUME Inv, NEW r \in Ranks, NEW op, Runs(r, op)
  PROVE  /\ Adds \in {12, 13} /\ step[r] \in Nat /\ pc[r] \in 1 .. Adds + 6 /\ exchange[r] \in 1 .. 4
         /\ OpAt(Adds, pc[r], Op(r)) /\ Op(r).op = op
         /\ RankOK(r)
BY RankFacts DEF Runs

(* The counts are numbers.                                                  *)
LEMMA Counts ==
  ASSUME NEW o \in {12, 13}, NEW s \in Nat, NEW p, NEW e, NEW f, NEW d, NEW t
  PROVE  Sent(f, o, s, p, e, d, t) \in Int /\ Posted(f, o, s, p, e, d) \in Int
<1>1. Full(f, o, s, p) \in Int
  BY DEF Full, One
<1>2. Posted(f, o, s, p, e, d) \in Int
  BY <1>1 DEF Posted, One
<1>3. Sent(f, o, s, p, e, d, t) \in Int
  BY <1>1 DEF Sent, One
<1> QED
  BY <1>2, <1>3

(* A channel of a field.                                                    *)
LEMMA ChannelFacts ==
  ASSUME Inv, NEW c \in Channels, NEW f \in Fields
  PROVE  /\ SentOn(c, f) \in Int /\ PostedOn(c, f) \in Int
         /\ d2h[c][f] \in BOOLEAN /\ sending[c][f] \in BOOLEAN /\ host[c][f] \in Int
         /\ net[c][f] \in Seq(Messages) /\ inbox[c][f] \in Inboxes /\ guard[c][f] \in Int
         /\ Outbox(c, f) \in Int /\ Version(f, SentOn(c, f)) \in Int
         /\ PipeOK(c, f) /\ CopiesOK(c, f)
<1>1. c[1] \in Ranks /\ c[2] \in {"right", "left"} /\ Dst(c) \in Ranks
  BY ChannelEnds
<1>2. Adds \in {12, 13} /\ step[c[1]] \in Nat /\ step[Dst(c)] \in Nat
  BY <1>1, RankFacts
<1>3. SentOn(c, f) \in Int /\ PostedOn(c, f) \in Int
  BY <1>2, Counts DEF SentOn, PostedOn
<1>4. /\ d2h[c][f] \in BOOLEAN /\ sending[c][f] \in BOOLEAN /\ host[c][f] \in Int
      /\ net[c][f] \in Seq(Messages) /\ inbox[c][f] \in Inboxes /\ guard[c][f] \in Int
      /\ dev[c] \in Int /\ border[c[1]][f] \in Int
  BY <1>1 DEF Inv, Types, Inboxes
<1>5. Outbox(c, f) \in Int
  BY <1>4 DEF Outbox
<1>6. Version(f, SentOn(c, f)) \in Int
  BY <1>3 DEF Version
<1> QED
  BY <1>3, <1>4, <1>5, <1>6 DEF Inv

(* A change of one channel of one field.                                    *)
LEMMA OneChannel ==
  ASSUME NEW T, NEW x \in [Channels -> [Fields -> T]], NEW c \in Channels, NEW f \in Fields,
         NEW v \in T, NEW x2, x2 = [x EXCEPT ![c][f] = v]
  PROVE  /\ x2 \in [Channels -> [Fields -> T]]
         /\ x2[c][f] = v
         /\ \A k \in Channels, g \in Fields : k # c \/ g # f => x2[k][g] = x[k][g]
OBVIOUS

(* A flag, as a value.                                                      *)
LEMMA FlagCleared ==
  ASSUME NEW x \in [Channels -> [Fields -> BOOLEAN]], NEW c \in Channels, NEW f \in Fields, NEW x2,
         x2 = [x EXCEPT ![c][f] = FALSE]
  PROVE  \E v \in BOOLEAN : v = FALSE /\ x2 = [x EXCEPT ![c][f] = v]
BY Zenon

(* A flag that is raised.                                                   *)
LEMMA FlagRaised ==
  ASSUME NEW x \in [Channels -> [Fields -> BOOLEAN]], NEW c \in Channels, NEW f \in Fields, NEW x2,
         x2 = [x EXCEPT ![c][f] = TRUE]
  PROVE  \E v \in BOOLEAN : v = TRUE /\ x2 = [x EXCEPT ![c][f] = v]
BY Zenon

(* A channel whose messages a step leaves alone.                            *)
LEMMA PipeKept ==
  ASSUME Inv, NEW c \in Channels, NEW f \in Fields,
         SentOn(c, f)' = SentOn(c, f), PostedOn(c, f)' = PostedOn(c, f),
         d2h'[c][f] = d2h[c][f], sending'[c][f] = sending[c][f], host'[c][f] = host[c][f],
         net'[c][f] = net[c][f], inbox'[c][f] = inbox[c][f], guard'[c][f] = guard[c][f]
  PROVE  PipeOK(c, f)'
<1>1. PipeOK(c, f)
  BY DEF Inv
<1> QED
  BY <1>1, Zenon DEF PipeOK

(* A step of the copies or of MPI leaves the counts.                        *)
LEMMA MessageFrame ==
  ASSUME Inv, UNCHANGED <<filtered, step, pc, exchange, border, added, dev, sendJ, insertJ>>
  PROVE  /\ \A c \in Channels : SendTaskOK(c)'
         /\ \A c \in Channels, f \in Fields :
              /\ SentOn(c, f)' = SentOn(c, f) /\ PostedOn(c, f)' = PostedOn(c, f)
              /\ Outbox(c, f)' = Outbox(c, f)
              /\ d2h'[c][f] = d2h[c][f] /\ inbox'[c][f].st = inbox[c][f].st => CopiesOK(c, f)'
<1>1. Adds' = Adds
  BY DEF Adds
<1>2. \A c \in Channels, f \in Fields :
        /\ SentOn(c, f)' = SentOn(c, f) /\ PostedOn(c, f)' = PostedOn(c, f)
        /\ Outbox(c, f)' = Outbox(c, f)
  BY <1>1 DEF SentOn, PostedOn, Outbox, Dst
<1>3. \A c \in Channels : SendTaskOK(c)'
  <2>1. \A c \in Channels : SendTaskOK(c)
    BY DEF Inv
  <2> QED
    BY <1>1, <2>1 DEF SendTaskOK
<1>4. ASSUME NEW c \in Channels, NEW f \in Fields,
             d2h'[c][f] = d2h[c][f], inbox'[c][f].st = inbox[c][f].st
      PROVE  CopiesOK(c, f)'
  <2>1. CopiesOK(c, f)
    BY DEF Inv
  <2> QED
    BY <1>1, <1>2, <1>4, <2>1, Zenon DEF CopiesOK, CopyOut, CopyIn, Dst
<1> QED
  BY <1>2, <1>3, <1>4

-----------------------------------------------------------------------------
(***************************************************************************)
(* The copies and MPI.                                                     *)
(***************************************************************************)
(* What the invariant says of a rank does not depend on the channels.       *)
LEMMA RanksKept ==
  ASSUME Inv, UNCHANGED <<filtered, step, pc, exchange, border, deposited, added, insertJ>>
  PROVE  \A r \in Ranks : RankOK(r)'
<1>1. Adds' = Adds
  BY DEF Adds
<1>2. \A r \in Ranks : RankOK(r)
  BY DEF Inv
<1> QED
  BY <1>1, <1>2, Zenon DEF RankOK, ChannelIn, Neighbour

(* The copy to the host has finished: the message is sent.                  *)
LEMMA StartMPISendKeeps ==
  ASSUME Inv, NEW c \in Channels, NEW f \in Fields, StartMPISend(c, f)
  PROVE  Inv'
<1>1. PICK protocol \in Protocols[c[2]] :
        /\ d2h[c][f]
        /\ d2h' = [d2h EXCEPT ![c][f] = FALSE]
        /\ host' = [host EXCEPT ![c][f] = Outbox(c, f)]
        /\ sending' = [sending EXCEPT ![c][f] = (protocol = "rendezvous")]
        /\ net' = [net EXCEPT ![c][f] = Append(@, [protocol |-> protocol, data |-> Outbox(c, f)])]
        /\ UNCHANGED <<filtered, step, pc, exchange, border, guard, deposited, added, inbox, dev,
                       sendJ, insertJ>>
  BY DEF StartMPISend, mainVars, fieldVars, taskVars
<1>2. protocol \in {"eager", "rendezvous"}
  BY ChannelEnds, FieldAssumption
<1>3. Outbox(c, f) \in Int /\ net[c][f] \in Seq(Messages)
  BY ChannelFacts
<1>4. PICK m : m = Append(net[c][f], [protocol |-> protocol, data |-> Outbox(c, f)])
  OBVIOUS
<1>5. m \in Seq(Messages)
  BY <1>2, <1>3, <1>4 DEF Messages
<1>6. net' = [net EXCEPT ![c][f] = m]
  BY <1>1, <1>4
<1>7. PICK b \in BOOLEAN : b <=> protocol = "rendezvous"
  OBVIOUS
<1>8. sending' = [sending EXCEPT ![c][f] = b]
  BY <1>1, <1>7
<1>9. /\ d2h \in [Channels -> [Fields -> BOOLEAN]] /\ host \in [Channels -> [Fields -> Int]]
      /\ sending \in [Channels -> [Fields -> BOOLEAN]] /\ net \in [Channels -> [Fields -> Seq(Messages)]]
  BY DEF Inv, Types
<1>10. /\ d2h' \in [Channels -> [Fields -> BOOLEAN]] /\ d2h'[c][f] = FALSE
       /\ \A k \in Channels, g \in Fields : k # c \/ g # f => d2h'[k][g] = d2h[k][g]
  <2>1. PICK v \in BOOLEAN : v = FALSE /\ d2h' = [d2h EXCEPT ![c][f] = v]
    BY <1>1, <1>9, FlagCleared, Zenon
  <2>2. /\ d2h' \in [Channels -> [Fields -> BOOLEAN]] /\ d2h'[c][f] = v
        /\ \A k \in Channels, g \in Fields : k # c \/ g # f => d2h'[k][g] = d2h[k][g]
    BY <1>9, <2>1, OneChannel
  <2> QED
    BY <2>1, <2>2, Zenon
<1>11. /\ host' \in [Channels -> [Fields -> Int]] /\ host'[c][f] = Outbox(c, f)
       /\ \A k \in Channels, g \in Fields : k # c \/ g # f => host'[k][g] = host[k][g]
  BY <1>1, <1>3, <1>9, OneChannel
<1>12. /\ sending' \in [Channels -> [Fields -> BOOLEAN]] /\ sending'[c][f] = b
       /\ \A k \in Channels, g \in Fields : k # c \/ g # f => sending'[k][g] = sending[k][g]
  BY <1>8, <1>9, OneChannel
<1>13. /\ net' \in [Channels -> [Fields -> Seq(Messages)]] /\ net'[c][f] = m
       /\ \A k \in Channels, g \in Fields : k # c \/ g # f => net'[k][g] = net[k][g]
  BY <1>5, <1>6, <1>9, OneChannel
<1>14. Types'
  BY <1>1, <1>10, <1>11, <1>12, <1>13 DEF Inv, Types
<1>15. \A r \in Ranks : RankOK(r)'
  BY <1>1, RanksKept
<1>16. /\ \A k \in Channels : SendTaskOK(k)'
       /\ \A k \in Channels, g \in Fields :
            /\ SentOn(k, g)' = SentOn(k, g) /\ PostedOn(k, g)' = PostedOn(k, g)
            /\ Outbox(k, g)' = Outbox(k, g)
            /\ d2h'[k][g] = d2h[k][g] /\ inbox'[k][g].st = inbox[k][g].st => CopiesOK(k, g)'
  BY <1>1, MessageFrame
<1>17. CopiesOK(c, f)'
  <2>1. CopiesOK(c, f) /\ Adds' = Adds
    BY <1>1 DEF Inv, Adds
  <2> QED
    BY <1>1, <1>10, <2>1, Zenon DEF CopiesOK, CopyOut, CopyIn, Dst
<1>18. PipeOK(c, f)'
  <2>1. /\ SentOn(c, f) \in Int /\ PostedOn(c, f) \in Int
        /\ inbox[c][f] \in Inboxes /\ PipeOK(c, f) /\ CopiesOK(c, f)
    BY ChannelFacts
  <2>2. Outbox(c, f) = Version(f, SentOn(c, f))
    BY <1>1, <2>1 DEF CopiesOK, CopyOut, CopyIn
  <2>3. d2h[c][f] = TRUE
    BY <1>1, <1>9
  <2>4. Pipe(f, SentOn(c, f), PostedOn(c, f), TRUE, sending[c][f], host[c][f], net[c][f],
             inbox[c][f], guard[c][f])
    BY <2>1, <2>3 DEF PipeOK
  <2>5. Pipe(f, SentOn(c, f), PostedOn(c, f), FALSE, b, Outbox(c, f), m, inbox[c][f], guard[c][f])
    BY <1>2, <1>3, <1>4, <1>7, <2>1, <2>2, <2>4, PipeStart
  <2> QED
    BY <1>1, <1>10, <1>11, <1>12, <1>13, <1>16, <2>5, ZenonT(60) DEF PipeOK
<1>1a. inbox' = inbox /\ guard' = guard
  BY <1>1
<1>19. ASSUME NEW k \in Channels, NEW g \in Fields, k # c \/ g # f
       PROVE  PipeOK(k, g)' /\ CopiesOK(k, g)'
  <2>1. /\ d2h'[k][g] = d2h[k][g] /\ sending'[k][g] = sending[k][g] /\ host'[k][g] = host[k][g]
        /\ net'[k][g] = net[k][g] /\ inbox'[k][g] = inbox[k][g] /\ guard'[k][g] = guard[k][g]
    BY <1>10, <1>11, <1>12, <1>13, <1>1a, <1>19
  <2> QED
    BY <1>16, <2>1, PipeKept
<1> QED
  BY <1>14, <1>15, <1>16, <1>17, <1>18, <1>19 DEF Inv

(* MPI transfers the oldest message to the posted receive.                  *)
LEMMA TransferKeeps ==
  ASSUME Inv, NEW c \in Channels, NEW f \in Fields, Transfer(c, f)
  PROVE  Inv'
<1> DEFINE m == Head(net[c][f])
<1>1. /\ inbox[c][f].st = "posted" /\ net[c][f] # <<>>
      /\ inbox' = [inbox EXCEPT ![c][f] =
                     [st |-> "copying", data |-> IF m.protocol = "eager" THEN m.data ELSE host[c][f]]]
      /\ sending' = [sending EXCEPT ![c][f] = @ /\ m.protocol = "eager"]
      /\ net' = [net EXCEPT ![c][f] = Tail(@)]
      /\ UNCHANGED <<filtered, step, pc, exchange, border, guard, deposited, added, d2h, host, dev,
                     sendJ, insertJ>>
  BY DEF Transfer, mainVars, fieldVars, taskVars
<1>2. /\ net[c][f] \in Seq(Messages) /\ host[c][f] \in Int /\ sending[c][f] \in BOOLEAN
  BY ChannelFacts
<1>3. m \in Messages /\ Tail(net[c][f]) \in Seq(Messages)
  BY <1>1, <1>2
<1>4. PICK x : x = [st |-> "copying", data |-> IF m.protocol = "eager" THEN m.data ELSE host[c][f]]
  OBVIOUS
<1>5. x \in Inboxes /\ x.st = "copying"
      /\ x.data = (IF m.protocol = "eager" THEN m.data ELSE host[c][f])
  BY <1>2, <1>3, <1>4 DEF Inboxes, Messages
<1>6. PICK b \in BOOLEAN : b <=> sending[c][f] /\ m.protocol = "eager"
  OBVIOUS
<1>7. sending' = [sending EXCEPT ![c][f] = b]
  BY <1>1, <1>6
<1>8. /\ inbox \in [Channels -> [Fields -> Inboxes]]
      /\ sending \in [Channels -> [Fields -> BOOLEAN]] /\ net \in [Channels -> [Fields -> Seq(Messages)]]
  BY DEF Inv, Types, Inboxes
<1>9. inbox' = [inbox EXCEPT ![c][f] = x] /\ net' = [net EXCEPT ![c][f] = Tail(net[c][f])]
  BY <1>1, <1>4
<1>10. /\ inbox' \in [Channels -> [Fields -> Inboxes]] /\ inbox'[c][f] = x
       /\ \A k \in Channels, g \in Fields : k # c \/ g # f => inbox'[k][g] = inbox[k][g]
  BY <1>5, <1>8, <1>9, OneChannel
<1>11. /\ sending' \in [Channels -> [Fields -> BOOLEAN]] /\ sending'[c][f] = b
       /\ \A k \in Channels, g \in Fields : k # c \/ g # f => sending'[k][g] = sending[k][g]
  BY <1>7, <1>8, OneChannel
<1>12. /\ net' \in [Channels -> [Fields -> Seq(Messages)]] /\ net'[c][f] = Tail(net[c][f])
       /\ \A k \in Channels, g \in Fields : k # c \/ g # f => net'[k][g] = net[k][g]
  BY <1>3, <1>8, <1>9, OneChannel
<1>13. Types'
  BY <1>1, <1>10, <1>11, <1>12 DEF Inv, Types, Inboxes
<1>14. \A r \in Ranks : RankOK(r)'
  BY <1>1, RanksKept
<1>15. /\ \A k \in Channels : SendTaskOK(k)'
       /\ \A k \in Channels, g \in Fields :
            /\ SentOn(k, g)' = SentOn(k, g) /\ PostedOn(k, g)' = PostedOn(k, g)
            /\ Outbox(k, g)' = Outbox(k, g)
            /\ d2h'[k][g] = d2h[k][g] /\ inbox'[k][g].st = inbox[k][g].st => CopiesOK(k, g)'
  BY <1>1, MessageFrame
<1>16. CopiesOK(c, f)'
  <2>1. CopiesOK(c, f) /\ Adds' = Adds /\ Outbox(c, f)' = Outbox(c, f) /\ SentOn(c, f)' = SentOn(c, f)
    BY <1>1, <1>15 DEF Inv, Adds
  <2>2. inbox[c][f].st # "none"
    BY <1>1
  <2> QED
    BY <1>1, <2>1, <2>2, Zenon DEF CopiesOK, CopyOut, CopyIn, Dst
<1>1a. d2h' = d2h /\ host' = host /\ guard' = guard
  BY <1>1
<1>17. PipeOK(c, f)'
  <2>1. /\ SentOn(c, f) \in Int /\ PostedOn(c, f) \in Int /\ d2h[c][f] \in BOOLEAN
        /\ inbox[c][f] \in Inboxes /\ PipeOK(c, f)
    BY ChannelFacts
  <2>2. Pipe(f, SentOn(c, f), PostedOn(c, f), d2h[c][f], sending[c][f], host[c][f], net[c][f],
             inbox[c][f], guard[c][f])
    BY <2>1 DEF PipeOK
  <2>3. Pipe(f, SentOn(c, f), PostedOn(c, f), d2h[c][f], b, host[c][f], Tail(net[c][f]), x, guard[c][f])
    BY <1>1, <1>2, <1>5, <1>6, <2>1, <2>2, PipeTransfer
  <2> QED
    BY <1>1a, <1>10, <1>11, <1>12, <1>15, <2>3, Zenon DEF PipeOK
<1>18. ASSUME NEW k \in Channels, NEW g \in Fields, k # c \/ g # f
       PROVE  PipeOK(k, g)' /\ CopiesOK(k, g)'
  <2>1. /\ d2h'[k][g] = d2h[k][g] /\ sending'[k][g] = sending[k][g] /\ host'[k][g] = host[k][g]
        /\ net'[k][g] = net[k][g] /\ inbox'[k][g] = inbox[k][g] /\ guard'[k][g] = guard[k][g]
    BY <1>1, <1>10, <1>11, <1>12, <1>18
  <2> QED
    BY <1>15, <2>1, PipeKept
<1> QED
  BY <1>13, <1>14, <1>15, <1>16, <1>17, <1>18 DEF Inv

(* The copy of a message to the device has finished.                        *)
LEMMA CopyReceivedKeeps ==
  ASSUME Inv, NEW c \in Channels, NEW f \in Fields, CopyReceived(c, f)
  PROVE  Inv'
<1>1. /\ inbox[c][f].st = "copying"
      /\ inbox' = [inbox EXCEPT ![c][f].st = "none"]
      /\ guard' = IF f = "J" THEN guard ELSE [guard EXCEPT ![c][f] = inbox[c][f].data]
      /\ deposited' = IF f = "Jrecv" THEN [deposited EXCEPT ![Dst(c)] = 0] ELSE deposited
      /\ UNCHANGED <<filtered, step, pc, exchange, border, added, d2h, host, sending, net, dev,
                     sendJ, insertJ>>
  BY DEF CopyReceived, mainVars, sendVars, taskVars
<1>1a. UNCHANGED <<filtered, step, pc, exchange, border, added, d2h, host, sending, net, dev,
                   sendJ, insertJ>>
  BY <1>1
<1>2. inbox[c][f] \in Inboxes
  BY ChannelFacts
<1>3. PICK x : x = [inbox[c][f] EXCEPT !.st = "none"]
  OBVIOUS
<1>4. x \in Inboxes /\ x.st = "none" /\ x.data = inbox[c][f].data /\ x.data \in Int
  BY <1>2, <1>3 DEF Inboxes
<1>5. inbox' = [inbox EXCEPT ![c][f] = x]
  BY <1>1, <1>3
<1>6. inbox \in [Channels -> [Fields -> Inboxes]] /\ guard \in [Channels -> [Fields -> Int]]
      /\ deposited \in [Ranks -> Int]
  BY DEF Inv, Types, Inboxes
<1>7. /\ inbox' \in [Channels -> [Fields -> Inboxes]] /\ inbox'[c][f] = x
      /\ \A k \in Channels, g \in Fields : k # c \/ g # f => inbox'[k][g] = inbox[k][g]
  BY <1>4, <1>5, <1>6, OneChannel
<1>8. /\ guard' \in [Channels -> [Fields -> Int]] /\ (f # "J" => guard'[c][f] = inbox[c][f].data)
      /\ \A k \in Channels, g \in Fields : k # c \/ g # f => guard'[k][g] = guard[k][g]
  <2>1. CASE f = "J"
    BY <1>1, <1>6, <2>1
  <2>2. CASE f # "J"
    <3>1. guard' = [guard EXCEPT ![c][f] = x.data]
      BY <1>1, <1>4, <2>2
    <3>2. /\ guard' \in [Channels -> [Fields -> Int]] /\ guard'[c][f] = x.data
          /\ \A k \in Channels, g \in Fields : k # c \/ g # f => guard'[k][g] = guard[k][g]
      BY <1>4, <1>6, <3>1, OneChannel
    <3> QED
      BY <1>4, <3>2
  <2> QED
    BY <2>1, <2>2
<1>9. deposited' \in [Ranks -> Int]
  <2>1. deposited' = [deposited EXCEPT ![Dst(c)] = 0] \/ deposited' = deposited
    BY <1>1
  <2> QED
    BY <1>6, <2>1
<1>10. Types'
  BY <1>1a, <1>7, <1>8, <1>9 DEF Inv, Types, Inboxes
<1>11. Adds' = Adds
  BY <1>1a DEF Adds
<1>12. CopiesOK(c, f) /\ PipeOK(c, f)
  BY DEF Inv
<1>13. ASSUME NEW r \in Ranks PROVE RankOK(r)'
  <2>1. RankOK(r)
    BY DEF Inv
  <2>2. pc[r] \in 9 .. WaitJ(Adds) => deposited'[r] = deposited[r]
    <3>1. CASE f = "Jrecv" /\ r = Dst(c)
      <4>1. Open("Jrecv", Adds, pc[r])
        BY <1>1, <1>12, <3>1 DEF CopiesOK, CopyOut, CopyIn
      <4>2. Adds \in {12, 13} /\ pc[r] \in 1 .. Adds + 7
        BY RankFacts
      <4> QED
        BY <4>1, <4>2 DEF Open, WaitJ
    <3>2. CASE ~(f = "Jrecv" /\ r = Dst(c))
      BY <1>1, <1>6, <3>2
    <3> QED
      BY <3>1, <3>2
  <2> QED
    BY <1>1a, <1>11, <2>1, <2>2, Zenon DEF RankOK, ChannelIn, Neighbour
<1>14. /\ \A k \in Channels : SendTaskOK(k)'
       /\ \A k \in Channels, g \in Fields :
            /\ SentOn(k, g)' = SentOn(k, g) /\ PostedOn(k, g)' = PostedOn(k, g)
            /\ Outbox(k, g)' = Outbox(k, g)
            /\ d2h'[k][g] = d2h[k][g] /\ inbox'[k][g].st = inbox[k][g].st => CopiesOK(k, g)'
  BY <1>1a, MessageFrame
<1>15. CopiesOK(c, f)'
  <2>1. Outbox(c, f)' = Outbox(c, f) /\ SentOn(c, f)' = SentOn(c, f)
    BY <1>14
  <2> QED
    BY <1>1a, <1>4, <1>7, <1>11, <1>12, <2>1, Zenon DEF CopiesOK, CopyOut, CopyIn, Dst
<1>16. PipeOK(c, f)'
  <2>1. /\ SentOn(c, f) \in Int /\ PostedOn(c, f) \in Int /\ d2h[c][f] \in BOOLEAN
        /\ net[c][f] \in Seq(Messages)
    BY ChannelFacts
  <2>2. Pipe(f, SentOn(c, f), PostedOn(c, f), d2h[c][f], sending[c][f], host[c][f], net[c][f],
             inbox[c][f], guard[c][f])
    BY <1>12 DEF PipeOK
  <2>3. PICK g2 : g2 = guard'[c][f]
    OBVIOUS
  <2>4. Pipe(f, SentOn(c, f), PostedOn(c, f), d2h[c][f], sending[c][f], host[c][f], net[c][f], x, g2)
    BY <1>1, <1>2, <1>4, <1>8, <2>1, <2>2, <2>3, PipeCopied
  <2> QED
    BY <1>1a, <1>7, <1>14, <2>3, <2>4, Zenon DEF PipeOK
<1>17. ASSUME NEW k \in Channels, NEW g \in Fields, k # c \/ g # f
       PROVE  PipeOK(k, g)' /\ CopiesOK(k, g)'
  <2>1. /\ d2h'[k][g] = d2h[k][g] /\ sending'[k][g] = sending[k][g] /\ host'[k][g] = host[k][g]
        /\ net'[k][g] = net[k][g] /\ inbox'[k][g] = inbox[k][g] /\ guard'[k][g] = guard[k][g]
    BY <1>1a, <1>7, <1>8, <1>17
  <2> QED
    BY <1>14, <2>1, PipeKept
<1> QED
  BY <1>10, <1>13, <1>14, <1>15, <1>16, <1>17 DEF Inv

-----------------------------------------------------------------------------
(***************************************************************************)
(* The tasks that send the current.                                        *)
(***************************************************************************)
(* A step of one of them that begins no copy.                               *)
LEMMA TaskGoes ==
  ASSUME Inv, NEW c \in Channels,
         UNCHANGED <<filtered, step, pc, exchange, border, guard, deposited, added, d2h, host,
                     sending, net, inbox, insertJ>>,
         NEW t \in {"Bashed", "InitSend", "Finished"}, sendJ' = [sendJ EXCEPT ![c] = t],
         t = "Finished" => sendJ[c] = "WaitForSendEnd" /\ ~d2h[c]["J"],
         t # "Finished" => sendJ[c] \in {"WaitForBash", "Bashed"},
         dev' \in [Channels -> Int],
         \A k \in Channels : k # c => dev'[k] = dev[k],
         t # "Finished" => dev'[c] = step[c[1]] + 1
  PROVE  Inv'
<1>1. Adds' = Adds
  BY DEF Adds
<1>2. Types
  BY DEF Inv
<1>3. Types'
  BY <1>2 DEF Types
<1>4. \A r \in Ranks : RankOK(r)'
  BY RanksKept
<1>5. sendJ'[c] = t /\ \A k \in Channels : k # c => sendJ'[k] = sendJ[k]
  BY <1>2 DEF Types
<1>6. SendTaskOK(c) /\ c[1] \in Ranks /\ c[2] \in {"right", "left"}
  BY ChannelEnds DEF Inv
<1>7. SendTaskOK(c)'
  <2>1. t # "Finished" => pc[c[1]] \in 10 .. WaitJ(Adds)
    BY <1>6 DEF SendTaskOK
  <2>2. t # "WaitForSendEnd"
    OBVIOUS
  <2> QED
    BY <1>1, <1>5, <2>1, <2>2, Zenon DEF SendTaskOK
<1>8. \A k \in Channels : k # c => SendTaskOK(k)'
  <2>1. \A k \in Channels : SendTaskOK(k)
    BY DEF Inv
  <2> QED
    BY <1>1, <1>5, <2>1, Zenon DEF SendTaskOK
<1>9. /\ Adds \in {12, 13} /\ step[c[1]] \in Nat /\ pc[c[1]] \in 1 .. Adds + 7
      /\ exchange[c[1]] \in 1 .. 4
  BY <1>6, RankFacts
<1>10. ASSUME NEW k \in Channels, NEW f \in Fields PROVE SentOn(k, f)' = SentOn(k, f)
  <2>1. CASE k # c
    BY <1>1, <1>5, <2>1, Zenon DEF SentOn
  <2>2. CASE k = c /\ f # "J"
    <3>1. Sent(f, Adds, step[c[1]], pc[c[1]], exchange[c[1]], c[2], t) = SentOn(c, f)
      <4>1. Sent(f, Adds, step[c[1]], pc[c[1]], exchange[c[1]], c[2], t)
              = Sent(f, Adds, step[c[1]], pc[c[1]], exchange[c[1]], c[2], sendJ[c])
        BY <2>2 DEF Sent
      <4> QED
        BY <4>1, Zenon DEF SentOn
    <3> QED
      BY <1>1, <1>5, <2>2, <3>1, Zenon DEF SentOn
  <2>3. CASE k = c /\ f = "J"
    <3>1. sendJ[c] # "Finished" /\ pc[c[1]] > 9
      <4>1. sendJ[c] # "Finished"
        OBVIOUS
      <4>2. pc[c[1]] \in 10 .. WaitJ(Adds)
        BY <1>6, <4>1 DEF SendTaskOK
      <4> QED
        BY <1>9, <4>1, <4>2 DEF WaitJ
    <3>2. Sent("J", Adds, step[c[1]], pc[c[1]], exchange[c[1]], c[2], t)
            = Sent("J", Adds, step[c[1]], pc[c[1]], exchange[c[1]], c[2], sendJ[c])
      BY <3>1 DEF Sent, One
    <3> QED
      BY <1>1, <1>5, <2>3, <3>2, Zenon DEF SentOn
  <2> QED
    BY <2>1, <2>2, <2>3
<1>11. ASSUME NEW k \in Channels, NEW f \in Fields PROVE PostedOn(k, f)' = PostedOn(k, f)
  BY <1>1, Zenon DEF PostedOn, Dst, Neighbour
<1>12. ASSUME NEW k \in Channels, NEW f \in Fields PROVE PipeOK(k, f)'
  BY <1>10, <1>11, PipeKept
<1>13. ASSUME NEW k \in Channels, NEW f \in Fields PROVE CopiesOK(k, f)'
  <2>1. CopiesOK(k, f)
    BY DEF Inv
  <2>2. ~(k = c /\ f = "J" /\ d2h[k][f])
    <3>1. sendJ[c] = "WaitForSendEnd" => ~d2h[c]["J"]
      OBVIOUS
    <3> QED
      BY <2>1, <3>1 DEF CopiesOK, CopyOut, CopyIn
  <2>3. d2h[k][f] => Outbox(k, f)' = Outbox(k, f) /\ (f = "J" => sendJ'[k] = sendJ[k])
    BY <1>5, <2>2 DEF Outbox
  <2> QED
    BY <1>1, <1>10, <2>1, <2>3, Zenon DEF CopiesOK, CopyOut, CopyIn, Dst, Neighbour
<1> QED
  BY <1>3, <1>4, <1>7, <1>8, <1>12, <1>13 DEF Inv

(* The device has run KernelBashCurrent.                                    *)
LEMMA BashFieldKeeps ==
  ASSUME Inv, NEW c \in Channels, BashField(c)
  PROVE  Inv'
<1>1. /\ sendJ[c] = "WaitForBash" /\ dev' = [dev EXCEPT ![c] = deposited[c[1]]]
      /\ sendJ' = [sendJ EXCEPT ![c] = "Bashed"]
      /\ UNCHANGED <<filtered, step, pc, exchange, border, guard, deposited, added, d2h, host,
                     sending, net, inbox, insertJ>>
  BY DEF BashField, mainVars, fieldVars, sendVars
<1>2. c[1] \in Ranks
  BY ChannelEnds
<1>3. dev \in [Channels -> Int] /\ deposited[c[1]] \in Int /\ SendTaskOK(c) /\ RankOK(c[1])
  BY <1>2 DEF Inv, Types
<1>4. pc[c[1]] \in 10 .. WaitJ(Adds)
  BY <1>1, <1>3 DEF SendTaskOK
<1>5. Adds \in {12, 13}
  BY <1>2, RankFacts
<1>6. deposited[c[1]] = step[c[1]] + 1
  BY <1>3, <1>4, <1>5 DEF RankOK, WaitJ
<1>7. dev' \in [Channels -> Int] /\ dev'[c] = step[c[1]] + 1 /\ \A k \in Channels : k # c => dev'[k] = dev[k]
  BY <1>1, <1>3, <1>6
<1> QED
  BY <1>1, <1>7, TaskGoes

(* The task of the send finds the bash finished.                            *)
LEMMA InitSendKeeps ==
  ASSUME Inv, NEW c \in Channels, InitSend(c)
  PROVE  Inv'
<1>1. /\ sendJ[c] = "Bashed" /\ sendJ' = [sendJ EXCEPT ![c] = "InitSend"] /\ dev' = dev
      /\ UNCHANGED <<filtered, step, pc, exchange, border, guard, deposited, added, d2h, host,
                     sending, net, inbox, insertJ>>
  BY DEF InitSend, mainVars, fieldVars, sendVars
<1>2. dev \in [Channels -> Int] /\ SendTaskOK(c)
  BY DEF Inv, Types
<1>3. dev[c] = step[c[1]] + 1
  BY <1>1, <1>2 DEF SendTaskOK
<1> QED
  BY <1>1, <1>2, <1>3, TaskGoes

(* The task of the send finds the copy finished.                            *)
LEMMA SendEndKeeps ==
  ASSUME Inv, NEW c \in Channels, SendEnd(c)
  PROVE  Inv'
<1>1. /\ sendJ[c] = "WaitForSendEnd" /\ ~d2h[c]["J"]
      /\ sendJ' = [sendJ EXCEPT ![c] = "Finished"] /\ dev' = dev
      /\ UNCHANGED <<filtered, step, pc, exchange, border, guard, deposited, added, d2h, host,
                     sending, net, inbox, insertJ>>
  BY DEF SendEnd, mainVars, fieldVars, sendVars
<1>2. dev \in [Channels -> Int]
  BY DEF Inv, Types
<1> QED
  BY <1>1, <1>2, TaskGoes

(* A copy to a send buffer is begun.                                        *)
LEMMA CopyBegins ==
  ASSUME Types, NEW c \in Channels, NEW f \in Fields
  PROVE  d2h' = [d2h EXCEPT ![c][f] = TRUE] =>
           /\ d2h' \in [Channels -> [Fields -> BOOLEAN]] /\ d2h'[c][f] = TRUE
           /\ \A k \in Channels, g \in Fields : k # c \/ g # f => d2h'[k][g] = d2h[k][g]
<1>0. SUFFICES ASSUME d2h' = [d2h EXCEPT ![c][f] = TRUE]
      PROVE  /\ d2h' \in [Channels -> [Fields -> BOOLEAN]] /\ d2h'[c][f] = TRUE
             /\ \A k \in Channels, g \in Fields : k # c \/ g # f => d2h'[k][g] = d2h[k][g]
  BY Zenon
<1>1. d2h \in [Channels -> [Fields -> BOOLEAN]]
  BY DEF Types
<1>2. PICK v \in BOOLEAN : v = TRUE /\ d2h' = [d2h EXCEPT ![c][f] = v]
  BY <1>0, <1>1, FlagRaised, Zenon
<1>3. d2h' = [d2h EXCEPT ![c][f] = v]
  BY <1>2
<1>4. /\ d2h' \in [Channels -> [Fields -> BOOLEAN]] /\ d2h'[c][f] = v
      /\ \A k \in Channels, g \in Fields : k # c \/ g # f => d2h'[k][g] = d2h[k][g]
  BY <1>1, <1>3, OneChannel
<1> QED
  BY <1>2, <1>4, Zenon

(* The task of the send finds the buffer free: the copy is begun.           *)
LEMMA StartSendKeeps ==
  ASSUME Inv, NEW c \in Channels, StartSend(c)
  PROVE  Inv'
<1>1. /\ sendJ[c] = "InitSend" /\ ~d2h[c]["J"] /\ ~sending[c]["J"]
      /\ d2h' = [d2h EXCEPT ![c]["J"] = TRUE]
      /\ sendJ' = [sendJ EXCEPT ![c] = "WaitForSendEnd"]
      /\ UNCHANGED <<filtered, step, pc, exchange, border, guard, deposited, added, host,
                     sending, net, inbox, dev, insertJ>>
  BY DEF StartSend, SendFree, mainVars, fieldVars
<1>1a. UNCHANGED <<filtered, step, pc, exchange, border, guard, deposited, added, host,
                   sending, net, inbox, dev, insertJ>>
  BY <1>1
<1>2. Adds' = Adds
  BY <1>1a DEF Adds
<1>3. Types /\ "J" \in Fields
  BY DEF Inv, Fields
<1>4. /\ d2h' \in [Channels -> [Fields -> BOOLEAN]] /\ d2h'[c]["J"] = TRUE
      /\ \A k \in Channels, g \in Fields : k # c \/ g # "J" => d2h'[k][g] = d2h[k][g]
  BY <1>1, <1>3, CopyBegins, Zenon
<1>5. sendJ' \in [Channels -> {"WaitForBash", "Bashed", "InitSend", "WaitForSendEnd", "Finished"}]
      /\ sendJ'[c] = "WaitForSendEnd" /\ \A k \in Channels : k # c => sendJ'[k] = sendJ[k]
  BY <1>1, <1>3 DEF Types
<1>6. Types'
  BY <1>1a, <1>3, <1>4, <1>5 DEF Types
<1>7. \A r \in Ranks : RankOK(r)'
  BY <1>1a, RanksKept
<1>8. c[1] \in Ranks /\ c[2] \in {"right", "left"} /\ SendTaskOK(c)
  BY ChannelEnds DEF Inv
<1>9. /\ Adds \in {12, 13} /\ step[c[1]] \in Nat /\ pc[c[1]] \in 1 .. Adds + 7
      /\ exchange[c[1]] \in 1 .. 4
  BY <1>8, RankFacts
<1>10. pc[c[1]] \in 10 .. WaitJ(Adds) /\ dev[c] = step[c[1]] + 1
  BY <1>1, <1>8 DEF SendTaskOK
<1>11. SendTaskOK(c)'
  BY <1>1a, <1>2, <1>5, <1>10, Zenon DEF SendTaskOK
<1>12. \A k \in Channels : k # c => SendTaskOK(k)'
  <2>1. \A k \in Channels : SendTaskOK(k)
    BY DEF Inv
  <2> QED
    BY <1>1a, <1>2, <1>5, <2>1, Zenon DEF SendTaskOK
<1>13. SentOn(c, "J")' = step[c[1]] + 1 /\ SentOn(c, "J") = step[c[1]]
  <2>1. pc[c[1]] > 9
    BY <1>9, <1>10 DEF WaitJ
  <2>2. Sent("J", Adds, step[c[1]], pc[c[1]], exchange[c[1]], c[2], "WaitForSendEnd") = step[c[1]] + 1
    BY <2>1 DEF Sent, One
  <2>3. Sent("J", Adds, step[c[1]], pc[c[1]], exchange[c[1]], c[2], "InitSend") = step[c[1]]
    BY <1>9 DEF Sent, One
  <2> QED
    BY <1>1, <1>1a, <1>2, <1>5, <2>2, <2>3, Zenon DEF SentOn
<1>14. ASSUME NEW k \in Channels, NEW f \in Fields, k # c \/ f # "J"
       PROVE  SentOn(k, f)' = SentOn(k, f)
  <2>1. CASE k # c
    BY <1>1a, <1>2, <1>5, <2>1, Zenon DEF SentOn
  <2>2. CASE k = c /\ f # "J"
    <3>1. Sent(f, Adds, step[c[1]], pc[c[1]], exchange[c[1]], c[2], "WaitForSendEnd")
            = Sent(f, Adds, step[c[1]], pc[c[1]], exchange[c[1]], c[2], sendJ[c])
      BY <2>2 DEF Sent
    <3> QED
      BY <1>1a, <1>2, <1>5, <2>2, <3>1, Zenon DEF SentOn
  <2> QED
    BY <1>14, <2>1, <2>2
<1>15. ASSUME NEW k \in Channels, NEW f \in Fields PROVE PostedOn(k, f)' = PostedOn(k, f)
  BY <1>1a, <1>2, Zenon DEF PostedOn, Dst, Neighbour
<1>16. PipeOK(c, "J")'
  <2>1. /\ SentOn(c, "J") \in Int /\ PostedOn(c, "J") \in Int
        /\ net[c]["J"] \in Seq(Messages) /\ inbox[c]["J"] \in Inboxes /\ PipeOK(c, "J")
        /\ d2h[c]["J"] \in BOOLEAN
    BY <1>3, ChannelFacts
  <2>2. d2h[c]["J"] = FALSE
    BY <1>1, <2>1
  <2>3. Pipe("J", SentOn(c, "J"), PostedOn(c, "J"), FALSE, sending[c]["J"], host[c]["J"],
             net[c]["J"], inbox[c]["J"], guard[c]["J"])
    BY <2>1, <2>2 DEF PipeOK
  <2>4. Pipe("J", SentOn(c, "J") + 1, PostedOn(c, "J"), TRUE, sending[c]["J"], host[c]["J"],
             net[c]["J"], inbox[c]["J"], guard[c]["J"])
    BY <1>1, <2>1, <2>3, PipeSend
  <2> QED
    BY <1>1a, <1>3, <1>4, <1>13, <1>15, <2>4, Zenon DEF PipeOK
<1>17. CopiesOK(c, "J")'
  <2>1. CopiesOK(c, "J")
    BY <1>3 DEF Inv
  <2>2. Open("J", Adds, pc[c[1]])
    BY <1>9, <1>10 DEF Open, WaitJ
  <2>3. Outbox(c, "J")' = Version("J", step[c[1]] + 1)
    BY <1>1a, <1>10 DEF Outbox, Version
  <2> QED
    BY <1>1a, <1>2, <1>5, <1>13, <2>1, <2>2, <2>3, Zenon DEF CopiesOK, CopyOut, CopyIn, Dst, Neighbour
<1>18. ASSUME NEW k \in Channels, NEW f \in Fields, k # c \/ f # "J"
       PROVE  PipeOK(k, f)' /\ CopiesOK(k, f)'
  <2>1. CopiesOK(k, f) /\ d2h'[k][f] = d2h[k][f] /\ SentOn(k, f)' = SentOn(k, f)
    BY <1>4, <1>14, <1>18 DEF Inv
  <2>2. PipeOK(k, f)'
    BY <1>1a, <1>15, <2>1, PipeKept
  <2>3. f = "J" => sendJ'[k] = sendJ[k]
    BY <1>5, <1>18
  <2>4. Outbox(k, f)' = Outbox(k, f)
    BY <1>1a DEF Outbox
  <2> QED
    BY <1>1a, <1>2, <2>1, <2>2, <2>3, <2>4, Zenon DEF CopiesOK, CopyOut, CopyIn, Dst, Neighbour
<1> QED
  BY <1>6, <1>7, <1>11, <1>12, <1>16, <1>17, <1>18 DEF Inv

-----------------------------------------------------------------------------
(***************************************************************************)
(* What the invariant says of a rank, of values instead of variables: the  *)
(* border b, the step dep of the current in the guards, the inserting task *)
(* t and what was added, x from the right and y from the left.             *)
(***************************************************************************)
RankAt(o, s, p, e, b, dep, t, x, y) ==
  /\ PlaceOK(o, s, p, e)
  /\ BorderOK(o, s, p, e, t.next, b)
  /\ p \in 9 .. WaitJ(o) => dep = s + 1
  /\ InsertTaskOK(o, p, e, t)
  /\ AddedOK(o, s, p, e, t.next, 1, x)
  /\ AddedOK(o, s, p, e, t.next, 2, y)

InsertTasks == [pc : {"Finished", "WaitForReceived", "WaitInsertFinished"}, next : 1 .. 3]

(* RankOK says that of the variables.                                       *)
LEMMA RankAtState ==
  ASSUME NEW r \in Ranks
  PROVE  RankOK(r) <=> RankAt(Adds, step[r], pc[r], exchange[r], border[r], deposited[r], insertJ[r],
                              added[r][ChannelIn(r, "right")], added[r][ChannelIn(r, "left")])
<1>1. Directions[1] = "right" /\ Directions[2] = "left"
  BY DEF Directions
<1>2. \A i : i \in 1 .. 2 <=> i = 1 \/ i = 2
  OBVIOUS
<1> QED
  BY <1>1, <1>2, Zenon DEF RankOK, RankAt

(* No exchange is at the places of the kernels.                             *)
LEMMA NoComm ==
  ASSUME NEW o \in {12, 13}, NEW p \in 1 .. o + 7,
         p \in {1, 2, 4, 5, 6, 7, 8, o, o + 2, o + 3, o + 4, o + 6, o + 7} \/ (o = 12 /\ p \in {10, 11})
           \/ (o = 13 /\ p \in {10, 12})
  PROVE  \A f \in Fields : ~AtComm(f, o, p)
BY DEF AtComm, Fields

(* The borders a kernel writes at a place, and what it makes of them.       *)
WritesAt(o, p, W) ==
  \/ p = 1 /\ W = {}
  \/ (p = 2 \/ p = o + 4) /\ W = {"B"}
  \/ (p = 6 \/ p = o) /\ W = {"E"}

Written(b, W, b2) == \A f \in Fields : b2[f] = b[f] + (IF f \in W THEN 1 ELSE 0)

(* A kernel.                                                                *)
LEMMA RankKernel ==
  ASSUME NEW o \in {12, 13}, NEW s \in Nat, NEW p \in 1 .. o + 6, NEW e \in 1 .. 4,
         NEW b \in [Fields -> Int], NEW dep, NEW t \in InsertTasks, NEW x, NEW y,
         RankAt(o, s, p, e, b, dep, t, x, y), NEW W, WritesAt(o, p, W),
         NEW b2, Written(b, W, b2),
         NEW p2, After(p, p2)
  PROVE  e = 1 /\ RankAt(o, s, p2, e, b2, dep, t, x, y)
<1>0. p \in {1, 2, 6, o, o + 4}
  BY DEF WritesAt
<1>1. e = 1
  BY <1>0, NoComm DEF RankAt, PlaceOK
<1>2. /\ b2["B"] = b["B"] + (IF p = 2 \/ p = o + 4 THEN 1 ELSE 0)
      /\ b2["E"] = b["E"] + (IF p = 6 \/ p = o THEN 1 ELSE 0)
      /\ b2["Jrecv"] = b["Jrecv"]
  BY DEF Fields, WritesAt, Written
<1>3. PlaceOK(o, s, p + 1, e)
  BY <1>0, <1>1 DEF PlaceOK
<1>4. ~InsertOpen(o, p, e) /\ ~InsertOpen(o, p + 1, e) /\ p + 1 \notin 9 .. WaitJ(o)
      /\ (p >= 8 <=> p + 1 >= 8) /\ (p > WaitJ(o) <=> p + 1 > WaitJ(o)) /\ p # 8 /\ p # 9
  BY <1>0, <1>1 DEF InsertOpen, WaitJ
<1>5. Inserted(o, p + 1, e, t.next) = Inserted(o, p, e, t.next)
  BY <1>4 DEF Inserted
<1>6. BorderOK(o, s, p + 1, e, t.next, b2)
  <2>1. BorderOK(o, s, p, e, t.next, b) /\ Inserted(o, p, e, t.next) \in Int
    BY <1>4 DEF RankAt, Inserted
  <2>2. b2["B"] = 2 * s + One(p + 1 > 2) + One(p + 1 > o + 4)
    BY <1>0, <1>2, <2>1 DEF BorderOK, One
  <2>3. b2["E"] = 2 * s + One(p + 1 > 6) + One(p + 1 > o)
    BY <1>0, <1>2, <2>1 DEF BorderOK, One
  <2>4. b2["Jrecv"] = 3 * s + One(p + 1 > 8) + Inserted(o, p + 1, e, t.next)
    BY <1>2, <1>4, <1>5, <2>1 DEF BorderOK, One
  <2> QED
    BY <2>2, <2>3, <2>4 DEF BorderOK
<1>7. InsertTaskOK(o, p + 1, e, t)
  <2>1. InsertTaskOK(o, p, e, t)
    BY DEF RankAt
  <2>2. p + 1 # 9
    BY <1>4
  <2> QED
    BY <1>4, <2>1, <2>2, Zenon DEF InsertTaskOK
<1>8. AddedOK(o, s, p + 1, e, t.next, 1, x) /\ AddedOK(o, s, p + 1, e, t.next, 2, y)
  <2>1. AddedOK(o, s, p, e, t.next, 1, x) /\ AddedOK(o, s, p, e, t.next, 2, y)
    BY DEF RankAt
  <2> QED
    BY <1>4, <1>5, <2>1, Zenon DEF AddedOK
<1> QED
  BY <1>1, <1>3, <1>4, <1>6, <1>7, <1>8 DEF RankAt, After

(* A kernel for CORE, or a wait that ends.                                  *)
PassAt(o, p, t) ==
  \/ p \in {4, 5, o + 2, o + 3, o + 6} \/ (o = 12 /\ p = 10) \/ (o = 13 /\ p = 12)
  \/ p = WaitJ(o) /\ t.pc = "Finished"

(* The rank goes on from there.                                             *)
LEMMA RankPasses ==
  ASSUME NEW o \in {12, 13}, NEW s \in Nat, NEW p \in 1 .. o + 6, NEW e \in 1 .. 4,
         NEW b, NEW dep, NEW t \in InsertTasks, NEW x, NEW y,
         RankAt(o, s, p, e, b, dep, t, x, y),
         PassAt(o, p, t), NEW p2, After(p, p2)
  PROVE  e = 1 /\ RankAt(o, s, p2, e, b, dep, t, x, y)
<1>0. p \in {4, 5, o + 2, o + 3, o + 6} \/ (o = 12 /\ p \in {10, 11}) \/ (o = 13 /\ p \in {10, 12})
  BY DEF PassAt, WaitJ
<1>1. e = 1
  <2>1. \A f \in Fields : ~AtComm(f, o, p)
    BY <1>0, NoComm
  <2> QED
    BY <2>1 DEF RankAt, PlaceOK
<1>2. PlaceOK(o, s, p + 1, e)
  BY <1>0, <1>1 DEF PlaceOK
<1>3. InsertTaskOK(o, p, e, t) /\ t.next \in 1 .. 3
  BY DEF RankAt, InsertTasks
<1>4. Inserted(o, p + 1, e, t.next) = Inserted(o, p, e, t.next)
  BY <1>0, <1>1, <1>3 DEF Inserted, InsertOpen, WaitJ, InsertTaskOK, PassAt
<1>5. BorderOK(o, s, p + 1, e, t.next, b)
  <2>1. BorderOK(o, s, p, e, t.next, b)
    BY DEF RankAt
  <2> QED
    BY <1>0, <1>4, <2>1 DEF BorderOK, One
<1>6. InsertTaskOK(o, p + 1, e, t)
  BY <1>0, <1>1, <1>3 DEF InsertTaskOK, InsertOpen, WaitJ, PassAt
<1>7. AddedOK(o, s, p + 1, e, t.next, 1, x) /\ AddedOK(o, s, p + 1, e, t.next, 2, y)
  <2>1. AddedOK(o, s, p, e, t.next, 1, x) /\ AddedOK(o, s, p, e, t.next, 2, y)
    BY DEF RankAt
  <2>2. p + 1 >= 8 => p >= 8
    BY <1>0
  <2> QED
    BY <1>4, <2>1, <2>2, Zenon DEF AddedOK
<1>8. p + 1 \in 9 .. WaitJ(o) => dep = s + 1
  BY <1>0 DEF RankAt, WaitJ
<1> QED
  BY <1>1, <1>2, <1>5, <1>6, <1>7, <1>8 DEF RankAt, After

(* FieldJ::clear                                                            *)
LEMMA RankClears ==
  ASSUME NEW o \in {12, 13}, NEW s \in Nat, NEW e \in 1 .. 4,
         NEW b, NEW dep, NEW t \in InsertTasks, NEW x, NEW y,
         RankAt(o, s, 7, e, b, dep, t, x, y)
  PROVE  e = 1 /\ RankAt(o, s, 7 + 1, e, b, 0, t, <<>>, <<>>)
<1>1. e = 1
  BY NoComm DEF RankAt, PlaceOK
<1>2. PlaceOK(o, s, 8, e)
  BY <1>1 DEF PlaceOK
<1>3. Inserted(o, 8, e, t.next) = 0 /\ Inserted(o, 7, e, t.next) = 0
  BY DEF Inserted, InsertOpen, WaitJ
<1>4. BorderOK(o, s, 8, e, t.next, b)
  <2>1. BorderOK(o, s, 7, e, t.next, b)
    BY DEF RankAt
  <2> QED
    BY <1>3, <2>1 DEF BorderOK, One
<1>5. InsertTaskOK(o, 8, e, t)
  BY DEF RankAt, InsertTaskOK, InsertOpen, WaitJ
<1>6. AddedOK(o, s, 8, e, t.next, 1, <<>>) /\ AddedOK(o, s, 8, e, t.next, 2, <<>>)
  BY <1>3 DEF AddedOK
<1>7. 8 \notin 9 .. WaitJ(o) /\ 7 + 1 = 8
  OBVIOUS
<1> QED
  BY <1>1, <1>2, <1>4, <1>5, <1>6, <1>7 DEF RankAt

(* computeCurrent                                                           *)
LEMMA RankComputes ==
  ASSUME NEW o \in {12, 13}, NEW s \in Nat, NEW e \in 1 .. 4,
         NEW b \in [Fields -> Int], NEW dep, NEW t \in InsertTasks, NEW x, NEW y,
         RankAt(o, s, 8, e, b, dep, t, x, y), NEW b2, b2 = [b EXCEPT !["Jrecv"] = b["Jrecv"] + 1]
  PROVE  e = 1 /\ RankAt(o, s, 8 + 1, e, b2, s + 1, t, x, y)
<1>1. e = 1
  BY NoComm DEF RankAt, PlaceOK
<1>2. PlaceOK(o, s, 9, e)
  BY <1>1 DEF PlaceOK
<1>3. Inserted(o, 8, e, t.next) = 0 /\ Inserted(o, 9, e, t.next) = 0 /\ ~InsertOpen(o, 9, e)
      /\ ~InsertOpen(o, 8, e)
  BY <1>1 DEF Inserted, InsertOpen, WaitJ
<1>4. b2["B"] = b["B"] /\ b2["E"] = b["E"] /\ b2["Jrecv"] = b["Jrecv"] + 1
  BY DEF Fields
<1>5. BorderOK(o, s, 9, e, t.next, b2)
  <2>1. BorderOK(o, s, 8, e, t.next, b)
    BY DEF RankAt
  <2> QED
    BY <1>3, <1>4, <2>1 DEF BorderOK, One
<1>6. InsertTaskOK(o, 9, e, t)
  BY <1>1, <1>3 DEF RankAt, InsertTaskOK
<1>7. AddedOK(o, s, 9, e, t.next, 1, x) /\ AddedOK(o, s, 9, e, t.next, 2, y)
  <2>1. AddedOK(o, s, 8, e, t.next, 1, x) /\ AddedOK(o, s, 8, e, t.next, 2, y)
    BY DEF RankAt
  <2>2. 8 >= 8
    OBVIOUS
  <2> QED
    BY <1>3, <2>1, <2>2, Zenon DEF AddedOK
<1>8. 8 + 1 = 9
  OBVIOUS
<1> QED
  BY <1>1, <1>2, <1>5, <1>6, <1>7, <1>8 DEF RankAt

(* The end of a step.                                                       *)
LEMMA RankEnds ==
  ASSUME NEW o \in {12, 13}, NEW s \in Nat, NEW e \in 1 .. 4, NEW p, AtLast(o, p),
         NEW b, NEW dep, NEW t \in InsertTasks, NEW x, NEW y,
         RankAt(o, s, p, e, b, dep, t, x, y), NEW s2, After(s, s2)
  PROVE  e = 1 /\ RankAt(o, s2, 1, e, b, dep, t, x, y)
<1>0. p = o + 7 /\ s2 = s + 1
  BY DEF AtLast, After
<1>1. e = 1
  BY <1>0, NoComm DEF RankAt, PlaceOK
<1>2. PlaceOK(o, s2, 1, e)
  BY <1>1 DEF PlaceOK
<1>3. Inserted(o, p, e, t.next) = 2 /\ Inserted(o, 1, e, t.next) = 0
  BY <1>0 DEF Inserted, InsertOpen, WaitJ
<1>4. BorderOK(o, s2, 1, e, t.next, b)
  <2>1. BorderOK(o, s, p, e, t.next, b)
    BY DEF RankAt
  <2> QED
    BY <1>0, <1>3, <2>1 DEF BorderOK, One
<1>5. InsertTaskOK(o, 1, e, t)
  BY <1>0 DEF RankAt, InsertTaskOK, InsertOpen, WaitJ
<1>6. AddedOK(o, s2, 1, e, t.next, 1, x) /\ AddedOK(o, s2, 1, e, t.next, 2, y)
  BY DEF AddedOK
<1>7. 1 \notin 9 .. WaitJ(o)
  OBVIOUS
<1> QED
  BY <1>1, <1>2, <1>4, <1>5, <1>6, <1>7 DEF RankAt

(* A part of an exchange of another field than J.                           *)
LEMMA RankExchanges ==
  ASSUME NEW o \in {12, 13}, NEW s \in Nat, NEW p \in 1 .. o + 6, NEW e \in 1 .. 4,
         NEW b, NEW dep, NEW t \in InsertTasks, NEW x, NEW y,
         RankAt(o, s, p, e, b, dep, t, x, y), NEW f \in {"E", "B", "Jrecv"}, AtComm(f, o, p),
         NEW p2, NEW e2, GoesOn(p, e, 4, p2, e2)
  PROVE  RankAt(o, s, p2, e2, b, dep, t, x, y)
<1>1. p \in {3, o + 1, o + 5} \/ (o = 13 /\ p = 11)
  BY DEF AtComm
<1>2. p2 \in 1 .. o + 7 /\ e2 \in 1 .. 4 /\ p2 # 9 /\ p # 9 /\ (p2 = p \/ p2 = p + 1)
      /\ (p2 = p + 1 => e2 = 1)
  BY <1>1 DEF GoesOn
<1>3. PlaceOK(o, s, p2, e2)
  <2>1. p2 = p => ~(\A g \in Fields : ~AtComm(g, o, p2))
    BY DEF Fields
  <2>2. p2 # p => e2 = 1
    BY DEF GoesOn
  <2> QED
    BY <1>2, <2>1, <2>2 DEF PlaceOK
<1>4. ~InsertOpen(o, p, e) /\ ~InsertOpen(o, p2, e2) /\ p2 \notin 9 .. WaitJ(o)
      /\ (p >= 8 <=> p2 >= 8) /\ (p > WaitJ(o) <=> p2 > WaitJ(o))
  BY <1>1, <1>2 DEF InsertOpen, WaitJ
<1>5. Inserted(o, p2, e2, t.next) = Inserted(o, p, e, t.next)
  BY <1>4 DEF Inserted
<1>6. BorderOK(o, s, p2, e2, t.next, b)
  <2>1. BorderOK(o, s, p, e, t.next, b)
    BY DEF RankAt
  <2> QED
    BY <1>1, <1>2, <1>5, <2>1 DEF BorderOK, One
<1>7. InsertTaskOK(o, p2, e2, t)
  BY <1>2, <1>4 DEF RankAt, InsertTaskOK
<1>8. AddedOK(o, s, p2, e2, t.next, 1, x) /\ AddedOK(o, s, p2, e2, t.next, 2, y)
  <2>1. AddedOK(o, s, p, e, t.next, 1, x) /\ AddedOK(o, s, p, e, t.next, 2, y)
    BY DEF RankAt
  <2> QED
    BY <1>4, <1>5, <2>1, Zenon DEF AddedOK
<1> QED
  BY <1>3, <1>4, <1>6, <1>7, <1>8 DEF RankAt

(* FieldJ::asyncCommunication: a receive is posted.                         *)
LEMMA RankPostsJ ==
  ASSUME NEW o \in {12, 13}, NEW s \in Nat, NEW e \in {1, 2},
         NEW b, NEW dep, NEW t \in InsertTasks, NEW x, NEW y,
         RankAt(o, s, 9, e, b, dep, t, x, y), NEW t2, t2.pc = "WaitForReceived", t2.next = 1,
         NEW e2, After(e, e2)
  PROVE  RankAt(o, s, 9, e2, b, dep, t2, x, y)
<1>0. e2 = e + 1
  BY DEF After
<1>1. PlaceOK(o, s, 9, e + 1)
  BY DEF PlaceOK, AtComm, Fields
<1>2. Inserted(o, 9, e, t.next) = 0 /\ Inserted(o, 9, e + 1, t2.next) = 0
  <2>1. e = 2 => t.next = 1
    BY DEF RankAt, InsertTaskOK
  <2> QED
    BY <2>1 DEF Inserted, InsertOpen, WaitJ
<1>3. BorderOK(o, s, 9, e + 1, t2.next, b)
  <2>1. BorderOK(o, s, 9, e, t.next, b)
    BY DEF RankAt
  <2> QED
    BY <1>2, <2>1, Zenon DEF BorderOK
<1>4. InsertTaskOK(o, 9, e + 1, t2)
  BY DEF InsertTaskOK, InsertOpen
<1>5. AddedOK(o, s, 9, e + 1, t2.next, 1, x) /\ AddedOK(o, s, 9, e + 1, t2.next, 2, y)
  <2>1. AddedOK(o, s, 9, e, t.next, 1, x) /\ AddedOK(o, s, 9, e, t.next, 2, y)
    BY DEF RankAt
  <2> QED
    BY <1>2, <2>1, Zenon DEF AddedOK
<1>6. 9 \in 9 .. WaitJ(o) => dep = s + 1
  BY DEF RankAt
<1> QED
  BY <1>0, <1>1, <1>3, <1>4, <1>5, <1>6 DEF RankAt

(* The tasks of the sends are created.                                      *)
LEMMA RankSendsJ ==
  ASSUME NEW o \in {12, 13}, NEW s \in Nat,
         NEW b, NEW dep, NEW t \in InsertTasks, NEW x, NEW y,
         RankAt(o, s, 9, 3, b, dep, t, x, y)
  PROVE  RankAt(o, s, 10, 1, b, dep, t, x, y)
<1>1. PlaceOK(o, s, 10, 1)
  BY DEF PlaceOK
<1>2. InsertOpen(o, 9, 3) /\ InsertOpen(o, 10, 1) /\ 9 \in 9 .. WaitJ(o) /\ 10 # 9 /\ 3 # 2
  BY DEF InsertOpen, WaitJ
<1>3. Inserted(o, 10, 1, t.next) = Inserted(o, 9, 3, t.next)
  BY <1>2 DEF Inserted
<1>4. BorderOK(o, s, 10, 1, t.next, b)
  <2>1. BorderOK(o, s, 9, 3, t.next, b)
    BY DEF RankAt
  <2> QED
    BY <1>3, <2>1 DEF BorderOK, One
<1>5. InsertTaskOK(o, 10, 1, t)
  BY <1>2, Zenon DEF InsertTaskOK, RankAt
<1>6. AddedOK(o, s, 10, 1, t.next, 1, x) /\ AddedOK(o, s, 10, 1, t.next, 2, y)
  <2>1. AddedOK(o, s, 9, 3, t.next, 1, x) /\ AddedOK(o, s, 9, 3, t.next, 2, y)
    BY DEF RankAt
  <2>2. 9 >= 8
    OBVIOUS
  <2> QED
    BY <1>3, <2>1, <2>2, Zenon DEF AddedOK
<1>7. dep = s + 1
  BY <1>2, Zenon DEF RankAt
<1> QED
  BY <1>1, <1>4, <1>5, <1>6, <1>7 DEF RankAt

-----------------------------------------------------------------------------
(* TaskFieldReceiveAndInsert goes on, and has nothing more to insert.       *)
TaskGoesOn(p, e, t, t2) ==
  /\ t2.next = t.next
  /\ \/ t2.pc = "WaitInsertFinished" /\ ~(p = 9 /\ e <= 2)
     \/ t.pc = "WaitInsertFinished" /\ t2.pc = "Finished" /\ t.next > 2

(* Nothing changes in the border.                                           *)
LEMMA RankInsertGoes ==
  ASSUME NEW o \in {12, 13}, NEW s \in Nat, NEW p, NEW e,
         NEW b, NEW dep, NEW t \in InsertTasks, NEW x, NEW y,
         RankAt(o, s, p, e, b, dep, t, x, y), t.pc # "Finished", NEW t2, TaskGoesOn(p, e, t, t2)
  PROVE  RankAt(o, s, p, e, b, dep, t2, x, y)
<1>1. InsertTaskOK(o, p, e, t) /\ t.next \in 1 .. 3
  BY DEF RankAt, InsertTasks
<1>2. InsertOpen(o, p, e)
  BY <1>1 DEF InsertTaskOK
<1>3. ~(p = 9 /\ e = 2)
  BY <1>1 DEF InsertTaskOK, TaskGoesOn
<1>4. t2.pc = "Finished" => t2.next = 3
  BY <1>1 DEF TaskGoesOn
<1>5. InsertTaskOK(o, p, e, t2)
  BY <1>2, <1>3, <1>4 DEF InsertTaskOK, TaskGoesOn
<1>6. t.next = t2.next
  BY DEF TaskGoesOn
<1> QED
  BY <1>5, <1>6, Zenon DEF RankAt

(* KernelInsertCurrent of the first and of the second exchange.             *)
InsertsNext(s, n, x, y, x2, y2) ==
  \/ n = 1 /\ y2 = y /\ (x = <<>> => x2 = <<s + 1>>)
  \/ n = 2 /\ x2 = x /\ (y = <<>> => y2 = <<s + 1>>)

(* What has been added stays in step with the task.                         *)
LEMMA RankInserts ==
  ASSUME NEW o \in {12, 13}, NEW s \in Nat, NEW p, NEW e,
         NEW b \in [Fields -> Int], NEW dep, NEW t \in InsertTasks, NEW x, NEW y,
         RankAt(o, s, p, e, b, dep, t, x, y), t.pc = "WaitInsertFinished",
         NEW t2, t2.pc = "WaitInsertFinished", t2.next = t.next + 1,
         NEW b2, b2 = [b EXCEPT !["Jrecv"] = b["Jrecv"] + 1], NEW x2, NEW y2,
         InsertsNext(s, t.next, x, y, x2, y2)
  PROVE  RankAt(o, s, p, e, b2, dep, t2, x2, y2)
<1>1. InsertTaskOK(o, p, e, t) /\ t.next \in {1, 2}
  BY DEF RankAt, InsertsNext
<1>2. InsertOpen(o, p, e) /\ p >= 8
  <2>1. InsertOpen(o, p, e)
    BY <1>1 DEF InsertTaskOK
  <2> QED
    BY <2>1 DEF InsertOpen, WaitJ
<1>3. Inserted(o, p, e, t.next) = t.next - 1 /\ Inserted(o, p, e, t2.next) = t.next
  BY <1>1, <1>2 DEF Inserted
<1>4. b2["B"] = b["B"] /\ b2["E"] = b["E"] /\ b2["Jrecv"] = b["Jrecv"] + 1
  BY DEF Fields
<1>5. BorderOK(o, s, p, e, t2.next, b2)
  <2>1. BorderOK(o, s, p, e, t.next, b)
    BY DEF RankAt
  <2>2. b2["B"] = 2 * s + One(p > 2) + One(p > o + 4) /\ b2["E"] = 2 * s + One(p > 6) + One(p > o)
    BY <1>4, <2>1, Zenon DEF BorderOK
  <2>3. b2["Jrecv"] = 3 * s + One(p > 8) + Inserted(o, p, e, t2.next)
    <3>1. PICK k \in Int : k = One(p > 8)
      BY DEF One
    <3>2. b["Jrecv"] = 3 * s + k + (t.next - 1)
      BY <1>3, <2>1, <3>1 DEF BorderOK
    <3> QED
      BY <1>1, <1>3, <1>4, <3>1, <3>2
  <2> QED
    BY <2>2, <2>3 DEF BorderOK
<1>6. InsertTaskOK(o, p, e, t2)
  <2>1. ~(p = 9 /\ e = 2)
    BY <1>1 DEF InsertTaskOK
  <2> QED
    BY <1>2, <2>1, Zenon DEF InsertTaskOK
<1>7. /\ x = (IF t.next - 1 >= 1 THEN <<s + 1>> ELSE <<>>)
      /\ y = (IF t.next - 1 >= 2 THEN <<s + 1>> ELSE <<>>)
  BY <1>2, <1>3, Zenon DEF RankAt, AddedOK
<1>8. x2 = <<s + 1>> /\ y2 = (IF t.next >= 2 THEN <<s + 1>> ELSE <<>>)
  <2>1. CASE t.next = 1
    <3>1. x = <<>> /\ y = <<>>
      BY <1>7, <2>1
    <3>2. ~(1 >= 2) /\ 1 # 2
      OBVIOUS
    <3> QED
      BY <2>1, <3>1, <3>2, Zenon DEF InsertsNext
  <2>2. CASE t.next = 2
    <3>1. x = <<s + 1>> /\ y = <<>>
      BY <1>7, <2>2
    <3>2. 2 >= 2 /\ 2 # 1
      OBVIOUS
    <3> QED
      BY <2>2, <3>1, <3>2, Zenon DEF InsertsNext
  <2> QED
    BY <1>1, <2>1, <2>2
<1>9. AddedOK(o, s, p, e, t2.next, 1, x2) /\ AddedOK(o, s, p, e, t2.next, 2, y2)
  <2>1. t.next >= 1
    BY <1>1
  <2> QED
    BY <1>3, <1>8, <2>1, Zenon DEF AddedOK
<1> QED
  BY <1>5, <1>6, <1>9, Zenon DEF RankAt

-----------------------------------------------------------------------------
(***************************************************************************)
(* Steps of a rank.                                                        *)
(***************************************************************************)
OthersStay(r) ==
  /\ filtered' = filtered /\ dev' = dev
  /\ \A q \in Ranks : q # r =>
       /\ step'[q] = step[q] /\ pc'[q] = pc[q] /\ exchange'[q] = exchange[q]
       /\ border'[q] = border[q] /\ deposited'[q] = deposited[q] /\ added'[q] = added[q]
       /\ insertJ'[q] = insertJ[q]
  /\ \A c \in Channels : c[1] # r => sendJ'[c] = sendJ[c]

(* A step of rank r keeps what the invariant says of the others.            *)
LEMMA OtherRanks ==
  ASSUME Inv, NEW r \in Ranks, OthersStay(r)
  PROVE  /\ Adds' = Adds
         /\ \A q \in Ranks : q # r => RankOK(q)'
         /\ \A c \in Channels : c[1] # r => SendTaskOK(c)'
<1>1. Adds' = Adds
  BY DEF Adds, OthersStay
<1>2. ASSUME NEW q \in Ranks, q # r PROVE RankOK(q)'
  <2>1. RankOK(q)
    BY DEF Inv
  <2>2. /\ step'[q] = step[q] /\ pc'[q] = pc[q] /\ exchange'[q] = exchange[q]
        /\ border'[q] = border[q] /\ deposited'[q] = deposited[q] /\ added'[q] = added[q]
        /\ insertJ'[q] = insertJ[q]
    BY <1>2 DEF OthersStay
  <2> QED
    BY <1>1, <2>1, <2>2, Zenon DEF RankOK, ChannelIn, Neighbour
<1>3. ASSUME NEW c \in Channels, c[1] # r PROVE SendTaskOK(c)'
  <2>1. SendTaskOK(c) /\ c[1] \in Ranks
    BY ChannelEnds DEF Inv
  <2>2. /\ step'[c[1]] = step[c[1]] /\ pc'[c[1]] = pc[c[1]] /\ sendJ'[c] = sendJ[c] /\ dev' = dev
    BY <1>3, <2>1 DEF OthersStay
  <2> QED
    BY <1>1, <2>1, <2>2, Zenon DEF SendTaskOK
<1> QED
  BY <1>1, <1>2, <1>3

(* The sending end of a channel that a step of rank r leaves alone.         *)
LEMMA SendingKept ==
  ASSUME Inv, NEW r \in Ranks, OthersStay(r), NEW c \in Channels, NEW f \in Fields,
         d2h'[c][f] = d2h[c][f],
         c[1] = r => SentOn(c, f)' = SentOn(c, f),
         c[1] = r /\ d2h[c][f] => /\ Open(f, Adds, pc'[r]) /\ Outbox(c, f)' = Outbox(c, f)
                                  /\ f = "J" => sendJ'[c] = sendJ[c]
  PROVE  SentOn(c, f)' = SentOn(c, f) /\ CopyOut(c, f)'
<1>1. Adds' = Adds
  BY OtherRanks
<1>2. c[1] \in Ranks
  BY ChannelEnds
<1>3. c[1] # r => /\ step'[c[1]] = step[c[1]] /\ pc'[c[1]] = pc[c[1]]
                  /\ exchange'[c[1]] = exchange[c[1]] /\ border'[c[1]] = border[c[1]]
                  /\ sendJ'[c] = sendJ[c]
  BY <1>2 DEF OthersStay
<1>4. SentOn(c, f)' = SentOn(c, f)
  BY <1>1, <1>3, Zenon DEF SentOn
<1>5. CopyOut(c, f)
  BY DEF Inv, CopiesOK
<1>6. c[1] # r => Outbox(c, f)' = Outbox(c, f)
  BY <1>3, Zenon DEF Outbox, OthersStay
<1>7. d2h[c][f] => /\ Open(f, Adds, pc'[c[1]]) /\ Outbox(c, f)' = Version(f, SentOn(c, f))
                   /\ f = "J" => sendJ'[c] = "WaitForSendEnd"
  BY <1>3, <1>5, <1>6, Zenon DEF CopyOut
<1>8. CopyOut(c, f)'
  BY <1>1, <1>4, <1>7, Zenon DEF CopyOut
<1> QED
  BY <1>4, <1>8

(* The receiving end.                                                       *)
LEMMA ReceivingKept ==
  ASSUME Inv, NEW r \in Ranks, OthersStay(r), NEW c \in Channels, NEW f \in Fields,
         inbox'[c][f] = inbox[c][f],
         Dst(c) = r => PostedOn(c, f)' = PostedOn(c, f),
         Dst(c) = r /\ inbox[c][f].st # "none" =>
           Open(f, Adds, pc'[r]) /\ (f = "J" => insertJ'[r].pc = "WaitForReceived")
  PROVE  PostedOn(c, f)' = PostedOn(c, f) /\ CopyIn(c, f)'
<1>1. Adds' = Adds
  BY OtherRanks
<1>2. Dst(c) \in Ranks /\ Dst(c)' = Dst(c)
  BY ChannelEnds DEF Dst, Neighbour
<1>3. Dst(c) # r => /\ step'[Dst(c)] = step[Dst(c)] /\ pc'[Dst(c)] = pc[Dst(c)]
                    /\ exchange'[Dst(c)] = exchange[Dst(c)] /\ insertJ'[Dst(c)] = insertJ[Dst(c)]
  BY <1>2 DEF OthersStay
<1>4. PostedOn(c, f)' = PostedOn(c, f)
  <2>1. CASE Dst(c) = r
    BY <2>1
  <2>2. CASE Dst(c) # r
    BY <1>1, <1>2, <1>3, <2>2, Zenon DEF PostedOn
  <2> QED
    BY <2>1, <2>2
<1>5. CopyIn(c, f)
  BY DEF Inv, CopiesOK
<1>6. inbox[c][f].st # "none" =>
        /\ Open(f, Adds, pc'[Dst(c)])
        /\ f = "J" => insertJ'[Dst(c)].pc = "WaitForReceived"
  <2>1. CASE Dst(c) = r
    BY <2>1
  <2>2. CASE Dst(c) # r
    BY <1>3, <1>5, <2>2, Zenon DEF CopyIn
  <2> QED
    BY <2>1, <2>2
<1>7. CopyIn(c, f)'
  BY <1>1, <1>2, <1>6, Zenon DEF CopyIn
<1> QED
  BY <1>4, <1>7

(* Both ends.                                                               *)
LEMMA ChannelKept ==
  ASSUME Inv, NEW r \in Ranks, OthersStay(r), NEW c \in Channels, NEW f \in Fields,
         d2h'[c][f] = d2h[c][f], sending'[c][f] = sending[c][f], host'[c][f] = host[c][f],
         net'[c][f] = net[c][f], inbox'[c][f] = inbox[c][f], guard'[c][f] = guard[c][f],
         c[1] = r => SentOn(c, f)' = SentOn(c, f),
         c[1] = r /\ d2h[c][f] => /\ Open(f, Adds, pc'[r]) /\ Outbox(c, f)' = Outbox(c, f)
                                  /\ f = "J" => sendJ'[c] = sendJ[c],
         Dst(c) = r => PostedOn(c, f)' = PostedOn(c, f),
         Dst(c) = r /\ inbox[c][f].st # "none" =>
           Open(f, Adds, pc'[r]) /\ (f = "J" => insertJ'[r].pc = "WaitForReceived")
  PROVE  PipeOK(c, f)' /\ CopiesOK(c, f)'
<1>1. SentOn(c, f)' = SentOn(c, f) /\ CopyOut(c, f)'
  BY SendingKept
<1>2. PostedOn(c, f)' = PostedOn(c, f) /\ CopyIn(c, f)'
  BY ReceivingKept
<1>3. PipeOK(c, f)'
  BY <1>1, <1>2, PipeKept
<1> QED
  BY <1>1, <1>2, <1>3 DEF CopiesOK

(* QuietMove, for a rank and a channel.                                     *)
LEMMA QuietCounts ==
  ASSUME Inv, NEW r \in Ranks, pc[r] \in 1 .. Adds + 6, NEW c \in Channels, NEW f \in Fields,
         ~AtComm(f, Adds, pc[r])
  PROVE  SameCounts(f, Adds, c[2], sendJ[c], step[r], pc[r], 1, step[r], pc[r] + 1, 1)
<1>1. Adds \in {12, 13} /\ step[r] \in Nat /\ c[2] \in {"right", "left"}
  BY RankFacts, ChannelEnds
<1>2. PICK p2 : p2 = pc[r] + 1
  OBVIOUS
<1>3. SameCounts(f, Adds, c[2], sendJ[c], step[r], pc[r], 1, step[r], p2, 1)
  BY <1>1, <1>2, QuietMove
<1> QED
  BY <1>2, <1>3, Zenon

(* A rank goes to the next place, and no exchange of it goes on beyond.     *)
LEMMA QuietStep ==
  ASSUME Inv, NEW r \in Ranks, OthersStay(r), Types', RankOK(r)',
         UNCHANGED <<guard, d2h, host, sending, net, inbox, sendJ, insertJ>>,
         step'[r] = step[r], pc'[r] = pc[r] + 1, exchange'[r] = 1, exchange[r] = 1,
         Adds \in {12, 13}, pc[r] \in 1 .. Adds + 6,
         \A g \in Fields : ~AtComm(g, Adds, pc[r]),
         \A c \in Channels, f \in Fields : c[1] = r /\ d2h[c][f] =>
           Open(f, Adds, pc[r] + 1) /\ Outbox(c, f)' = Outbox(c, f),
         \A c \in Channels, f \in Fields : Dst(c) = r /\ inbox[c][f].st # "none" =>
           Open(f, Adds, pc[r] + 1),
         \A c \in Channels : c[1] = r /\ sendJ[c] # "Finished" => pc[r] + 1 \in 10 .. WaitJ(Adds)
  PROVE  Inv'
<1>1. /\ Adds' = Adds
      /\ \A q \in Ranks : q # r => RankOK(q)'
      /\ \A c \in Channels : c[1] # r => SendTaskOK(c)'
  BY OtherRanks
<1>2. ASSUME NEW c \in Channels, c[1] = r PROVE SendTaskOK(c)'
  <2>1. SendTaskOK(c)
    BY DEF Inv
  <2>2. dev' = dev /\ sendJ' = sendJ /\ pc'[c[1]] = pc[r] + 1 /\ step'[c[1]] = step[c[1]]
    BY <1>2 DEF OthersStay
  <2>3. sendJ[c] # "Finished" => pc[r] + 1 \in 10 .. WaitJ(Adds)
    BY <1>2
  <2> QED
    BY <1>1, <2>1, <2>2, <2>3, Zenon DEF SendTaskOK
<1>3. ASSUME NEW c \in Channels, NEW f \in Fields PROVE PipeOK(c, f)' /\ CopiesOK(c, f)'
  <2>1. c[2] \in {"right", "left"} /\ step[r] \in Nat /\ Dst(c)' = Dst(c)
    BY ChannelEnds, RankFacts DEF Dst, Neighbour
  <2>2. SameCounts(f, Adds, c[2], sendJ[c], step[r], pc[r], 1, step[r], pc[r] + 1, 1)
    BY QuietCounts, Zenon
  <2>3. c[1] = r => SentOn(c, f)' = SentOn(c, f)
    BY <1>1, <2>2, Zenon DEF SentOn, SameCounts
  <2>4. Dst(c) = r => PostedOn(c, f)' = PostedOn(c, f)
    BY <1>1, <2>1, <2>2, Zenon DEF PostedOn, SameCounts
  <2>5. c[1] = r /\ d2h[c][f] => /\ Open(f, Adds, pc'[r]) /\ Outbox(c, f)' = Outbox(c, f)
                                 /\ f = "J" => sendJ'[c] = sendJ[c]
    BY Zenon
  <2>6. Dst(c) = r /\ inbox[c][f].st # "none" =>
          Open(f, Adds, pc'[r]) /\ (f = "J" => insertJ'[r].pc = "WaitForReceived")
    <3>1. CopiesOK(c, f)
      BY DEF Inv
    <3>2. insertJ' = insertJ
      OBVIOUS
    <3> QED
      BY <3>1, <3>2, Zenon DEF CopiesOK, CopyOut, CopyIn
  <2> QED
    BY <2>3, <2>4, <2>5, <2>6, ChannelKept
<1> QED
  BY <1>1, <1>2, <1>3 DEF Inv

(* The host thread goes on to the next place.                               *)
LEMMA Advances ==
  ASSUME Types, NEW r \in Ranks, Advance(r)
  PROVE  /\ pc' \in [Ranks -> Nat] /\ pc'[r] = pc[r] + 1
         /\ \A q \in Ranks : q # r => pc'[q] = pc[q]
         /\ UNCHANGED <<filtered, step, exchange>>
BY DEF Advance, Types

(* Nothing is under way at a rank where no exchange goes on.                *)
LEMMA NoneOpen ==
  ASSUME Inv, NEW r \in Ranks, \A f \in Fields : ~Open(f, Adds, pc[r])
  PROVE  /\ \A c \in Channels, f \in Fields : c[1] = r => ~d2h[c][f]
         /\ \A c \in Channels, f \in Fields : Dst(c) = r => inbox[c][f].st = "none"
         /\ \A c \in Channels : c[1] = r => sendJ[c] = "Finished"
<1>1. \A c \in Channels, f \in Fields : CopyOut(c, f) /\ CopyIn(c, f)
  BY DEF Inv, CopiesOK
<1>2. \A c \in Channels, f \in Fields : c[1] = r => ~d2h[c][f]
  BY <1>1, Zenon DEF CopyOut
<1>3. \A c \in Channels, f \in Fields : Dst(c) = r => inbox[c][f].st = "none"
  BY <1>1, Zenon DEF CopyIn
<1>4. \A c \in Channels : SendTaskOK(c)
  BY DEF Inv
<1>5. "J" \in Fields
  BY DEF Fields
<1>6. pc[r] \notin 10 .. WaitJ(Adds)
  <2>1. Adds \in {12, 13} /\ pc[r] \in 1 .. Adds + 7
    BY RankFacts
  <2>2. pc[r] \notin 9 .. WaitJ(Adds)
    BY <1>5, Zenon DEF Open
  <2> QED
    BY <2>1, <2>2 DEF WaitJ
<1>7. \A c \in Channels : c[1] = r => sendJ[c] = "Finished"
  BY <1>4, <1>6, Zenon DEF SendTaskOK
<1> QED
  BY <1>2, <1>3, <1>7

(* A kernel for BORDER, or for both areas.                                  *)
LEMMA RunKernelKeeps ==
  ASSUME Inv, NEW r \in Ranks, RunKernel(r)
  PROVE  Inv'
<1>1. /\ Runs(r, "kernel") /\ Advance(r)
      /\ border' = [border EXCEPT ![r] =
           [f \in Fields |-> border[r][f] + (IF f \in Op(r).writes THEN 1 ELSE 0)]]
      /\ UNCHANGED <<guard, deposited, added, d2h, host, sending, net, inbox, dev, sendJ, insertJ>>
  BY DEF RunKernel, sendVars, taskVars
<1>1a. UNCHANGED <<guard, deposited, added, d2h, host, sending, net, inbox, dev, sendJ, insertJ>>
  BY <1>1
<1>2. Types
  BY DEF Inv
<1>3. /\ pc' \in [Ranks -> Nat] /\ pc'[r] = pc[r] + 1
      /\ \A q \in Ranks : q # r => pc'[q] = pc[q]
      /\ UNCHANGED <<filtered, step, exchange>>
  BY <1>1, <1>2, Advances
<1>4. /\ Adds \in {12, 13} /\ step[r] \in Nat /\ pc[r] \in 1 .. Adds + 6 /\ exchange[r] \in 1 .. 4
      /\ OpAt(Adds, pc[r], Op(r)) /\ Op(r).op = "kernel" /\ RankOK(r)
  BY <1>1, RunsAt
<1>5. PICK W : W = Op(r).writes
  OBVIOUS
<1>6. WritesAt(Adds, pc[r], W)
  BY <1>4, <1>5, Zenon DEF OpAt, WritesAt
<1>7. PICK b2 : b2 = [f \in Fields |-> border[r][f] + (IF f \in W THEN 1 ELSE 0)]
  OBVIOUS
<1>8. border[r] \in [Fields -> Int] /\ b2 \in [Fields -> Int] /\ insertJ[r] \in InsertTasks
      /\ Written(border[r], W, b2)
  BY <1>2, <1>7 DEF Types, InsertTasks, Written
<1>9. /\ border' \in [Ranks -> [Fields -> Int]] /\ border'[r] = b2
      /\ \A q \in Ranks : q # r => border'[q] = border[q]
  BY <1>1, <1>2, <1>5, <1>7, <1>8 DEF Types
<1>10. Types'
  BY <1>1a, <1>2, <1>3, <1>9 DEF Types
<1>11. OthersStay(r)
  BY <1>1a, <1>3, <1>9 DEF OthersStay
<1>12. Adds' = Adds
  BY <1>3 DEF Adds
<1>13. exchange[r] = 1 /\ RankOK(r)'
  <2>1. RankAt(Adds, step[r], pc[r], exchange[r], border[r], deposited[r], insertJ[r],
               added[r][ChannelIn(r, "right")], added[r][ChannelIn(r, "left")])
    BY <1>4, RankAtState
  <2>2. exchange[r] = 1
        /\ RankAt(Adds, step[r], pc[r] + 1, exchange[r], b2, deposited[r], insertJ[r],
                  added[r][ChannelIn(r, "right")], added[r][ChannelIn(r, "left")])
    <3>1. PICK p2 : p2 = pc[r] + 1
      OBVIOUS
    <3>1a. After(pc[r], p2)
      BY <3>1 DEF After
    <3>2. exchange[r] = 1
          /\ RankAt(Adds, step[r], p2, exchange[r], b2, deposited[r], insertJ[r],
                    added[r][ChannelIn(r, "right")], added[r][ChannelIn(r, "left")])
      BY <1>4, <1>6, <1>8, <2>1, <3>1a, RankKernel
    <3> QED
      BY <3>1, <3>2, Zenon
  <2>3. RankAt(Adds, step[r], pc[r], exchange[r], border[r], deposited[r], insertJ[r],
               added[r][ChannelIn(r, "right")], added[r][ChannelIn(r, "left")])'
    BY <1>1a, <1>3, <1>9, <1>12, <2>2, Zenon DEF ChannelIn, Neighbour
  <2> QED
    BY <2>2, <2>3, RankAtState, PTL
<1>14. pc[r] \in {1, 2, 6, Adds, Adds + 4}
  BY <1>6, Zenon DEF WritesAt
<1>15. \A g \in Fields : ~AtComm(g, Adds, pc[r])
  BY <1>4, <1>14, NoComm
<1>16. \A g \in Fields : ~Open(g, Adds, pc[r])
  BY <1>4, <1>14, OpenFields
<1>17. /\ \A c \in Channels, f \in Fields : c[1] = r => ~d2h[c][f]
       /\ \A c \in Channels, f \in Fields : Dst(c) = r => inbox[c][f].st = "none"
       /\ \A c \in Channels : c[1] = r => sendJ[c] = "Finished"
  BY <1>16, NoneOpen
<1> QED
  BY <1>1a, <1>3, <1>4, <1>10, <1>11, <1>13, <1>15, <1>17, QuietStep

(* A place at which the rank only goes on: nothing of it is under way.      *)
LEMMA IdleStep ==
  ASSUME Inv, NEW r \in Ranks, OthersStay(r), Types', RankOK(r)', Advance(r),
         UNCHANGED <<guard, d2h, host, sending, net, inbox, sendJ, insertJ>>,
         exchange[r] = 1, pc[r] \in {7, 8}
  PROVE  Inv'
<1>1. Types
  BY DEF Inv
<1>2. /\ pc'[r] = pc[r] + 1 /\ UNCHANGED <<filtered, step, exchange>>
  BY <1>1, Advances
<1>3. Adds \in {12, 13} /\ pc[r] \in 1 .. Adds + 6
  BY RankFacts
<1>4. \A g \in Fields : ~AtComm(g, Adds, pc[r])
  BY <1>3, NoComm
<1>5. \A g \in Fields : ~Open(g, Adds, pc[r])
  BY <1>3, OpenFields
<1>6. /\ \A c \in Channels, f \in Fields : c[1] = r => ~d2h[c][f]
      /\ \A c \in Channels, f \in Fields : Dst(c) = r => inbox[c][f].st = "none"
      /\ \A c \in Channels : c[1] = r => sendJ[c] = "Finished"
  BY <1>5, NoneOpen
<1> QED
  BY <1>2, <1>3, <1>4, <1>6, QuietStep

(* FieldJ::clear                                                            *)
LEMMA ClearKeeps ==
  ASSUME Inv, NEW r \in Ranks, Clear(r)
  PROVE  Inv'
<1>1. /\ Runs(r, "clear") /\ Advance(r)
      /\ deposited' = [deposited EXCEPT ![r] = 0]
      /\ added' = [added EXCEPT ![r] = [c \in Incoming(r) |-> <<>>]]
      /\ UNCHANGED <<border, guard, d2h, host, sending, net, inbox, dev, sendJ, insertJ>>
  BY DEF Clear, sendVars, taskVars
<1>1a. UNCHANGED <<border, guard, d2h, host, sending, net, inbox, dev, sendJ, insertJ>>
  BY <1>1
<1>2. Types
  BY DEF Inv
<1>3. /\ pc' \in [Ranks -> Nat] /\ pc'[r] = pc[r] + 1
      /\ \A q \in Ranks : q # r => pc'[q] = pc[q]
      /\ UNCHANGED <<filtered, step, exchange>>
  BY <1>1, <1>2, Advances
<1>4. /\ Adds \in {12, 13} /\ step[r] \in Nat /\ exchange[r] \in 1 .. 4
      /\ OpAt(Adds, pc[r], Op(r)) /\ Op(r).op = "clear" /\ RankOK(r)
  BY <1>1, RunsAt
<1>5. pc[r] = 7
  BY <1>4 DEF OpAt
<1>6. /\ deposited' \in [Ranks -> Int] /\ deposited'[r] = 0
      /\ \A q \in Ranks : q # r => deposited'[q] = deposited[q]
  BY <1>1, <1>2 DEF Types
<1>7. PICK a : a = [c \in Incoming(r) |-> <<>>]
  OBVIOUS
<1>8. a \in [Incoming(r) -> Seq(Int)] /\ \A c \in Incoming(r) : a[c] = <<>>
  BY <1>7
<1>9. added' = [added EXCEPT ![r] = a]
  BY <1>1, <1>7
<1>10. DOMAIN added' = Ranks /\ added'[r] = a /\ \A q \in Ranks : q # r => added'[q] = added[q]
  BY <1>2, <1>9 DEF Types
<1>11. \A q \in Ranks : added'[q] \in [Incoming(q) -> Seq(Int)]
  BY <1>2, <1>8, <1>10 DEF Types
<1>12. Types'
  BY <1>1a, <1>2, <1>3, <1>6, <1>10, <1>11 DEF Types, Incoming, Dst, Neighbour
<1>13. OthersStay(r)
  BY <1>1a, <1>3, <1>6, <1>10 DEF OthersStay
<1>14. Adds' = Adds
  BY <1>3 DEF Adds
<1>15. exchange[r] = 1 /\ RankOK(r)'
  <2>1. RankAt(Adds, step[r], 7, exchange[r], border[r], deposited[r], insertJ[r],
               added[r][ChannelIn(r, "right")], added[r][ChannelIn(r, "left")])
    BY <1>4, <1>5, RankAtState, Zenon
  <2>2. insertJ[r] \in InsertTasks
    BY <1>2 DEF Types, InsertTasks
  <2>3. exchange[r] = 1
        /\ RankAt(Adds, step[r], 7 + 1, exchange[r], border[r], 0, insertJ[r], <<>>, <<>>)
    BY <1>4, <2>1, <2>2, RankClears
  <2>4. added'[r][ChannelIn(r, "right")] = <<>> /\ added'[r][ChannelIn(r, "left")] = <<>>
    BY <1>8, <1>10, TwoIncoming
  <2>5. RankAt(Adds, step[r], pc[r], exchange[r], border[r], deposited[r], insertJ[r],
               added[r][ChannelIn(r, "right")], added[r][ChannelIn(r, "left")])'
    BY <1>1a, <1>3, <1>5, <1>6, <1>14, <2>3, <2>4, Zenon DEF ChannelIn, Neighbour
  <2> QED
    BY <2>3, <2>5, RankAtState, PTL
<1> QED
  BY <1>1, <1>1a, <1>5, <1>12, <1>13, <1>15, IdleStep

(* computeCurrent of all species.                                           *)
LEMMA ComputeCurrentKeeps ==
  ASSUME Inv, NEW r \in Ranks, ComputeCurrent(r)
  PROVE  Inv'
<1>1. /\ Runs(r, "computeCurrent") /\ Advance(r)
      /\ deposited' = [deposited EXCEPT ![r] = step[r] + 1]
      /\ border' = [border EXCEPT ![r]["Jrecv"] = @ + 1]
      /\ UNCHANGED <<guard, added, d2h, host, sending, net, inbox, dev, sendJ, insertJ>>
  BY DEF ComputeCurrent, sendVars, taskVars
<1>1a. UNCHANGED <<guard, added, d2h, host, sending, net, inbox, dev, sendJ, insertJ>>
  BY <1>1
<1>2. Types
  BY DEF Inv
<1>3. /\ pc' \in [Ranks -> Nat] /\ pc'[r] = pc[r] + 1
      /\ \A q \in Ranks : q # r => pc'[q] = pc[q]
      /\ UNCHANGED <<filtered, step, exchange>>
  BY <1>1, <1>2, Advances
<1>4. /\ Adds \in {12, 13} /\ step[r] \in Nat /\ exchange[r] \in 1 .. 4
      /\ OpAt(Adds, pc[r], Op(r)) /\ Op(r).op = "computeCurrent" /\ RankOK(r)
  BY <1>1, RunsAt
<1>5. pc[r] = 8
  BY <1>4 DEF OpAt
<1>6. /\ deposited' \in [Ranks -> Int] /\ deposited'[r] = step[r] + 1
      /\ \A q \in Ranks : q # r => deposited'[q] = deposited[q]
  BY <1>1, <1>2, <1>4 DEF Types
<1>7. PICK b2 : b2 = [border[r] EXCEPT !["Jrecv"] = border[r]["Jrecv"] + 1]
  OBVIOUS
<1>8. border[r] \in [Fields -> Int] /\ b2 \in [Fields -> Int] /\ insertJ[r] \in InsertTasks
  BY <1>2, <1>7 DEF Types, InsertTasks, Fields
<1>9. /\ border' \in [Ranks -> [Fields -> Int]] /\ border'[r] = b2
      /\ \A q \in Ranks : q # r => border'[q] = border[q]
  BY <1>1, <1>2, <1>7, <1>8 DEF Types
<1>10. Types'
  BY <1>1a, <1>2, <1>3, <1>6, <1>9 DEF Types
<1>11. OthersStay(r)
  BY <1>1a, <1>3, <1>6, <1>9 DEF OthersStay
<1>12. Adds' = Adds
  BY <1>3 DEF Adds
<1>13. exchange[r] = 1 /\ RankOK(r)'
  <2>1. RankAt(Adds, step[r], 8, exchange[r], border[r], deposited[r], insertJ[r],
               added[r][ChannelIn(r, "right")], added[r][ChannelIn(r, "left")])
    BY <1>4, <1>5, RankAtState, Zenon
  <2>2. exchange[r] = 1
        /\ RankAt(Adds, step[r], 8 + 1, exchange[r], b2, step[r] + 1, insertJ[r],
                  added[r][ChannelIn(r, "right")], added[r][ChannelIn(r, "left")])
    BY <1>4, <1>7, <1>8, <2>1, RankComputes
  <2>3. RankAt(Adds, step[r], pc[r], exchange[r], border[r], deposited[r], insertJ[r],
               added[r][ChannelIn(r, "right")], added[r][ChannelIn(r, "left")])'
    BY <1>1a, <1>3, <1>5, <1>6, <1>9, <1>12, <2>2, Zenon DEF ChannelIn, Neighbour
  <2> QED
    BY <2>2, <2>3, RankAtState, PTL
<1> QED
  BY <1>1, <1>1a, <1>5, <1>10, <1>11, <1>13, IdleStep

(* RankPasses, for a rank.                                                  *)
LEMMA PassesAt ==
  ASSUME Inv, NEW r \in Ranks, pc[r] \in 1 .. Adds + 6, PassAt(Adds, pc[r], insertJ[r]),
         NEW p2, p2 = pc[r] + 1
  PROVE  exchange[r] = 1
         /\ RankAt(Adds, step[r], p2, exchange[r], border[r], deposited[r], insertJ[r],
                   added[r][ChannelIn(r, "right")], added[r][ChannelIn(r, "left")])
<1>1. Adds \in {12, 13} /\ step[r] \in Nat /\ exchange[r] \in 1 .. 4 /\ RankOK(r)
  BY RankFacts
<1>2. PICK x, y : x = added[r][ChannelIn(r, "right")] /\ y = added[r][ChannelIn(r, "left")]
  OBVIOUS
<1>3. RankAt(Adds, step[r], pc[r], exchange[r], border[r], deposited[r], insertJ[r], x, y)
  BY <1>1, <1>2, RankAtState, Zenon
<1>4. insertJ[r] \in InsertTasks
  BY DEF Inv, Types, InsertTasks
<1>5. exchange[r] = 1
      /\ RankAt(Adds, step[r], p2, exchange[r], border[r], deposited[r], insertJ[r], x, y)
  <2>1. After(pc[r], p2)
    BY DEF After
  <2> QED
    BY <1>1, <1>3, <1>4, <2>1, RankPasses
<1> QED
  BY <1>2, <1>5, Zenon

(* A rank passes a place without a kernel that reads or writes the border.  *)
LEMMA Passes ==
  ASSUME Inv, NEW r \in Ranks, Advance(r), pc[r] \in 1 .. Adds + 6,
         UNCHANGED <<border, guard, deposited, added, d2h, host, sending, net, inbox, dev, sendJ,
                     insertJ>>,
         PassAt(Adds, pc[r], insertJ[r])
  PROVE  /\ OthersStay(r) /\ Types' /\ RankOK(r)' /\ exchange[r] = 1
         /\ \A g \in Fields : ~AtComm(g, Adds, pc[r])
         /\ pc'[r] = pc[r] + 1 /\ UNCHANGED <<filtered, step, exchange>>
<1>1. Types
  BY DEF Inv
<1>2. /\ pc' \in [Ranks -> Nat] /\ pc'[r] = pc[r] + 1
      /\ \A q \in Ranks : q # r => pc'[q] = pc[q]
      /\ UNCHANGED <<filtered, step, exchange>>
  BY <1>1, Advances
<1>3. Types'
  BY <1>1, <1>2 DEF Types
<1>4. OthersStay(r)
  BY <1>2 DEF OthersStay
<1>5. Adds' = Adds
  BY <1>2 DEF Adds
<1>6. Adds \in {12, 13} /\ step[r] \in Nat /\ exchange[r] \in 1 .. 4 /\ RankOK(r)
  BY RankFacts
<1>7. exchange[r] = 1 /\ RankOK(r)'
  <2>3. PICK p2 : p2 = pc[r] + 1
    OBVIOUS
  <2>4. exchange[r] = 1
        /\ RankAt(Adds, step[r], p2, exchange[r], border[r], deposited[r], insertJ[r],
                  added[r][ChannelIn(r, "right")], added[r][ChannelIn(r, "left")])
    BY <2>3, PassesAt
  <2>5. RankAt(Adds, step[r], pc[r], exchange[r], border[r], deposited[r], insertJ[r],
               added[r][ChannelIn(r, "right")], added[r][ChannelIn(r, "left")])'
    BY <1>2, <1>5, <2>3, <2>4, Zenon DEF ChannelIn, Neighbour
  <2> QED
    BY <2>4, <2>5, RankAtState, PTL
<1>8. \A g \in Fields : ~AtComm(g, Adds, pc[r])
  <2>1. \/ pc[r] \in {4, 5, Adds + 2, Adds + 3, Adds + 6} \/ (Adds = 12 /\ pc[r] \in {10, 11})
        \/ (Adds = 13 /\ pc[r] \in {10, 12})
    BY <1>6 DEF PassAt, WaitJ
  <2>2. pc[r] \in 1 .. Adds + 7
    BY <1>6
  <2> QED
    BY <1>6, <2>1, <2>2, NoComm
<1> QED
  BY <1>2, <1>3, <1>4, <1>7, <1>8

(* A kernel for CORE.                                                       *)
LEMMA RunCoreKeeps ==
  ASSUME Inv, NEW r \in Ranks, RunCore(r)
  PROVE  Inv'
<1>1. /\ Runs(r, "core") /\ Advance(r)
      /\ UNCHANGED <<border, guard, deposited, added, d2h, host, sending, net, inbox, dev, sendJ,
                     insertJ>>
  BY DEF RunCore, fieldVars, sendVars, taskVars
<1>2. /\ Adds \in {12, 13} /\ pc[r] \in 1 .. Adds + 6
      /\ OpAt(Adds, pc[r], Op(r)) /\ Op(r).op = "core"
  BY <1>1, RunsAt
<1>3. pc[r] = 4 \/ pc[r] = Adds + 2 \/ (Adds = 12 /\ pc[r] = 10)
  BY <1>2 DEF OpAt
<1>4. PassAt(Adds, pc[r], insertJ[r])
  BY <1>3, Zenon DEF PassAt
<1>5. /\ OthersStay(r) /\ Types' /\ RankOK(r)' /\ exchange[r] = 1
      /\ \A g \in Fields : ~AtComm(g, Adds, pc[r])
      /\ pc'[r] = pc[r] + 1 /\ UNCHANGED <<filtered, step, exchange>>
  BY <1>1, <1>2, <1>4, Passes
<1>6. \A f \in Fields : Open(f, Adds, pc[r]) => Open(f, Adds, pc[r] + 1)
  BY <1>2, <1>3, OpenFields
<1>7. \A c \in Channels, f \in Fields :
        CopyOut(c, f) /\ CopyIn(c, f) /\ Outbox(c, f)' = Outbox(c, f)
  BY <1>1 DEF Inv, CopiesOK, Outbox
<1>8. \A c \in Channels, f \in Fields : c[1] = r /\ d2h[c][f] =>
        Open(f, Adds, pc[r] + 1) /\ Outbox(c, f)' = Outbox(c, f)
  BY <1>6, <1>7, Zenon DEF CopyOut
<1>9. \A c \in Channels, f \in Fields : Dst(c) = r /\ inbox[c][f].st # "none" =>
        Open(f, Adds, pc[r] + 1)
  BY <1>6, <1>7, Zenon DEF CopyIn
<1>10. \A c \in Channels : c[1] = r /\ sendJ[c] # "Finished" => pc[r] + 1 \in 10 .. WaitJ(Adds)
  <2>1. \A c \in Channels : c[1] = r /\ sendJ[c] # "Finished" => pc[r] \in 10 .. WaitJ(Adds)
    BY Zenon DEF Inv, SendTaskOK
  <2>2. pc[r] \in 10 .. WaitJ(Adds) => pc[r] + 1 \in 10 .. WaitJ(Adds)
    BY <1>2, <1>3 DEF WaitJ
  <2> QED
    BY <2>1, <2>2, Zenon
<1> QED
  BY <1>1, <1>2, <1>5, <1>8, <1>9, <1>10, QuietStep

(* The wait for an exchange is over.                                        *)
LEMMA WaitForKeeps ==
  ASSUME Inv, NEW r \in Ranks, WaitFor(r)
  PROVE  Inv'
<1>1. /\ Runs(r, "wait") /\ Exchanged(r, Op(r).field) /\ Advance(r)
      /\ UNCHANGED <<border, guard, deposited, added, d2h, host, sending, net, inbox, dev, sendJ,
                     insertJ>>
  BY DEF WaitFor, fieldVars, sendVars, taskVars
<1>2. /\ Adds \in {12, 13} /\ pc[r] \in 1 .. Adds + 6
      /\ OpAt(Adds, pc[r], Op(r)) /\ Op(r).op = "wait"
  BY <1>1, RunsAt
<1>3. PICK g \in Fields : AtWait(g, Adds, pc[r]) /\ Exchanged(r, g)
  BY <1>1, <1>2, Zenon DEF OpAt
<1>4. PassAt(Adds, pc[r], insertJ[r])
  <2>1. g = "J" => insertJ[r].pc = "Finished"
    BY <1>3, Zenon DEF Exchanged
  <2> QED
    BY <1>3, <2>1 DEF PassAt, AtWait, Fields
<1>5. /\ OthersStay(r) /\ Types' /\ RankOK(r)' /\ exchange[r] = 1
      /\ \A f \in Fields : ~AtComm(f, Adds, pc[r])
      /\ pc'[r] = pc[r] + 1 /\ UNCHANGED <<filtered, step, exchange>>
  BY <1>1, <1>2, <1>4, Passes
<1>6. \A f \in Fields : Open(f, Adds, pc[r]) => f = g
  BY <1>2, <1>3, OpenFields
<1>7. \A c \in Channels, f \in Fields : CopyOut(c, f) /\ CopyIn(c, f)
  BY DEF Inv, CopiesOK
<1>8. ASSUME NEW c \in Channels, NEW f \in Fields, c[1] = r PROVE ~d2h[c][f]
  <2>1. SUFFICES ASSUME d2h[c][f] PROVE FALSE
    OBVIOUS
  <2>2. CopyOut(c, f)
    BY <1>7
  <2>3. f = g /\ (f = "J" => sendJ[c] = "WaitForSendEnd")
    BY <1>6, <1>8, <2>1, <2>2, Zenon DEF CopyOut
  <2>4. c \in Outgoing(r)
    BY <1>8 DEF Outgoing
  <2> QED
    BY <1>3, <2>1, <2>3, <2>4, Zenon DEF Exchanged
<1>9. ASSUME NEW c \in Channels, NEW f \in Fields, Dst(c) = r PROVE inbox[c][f].st = "none"
  <2>1. SUFFICES ASSUME inbox[c][f].st # "none" PROVE FALSE
    OBVIOUS
  <2>2. CopyIn(c, f)
    BY <1>7
  <2>3. f = g /\ (f = "J" => insertJ[r].pc = "WaitForReceived")
    BY <1>6, <1>9, <2>1, <2>2, Zenon DEF CopyIn
  <2>4. c \in Incoming(r)
    BY <1>9 DEF Incoming
  <2> QED
    BY <1>3, <2>1, <2>3, <2>4, Zenon DEF Exchanged
<1>10. ASSUME NEW c \in Channels, c[1] = r PROVE sendJ[c] = "Finished"
  <2>1. SUFFICES ASSUME sendJ[c] # "Finished" PROVE FALSE
    OBVIOUS
  <2>2. pc[r] \in 10 .. WaitJ(Adds)
    BY <1>10, <2>1, Zenon DEF Inv, SendTaskOK
  <2>3. g = "J"
    BY <1>2, <1>3, <2>2 DEF AtWait, WaitJ, Fields
  <2>4. c \in Outgoing(r)
    BY <1>10 DEF Outgoing
  <2> QED
    BY <1>3, <2>1, <2>3, <2>4, Zenon DEF Exchanged
<1> QED
  BY <1>1, <1>2, <1>5, <1>8, <1>9, <1>10, QuietStep

(* The end of a step.                                                       *)
LEMMA EndStepKeeps ==
  ASSUME Inv, NEW r \in Ranks, EndStep(r)
  PROVE  Inv'
<1>1. /\ AtEnd(r)
      /\ step' = [step EXCEPT ![r] = @ + 1]
      /\ pc' = [pc EXCEPT ![r] = 1]
      /\ UNCHANGED <<filtered, exchange, border, guard, deposited, added, d2h, host, sending, net,
                     inbox, dev, sendJ, insertJ>>
  BY DEF EndStep, fieldVars, sendVars, taskVars
<1>1a. UNCHANGED <<filtered, exchange, border, guard, deposited, added, d2h, host, sending, net,
                   inbox, dev, sendJ, insertJ>>
  BY <1>1
<1>2. Types
  BY DEF Inv
<1>3. /\ Adds \in {12, 13} /\ step[r] \in Nat /\ pc[r] = Adds + 7 /\ exchange[r] \in 1 .. 4
      /\ pc[r] \in 1 .. Adds + 7 /\ RankOK(r)
  BY <1>1, RankFacts
<1>4. /\ step' \in [Ranks -> Nat] /\ step'[r] = step[r] + 1
      /\ \A q \in Ranks : q # r => step'[q] = step[q]
  BY <1>1, <1>2 DEF Types
<1>5. /\ pc' \in [Ranks -> Nat] /\ pc'[r] = 1
      /\ \A q \in Ranks : q # r => pc'[q] = pc[q]
  BY <1>1, <1>2 DEF Types
<1>6. Types'
  BY <1>1a, <1>2, <1>4, <1>5 DEF Types
<1>7. OthersStay(r)
  BY <1>1a, <1>4, <1>5 DEF OthersStay
<1>8. Adds' = Adds
  BY <1>1a DEF Adds
<1>9. PICK s2 : s2 = step[r] + 1
  OBVIOUS
<1>10. After(step[r], s2) /\ AtLast(Adds, pc[r])
  BY <1>3, <1>9 DEF After, AtLast
<1>11. exchange[r] = 1 /\ RankOK(r)'
  <2>1. PICK x, y : x = added[r][ChannelIn(r, "right")] /\ y = added[r][ChannelIn(r, "left")]
    OBVIOUS
  <2>2. RankAt(Adds, step[r], pc[r], exchange[r], border[r], deposited[r], insertJ[r], x, y)
    BY <1>3, <2>1, RankAtState, Zenon
  <2>3. insertJ[r] \in InsertTasks
    BY <1>2 DEF Types, InsertTasks
  <2>4. exchange[r] = 1
        /\ RankAt(Adds, s2, 1, exchange[r], border[r], deposited[r], insertJ[r], x, y)
    BY <1>3, <1>10, <2>2, <2>3, RankEnds
  <2>5. RankAt(Adds, step[r], pc[r], exchange[r], border[r], deposited[r], insertJ[r],
               added[r][ChannelIn(r, "right")], added[r][ChannelIn(r, "left")])'
    BY <1>1a, <1>4, <1>5, <1>8, <1>9, <2>1, <2>4, Zenon DEF ChannelIn, Neighbour
  <2> QED
    BY <2>4, <2>5, RankAtState, PTL
<1>12. \A g \in Fields : ~Open(g, Adds, pc[r])
  BY <1>3, OpenFields
<1>13. /\ \A c \in Channels, f \in Fields : c[1] = r => ~d2h[c][f]
       /\ \A c \in Channels, f \in Fields : Dst(c) = r => inbox[c][f].st = "none"
       /\ \A c \in Channels : c[1] = r => sendJ[c] = "Finished"
  BY <1>12, NoneOpen
<1>14. /\ \A q \in Ranks : q # r => RankOK(q)'
       /\ \A c \in Channels : c[1] # r => SendTaskOK(c)'
  BY <1>7, OtherRanks
<1>15. ASSUME NEW c \in Channels, c[1] = r PROVE SendTaskOK(c)'
  <2>1. sendJ'[c] = "Finished"
    BY <1>1a, <1>13, <1>15
  <2> QED
    BY <2>1 DEF SendTaskOK
<1>16. ASSUME NEW c \in Channels, NEW f \in Fields PROVE PipeOK(c, f)' /\ CopiesOK(c, f)'
  <2>1. c[2] \in {"right", "left"} /\ Dst(c)' = Dst(c)
    BY ChannelEnds DEF Dst, Neighbour
  <2>2. SameCounts(f, Adds, c[2], "Finished", step[r], pc[r], 1, s2, 1, 1)
    BY <1>3, <1>10, <2>1, EndMove
  <2>3. c[1] = r => SentOn(c, f)' = SentOn(c, f)
    BY <1>1a, <1>4, <1>5, <1>8, <1>9, <1>11, <1>13, <2>2, Zenon DEF SentOn, SameCounts
  <2>4. Dst(c) = r => PostedOn(c, f)' = PostedOn(c, f)
    BY <1>1a, <1>4, <1>5, <1>8, <1>9, <1>11, <2>1, <2>2, Zenon DEF PostedOn, SameCounts
  <2>5. /\ c[1] = r => ~d2h[c][f]
        /\ Dst(c) = r => inbox[c][f].st = "none"
    BY <1>13
  <2> QED
    BY <1>1a, <1>7, <2>3, <2>4, <2>5, ChannelKept
<1> QED
  BY <1>6, <1>11, <1>14, <1>15, <1>16 DEF Inv

-----------------------------------------------------------------------------
(***************************************************************************)
(* GridBuffer::asyncCommunication                                          *)
(***************************************************************************)
(* The host thread goes on in an exchange.                                  *)
LEMMA ExchangeGoesOn ==
  ASSUME Types, NEW r \in Ranks, NEW last, NextExchange(r, last)
  PROVE  /\ pc' \in [Ranks -> Nat] /\ exchange' \in [Ranks -> Nat]
         /\ GoesOn(pc[r], exchange[r], last, pc'[r], exchange'[r])
         /\ \A q \in Ranks : q # r => pc'[q] = pc[q] /\ exchange'[q] = exchange[q]
         /\ UNCHANGED <<filtered, step>>
<1>1. pc \in [Ranks -> Nat] /\ exchange \in [Ranks -> Nat]
  BY DEF Types
<1>2. UNCHANGED <<filtered, step>>
  BY DEF NextExchange
<1>3. CASE exchange[r] = last
  <2>1. pc' = [pc EXCEPT ![r] = @ + 1] /\ exchange' = [exchange EXCEPT ![r] = 1]
    BY <1>3 DEF NextExchange
  <2>2. /\ pc' \in [Ranks -> Nat] /\ exchange' \in [Ranks -> Nat]
        /\ pc'[r] = pc[r] + 1 /\ exchange'[r] = 1
        /\ \A q \in Ranks : q # r => pc'[q] = pc[q] /\ exchange'[q] = exchange[q]
    BY <1>1, <2>1
  <2> QED
    BY <1>2, <1>3, <2>2, Zenon DEF GoesOn
<1>4. CASE exchange[r] # last
  <2>1. pc' = pc /\ exchange' = [exchange EXCEPT ![r] = @ + 1]
    BY <1>4 DEF NextExchange
  <2>2. /\ pc' \in [Ranks -> Nat] /\ exchange' \in [Ranks -> Nat]
        /\ pc'[r] = pc[r] /\ exchange'[r] = exchange[r] + 1
        /\ \A q \in Ranks : q # r => pc'[q] = pc[q] /\ exchange'[q] = exchange[q]
    BY <1>1, <2>1
  <2> QED
    BY <1>2, <1>4, <2>2, Zenon DEF GoesOn
<1> QED
  BY <1>3, <1>4

(* What the copies under way need of the place that follows.                *)
StillOpen(r) ==
  /\ \A c \in Channels, f \in Fields : c[1] = r /\ d2h[c][f] =>
       /\ Open(f, Adds, pc'[r]) /\ Outbox(c, f)' = Outbox(c, f)
       /\ f = "J" => sendJ'[c] = sendJ[c]
  /\ \A c \in Channels, f \in Fields : Dst(c) = r /\ inbox[c][f].st # "none" =>
       Open(f, Adds, pc'[r]) /\ (f = "J" => insertJ'[r].pc = "WaitForReceived")

(* A part of the exchange of field g, but for the counts.                   *)
LEMMA CommFrame ==
  ASSUME Inv, NEW r \in Ranks, NEW g \in {"E", "B", "Jrecv"}, AtComm(g, Adds, pc[r]),
         pc[r] \in 1 .. Adds + 6, OthersStay(r),
         GoesOn(pc[r], exchange[r], 4, pc'[r], exchange'[r]),
         UNCHANGED <<filtered, step, border, deposited, added, dev, sendJ, insertJ>>
  PROVE  /\ StillOpen(r) /\ Open(g, Adds, pc'[r])
         /\ \A q \in Ranks : RankOK(q)'
         /\ \A c \in Channels : SendTaskOK(c)'
<1>1. /\ Adds \in {12, 13} /\ step[r] \in Nat /\ exchange[r] \in 1 .. 4
      /\ RankOK(r) /\ pc[r] \in 1 .. Adds + 7
  BY RankFacts
<1>2. g \in Fields /\ g # "J"
  BY DEF Fields
<1>3. pc'[r] = pc[r] \/ pc'[r] = pc[r] + 1
  BY DEF GoesOn
<1>4. Open(g, Adds, pc[r]) /\ Open(g, Adds, pc[r] + 1) /\ \A f \in Fields : Open(f, Adds, pc[r]) => f = g
  BY <1>1, <1>2, OpenFields
<1>5. Open(g, Adds, pc'[r])
  BY <1>3, <1>4, Zenon
<1>6. StillOpen(r)
  <2>1. \A c \in Channels, f \in Fields :
          CopyOut(c, f) /\ CopyIn(c, f) /\ Outbox(c, f)' = Outbox(c, f)
    BY DEF Inv, CopiesOK, Outbox
  <2>2. ASSUME NEW c \in Channels, NEW f \in Fields, c[1] = r, d2h[c][f] PROVE f = g
    BY <1>4, <2>1, <2>2, Zenon DEF CopyOut
  <2>3. ASSUME NEW c \in Channels, NEW f \in Fields, Dst(c) = r, inbox[c][f].st # "none"
        PROVE  f = g
    BY <1>4, <2>1, <2>3, Zenon DEF CopyIn
  <2> QED
    BY <1>2, <1>5, <2>1, <2>2, <2>3, Zenon DEF StillOpen
<1>7. Adds' = Adds
  BY DEF Adds
<1>8. RankOK(r)'
  <2>1. PICK x, y, p2, e2 : /\ x = added[r][ChannelIn(r, "right")]
                            /\ y = added[r][ChannelIn(r, "left")]
                            /\ p2 = pc'[r] /\ e2 = exchange'[r]
    OBVIOUS
  <2>2. RankAt(Adds, step[r], pc[r], exchange[r], border[r], deposited[r], insertJ[r], x, y)
    BY <1>1, <2>1, RankAtState, Zenon
  <2>3. insertJ[r] \in InsertTasks
    BY DEF Inv, Types, InsertTasks
  <2>4. GoesOn(pc[r], exchange[r], 4, p2, e2)
    BY <2>1, Zenon
  <2>5. RankAt(Adds, step[r], p2, e2, border[r], deposited[r], insertJ[r], x, y)
    BY <1>1, <2>2, <2>3, <2>4, RankExchanges
  <2>6. RankAt(Adds, step[r], pc[r], exchange[r], border[r], deposited[r], insertJ[r],
               added[r][ChannelIn(r, "right")], added[r][ChannelIn(r, "left")])'
    BY <1>7, <2>1, <2>5, Zenon DEF ChannelIn, Neighbour
  <2> QED
    BY <2>6, RankAtState, PTL
<1>9. /\ \A q \in Ranks : q # r => RankOK(q)'
      /\ \A c \in Channels : c[1] # r => SendTaskOK(c)'
  BY OtherRanks
<1>10. ASSUME NEW c \in Channels, c[1] = r PROVE SendTaskOK(c)'
  <2>1. pc[r] \notin 10 .. WaitJ(Adds)
    BY <1>1 DEF AtComm, WaitJ
  <2>2. sendJ'[c] = "Finished"
    BY <1>10, <2>1, Zenon DEF Inv, SendTaskOK
  <2> QED
    BY <2>2 DEF SendTaskOK
<1> QED
  BY <1>5, <1>6, <1>8, <1>9, <1>10

(* The direction of a part of an exchange.                                  *)
LEMMA DirectionAt ==
  ASSUME NEW r \in Ranks, exchange[r] \in 1 .. 4
  PROVE  /\ exchange[r] \in {1, 2} => Direction(r) = "right"
         /\ exchange[r] \in {3, 4} => Direction(r) = "left"
<1>1. Directions[1] = "right" /\ Directions[2] = "left"
  BY DEF Directions
<1>2. /\ exchange[r] \in {1, 2} => (exchange[r] + 1) \div 2 = 1
      /\ exchange[r] \in {3, 4} => (exchange[r] + 1) \div 2 = 2
  BY SMT
<1> QED
  BY <1>1, <1>2 DEF Direction

(* The place of an exchange of another field than J.                        *)
LEMMA CommAt ==
  ASSUME Inv, NEW r \in Ranks, Runs(r, "comm")
  PROVE  /\ Op(r).field \in {"E", "B", "Jrecv"} /\ AtComm(Op(r).field, Adds, pc[r])
         /\ Adds \in {12, 13} /\ step[r] \in Nat /\ pc[r] \in 1 .. Adds + 6
         /\ exchange[r] \in 1 .. 4 /\ RankOK(r)
<1>1. /\ Adds \in {12, 13} /\ step[r] \in Nat /\ pc[r] \in 1 .. Adds + 6 /\ exchange[r] \in 1 .. 4
      /\ OpAt(Adds, pc[r], Op(r)) /\ Op(r).op = "comm" /\ RankOK(r)
  BY RunsAt
<1>2. Op(r).field \in {"E", "B", "Jrecv"} /\ AtComm(Op(r).field, Adds, pc[r])
  BY <1>1, Zenon DEF OpAt
<1> QED
  BY <1>1, <1>2

(* The receive of a part of an exchange is posted.                          *)
LEMMA AsyncReceiveKeeps ==
  ASSUME Inv, NEW r \in Ranks, AsyncReceive(r)
  PROVE  Inv'
<1>1. PICK k, g : k = ChannelIn(r, Direction(r)) /\ g = Op(r).field
  OBVIOUS
<1>2. /\ Runs(r, "comm") /\ exchange[r] % 2 = 1
      /\ inbox[k][g].st = "none"
      /\ inbox' = [inbox EXCEPT ![k][g].st = "posted"]
      /\ NextExchange(r, 4)
      /\ UNCHANGED <<border, guard, deposited, added, d2h, host, sending, net, dev, sendJ, insertJ>>
  BY <1>1 DEF AsyncReceive, fieldVars, sendVars, taskVars
<1>2a. UNCHANGED <<border, guard, deposited, added, d2h, host, sending, net, dev, sendJ, insertJ>>
  BY <1>2
<1>3. Types
  BY DEF Inv
<1>4. /\ g \in {"E", "B", "Jrecv"} /\ AtComm(g, Adds, pc[r])
      /\ Adds \in {12, 13} /\ step[r] \in Nat /\ pc[r] \in 1 .. Adds + 6
      /\ exchange[r] \in 1 .. 4
  BY <1>1, <1>2, CommAt, Zenon
<1>5. g \in Fields
  BY <1>4 DEF Fields
<1>6. exchange[r] \in {1, 3}
  BY <1>2, <1>4
<1>7. /\ k \in Channels /\ Dst(k) = r
      /\ \A c \in Channels : Dst(c) = r /\ c # k => c[2] # k[2]
      /\ exchange[r] = PostAt(g, k[2])
      /\ \A d \in {"right", "left"} : d # k[2] => exchange[r] # PostAt(g, d)
  <2>1. /\ exchange[r] = 1 => Direction(r) = "right"
        /\ exchange[r] = 3 => Direction(r) = "left"
    BY <1>4, DirectionAt
  <2>2. Direction(r) \in {"right", "left"}
    BY <1>6, <2>1
  <2>3. /\ k \in Channels /\ Dst(k) = r /\ k[2] = Mirrored(Direction(r))
        /\ \A c \in Channels : Dst(c) = r /\ c[2] = Mirrored(Direction(r)) => c = k
    BY <1>1, <2>2, ReceivesFrom, Zenon
  <2>4. /\ exchange[r] = 1 => k[2] = "left"
        /\ exchange[r] = 3 => k[2] = "right"
    BY <2>1, <2>3 DEF Mirrored
  <2>5. g # "J"
    BY <1>4
  <2> QED
    BY <1>6, <2>3, <2>4, <2>5 DEF PostAt
<1>8. PICK ib2 : ib2 = [inbox[k][g] EXCEPT !.st = "posted"]
  OBVIOUS
<1>9. inbox \in [Channels -> [Fields -> Inboxes]] /\ inbox[k][g] \in Inboxes
  BY <1>3, <1>5, <1>7 DEF Types, Inboxes
<1>10. ib2 \in Inboxes /\ ib2.st = "posted"
  BY <1>8, <1>9 DEF Inboxes
<1>11. inbox' = [inbox EXCEPT ![k][g] = ib2]
  BY <1>2, <1>8
<1>12. /\ inbox' \in [Channels -> [Fields -> Inboxes]] /\ inbox'[k][g] = ib2
       /\ \A c \in Channels, f \in Fields : c # k \/ f # g => inbox'[c][f] = inbox[c][f]
  BY <1>5, <1>7, <1>9, <1>10, <1>11, OneChannel
<1>13. /\ pc' \in [Ranks -> Nat] /\ exchange' \in [Ranks -> Nat]
       /\ GoesOn(pc[r], exchange[r], 4, pc'[r], exchange'[r])
       /\ \A q \in Ranks : q # r => pc'[q] = pc[q] /\ exchange'[q] = exchange[q]
       /\ UNCHANGED <<filtered, step>>
  BY <1>2, <1>3, ExchangeGoesOn
<1>14. Types'
  BY <1>2a, <1>3, <1>12, <1>13 DEF Types, Inboxes
<1>15. OthersStay(r)
  BY <1>2a, <1>13 DEF OthersStay
<1>16. /\ StillOpen(r) /\ Open(g, Adds, pc'[r])
       /\ \A q \in Ranks : RankOK(q)'
       /\ \A c \in Channels : SendTaskOK(c)'
  BY <1>2a, <1>4, <1>13, <1>15, CommFrame
<1>17. Adds' = Adds
  BY <1>13 DEF Adds
<1>18. PICK p2, e2 : p2 = pc'[r] /\ e2 = exchange'[r]
  OBVIOUS
<1>19. GoesOn(pc[r], exchange[r], 4, p2, e2)
  BY <1>13, <1>18, Zenon
<1>20. ASSUME NEW c \in Channels, NEW f \in Fields
       PROVE  /\ SameSent(f, Adds, c[2], sendJ[c], step[r], pc[r], exchange[r], p2, e2)
              /\ f = g /\ exchange[r] = PostAt(f, c[2]) =>
                   MorePosted(f, Adds, c[2], step[r], pc[r], exchange[r], p2, e2)
              /\ f # g \/ exchange[r] # PostAt(f, c[2]) =>
                   SamePosted(f, Adds, c[2], step[r], pc[r], exchange[r], p2, e2)
  <2>1. c[2] \in {"right", "left"}
    BY ChannelEnds
  <2>2. ReceiveCounts(g, f, Adds, c[2], sendJ[c], step[r], pc[r], exchange[r], p2, e2)
    BY <1>4, <1>6, <1>19, <2>1, PostMove
  <2> QED
    BY <2>2, Zenon DEF ReceiveCounts
<1>21. ASSUME NEW c \in Channels, NEW f \in Fields, c[1] = r PROVE SentOn(c, f)' = SentOn(c, f)
  BY <1>2a, <1>13, <1>17, <1>18, <1>20, <1>21, Zenon DEF SentOn, SameSent
<1>22. PipeOK(k, g)' /\ CopiesOK(k, g)'
  <2>1. SentOn(k, g)' = SentOn(k, g) /\ CopyOut(k, g)'
    <3>1. d2h'[k][g] = d2h[k][g]
      BY <1>2a
    <3>2. k[1] = r => SentOn(k, g)' = SentOn(k, g)
      BY <1>5, <1>7, <1>21
    <3>3. k[1] = r /\ d2h[k][g] => /\ Open(g, Adds, pc'[r]) /\ Outbox(k, g)' = Outbox(k, g)
                                   /\ g = "J" => sendJ'[k] = sendJ[k]
      BY <1>5, <1>7, <1>16, Zenon DEF StillOpen
    <3> QED
      BY <1>5, <1>7, <1>15, <3>1, <3>2, <3>3, SendingKept
  <2>2. PostedOn(k, g)' = PostedOn(k, g) + 1
    <3>1. MorePosted(g, Adds, k[2], step[r], pc[r], exchange[r], p2, e2)
      BY <1>5, <1>7, <1>20
    <3>2. Dst(k)' = r
      BY <1>7 DEF Dst, Neighbour
    <3> QED
      BY <1>7, <1>13, <1>17, <1>18, <3>1, <3>2, Zenon DEF PostedOn, MorePosted
  <2>3. /\ SentOn(k, g) \in Int /\ PostedOn(k, g) \in Int
        /\ d2h[k][g] \in BOOLEAN /\ sending[k][g] \in BOOLEAN
        /\ net[k][g] \in Seq(Messages) /\ inbox[k][g] \in Inboxes /\ PipeOK(k, g)
    BY <1>5, <1>7, ChannelFacts
  <2>4. Pipe(g, SentOn(k, g), PostedOn(k, g), d2h[k][g], sending[k][g], host[k][g], net[k][g],
             inbox[k][g], guard[k][g])
    BY <2>3 DEF PipeOK
  <2>5. Pipe(g, SentOn(k, g), PostedOn(k, g) + 1, d2h[k][g], sending[k][g], host[k][g], net[k][g],
             ib2, guard[k][g])
    BY <1>2, <1>8, <2>3, <2>4, PipePost
  <2>6. PipeOK(k, g)'
    BY <1>2a, <1>12, <2>1, <2>2, <2>5, Zenon DEF PipeOK
  <2>7. CopyIn(k, g)'
    <3>1. Dst(k)' = r /\ g # "J"
      BY <1>4, <1>7 DEF Dst, Neighbour
    <3> QED
      BY <1>16, <1>17, <3>1, Zenon DEF CopyIn
  <2> QED
    BY <2>1, <2>6, <2>7 DEF CopiesOK
<1>23. ASSUME NEW c \in Channels, NEW f \in Fields, c # k \/ f # g
       PROVE  PipeOK(c, f)' /\ CopiesOK(c, f)'
  <2>1. inbox'[c][f] = inbox[c][f]
    BY <1>12, <1>23
  <2>2. c[1] = r => SentOn(c, f)' = SentOn(c, f)
    BY <1>21
  <2>3. Dst(c) = r => PostedOn(c, f)' = PostedOn(c, f)
    <3>1. SUFFICES ASSUME Dst(c) = r PROVE PostedOn(c, f)' = PostedOn(c, f)
      OBVIOUS
    <3>2. f # g \/ exchange[r] # PostAt(f, c[2])
      BY <1>7, <1>23, <3>1, ChannelEnds
    <3>3. SamePosted(f, Adds, c[2], step[r], pc[r], exchange[r], p2, e2)
      BY <1>20, <3>2
    <3>4. Dst(c)' = r
      BY <3>1 DEF Dst, Neighbour
    <3> QED
      BY <1>13, <1>17, <1>18, <3>1, <3>3, <3>4, Zenon DEF PostedOn, SamePosted
  <2>4. c[1] = r /\ d2h[c][f] => /\ Open(f, Adds, pc'[r]) /\ Outbox(c, f)' = Outbox(c, f)
                                 /\ f = "J" => sendJ'[c] = sendJ[c]
    BY <1>16, Zenon DEF StillOpen
  <2>5. Dst(c) = r /\ inbox[c][f].st # "none" =>
          Open(f, Adds, pc'[r]) /\ (f = "J" => insertJ'[r].pc = "WaitForReceived")
    BY <1>16, Zenon DEF StillOpen
  <2> QED
    BY <1>2a, <1>15, <2>1, <2>2, <2>3, <2>4, <2>5, ChannelKept
<1> QED
  BY <1>14, <1>16, <1>22, <1>23 DEF Inv

(* The border that is copied in a part of an exchange.                      *)
LEMMA BorderCopied ==
  ASSUME Inv, NEW r \in Ranks, NEW g \in {"E", "B", "Jrecv"}, AtComm(g, Adds, pc[r]),
         NEW c \in Channels
  PROVE  c[1] = r /\ exchange[r] = SendAt(c[2]) => Outbox(c, g) = Version(g, SentOn(c, g) + 1)
<1>1. /\ Adds \in {12, 13} /\ step[r] \in Nat /\ pc[r] \in 1 .. Adds + 7 /\ exchange[r] \in 1 .. 4
      /\ RankOK(r) /\ c[2] \in {"right", "left"}
  BY RankFacts, ChannelEnds
<1>2. BorderOK(Adds, step[r], pc[r], exchange[r], insertJ[r].next, border[r])
  BY <1>1, Zenon DEF RankOK
<1>3. /\ border[r][g] = Version(g, Full(g, Adds, step[r], pc[r]) + 1)
      /\ exchange[r] = SendAt(c[2]) =>
           Sent(g, Adds, step[r], pc[r], exchange[r], c[2], sendJ[c]) = Full(g, Adds, step[r], pc[r])
  <2>1. Carries(g, Adds, step[r], pc[r], exchange[r], border[r], c[2], sendJ[c])
    BY <1>1, <1>2, BorderSent
  <2> QED
    BY <2>1, Zenon DEF Carries
<1>4. g # "J"
  OBVIOUS
<1>5. c[1] = r /\ exchange[r] = SendAt(c[2]) =>
        SentOn(c, g) = Full(g, Adds, step[r], pc[r]) /\ Outbox(c, g) = border[r][g]
  BY <1>3, <1>4, Zenon DEF SentOn, Outbox
<1> QED
  BY <1>3, <1>5, Zenon

(* The copy of a part of an exchange is begun.                              *)
LEMMA AsyncSendKeeps ==
  ASSUME Inv, NEW r \in Ranks, AsyncSend(r)
  PROVE  Inv'
<1>1. PICK k, g : k = <<r, Mirrored(Direction(r))>> /\ g = Op(r).field
  OBVIOUS
<1>2. /\ Runs(r, "comm") /\ exchange[r] % 2 = 0 /\ ~d2h[k][g] /\ ~sending[k][g]
      /\ NextExchange(r, 4)
      /\ UNCHANGED <<border, guard, deposited, added, host, sending, net, inbox, dev, sendJ, insertJ>>
  BY <1>1 DEF AsyncSend, SendFree, fieldVars, taskVars
<1>2a. UNCHANGED <<border, guard, deposited, added, host, sending, net, inbox, dev, sendJ, insertJ>>
  BY <1>2
<1>2b. d2h' = [d2h EXCEPT ![k][g] = TRUE]
  BY <1>1, Zenon DEF AsyncSend
<1>3. Types
  BY DEF Inv
<1>4. /\ g \in {"E", "B", "Jrecv"} /\ AtComm(g, Adds, pc[r])
      /\ Adds \in {12, 13} /\ step[r] \in Nat /\ pc[r] \in 1 .. Adds + 6
      /\ exchange[r] \in 1 .. 4
  BY <1>1, <1>2, CommAt, Zenon
<1>5. g \in Fields
  BY <1>4 DEF Fields
<1>6. exchange[r] \in {2, 4}
  BY <1>2, <1>4
<1>7. /\ k \in Channels /\ k[1] = r
      /\ \A c \in Channels : c[1] = r /\ c # k => c[2] # k[2]
      /\ exchange[r] = SendAt(k[2])
      /\ \A d \in {"right", "left"} : d # k[2] => exchange[r] # SendAt(d)
  <2>1. /\ exchange[r] = 2 => Direction(r) = "right"
        /\ exchange[r] = 4 => Direction(r) = "left"
    BY <1>4, DirectionAt
  <2>2. /\ exchange[r] = 2 => k[2] = "left"
        /\ exchange[r] = 4 => k[2] = "right"
    BY <1>1, <2>1 DEF Mirrored
  <2>3. k[1] = r /\ k = <<r, k[2]>> /\ k[2] \in {"right", "left"}
    BY <1>1, <1>6, <2>2
  <2>4. k \in Channels
    BY <2>3 DEF Channels
  <2>5. \A c \in Channels : c[1] = r /\ c # k => c[2] # k[2]
    BY <2>3, ChannelEnds, Zenon
  <2> QED
    BY <1>6, <2>2, <2>3, <2>4, <2>5 DEF SendAt
<1>7a. k \in Channels
  BY <1>7
<1>8. /\ d2h' \in [Channels -> [Fields -> BOOLEAN]] /\ d2h'[k][g] = TRUE
      /\ \A c \in Channels, f \in Fields : c # k \/ f # g => d2h'[c][f] = d2h[c][f]
  BY <1>2b, <1>3, <1>5, <1>7a, CopyBegins, ZenonT(60)
<1>9. /\ pc' \in [Ranks -> Nat] /\ exchange' \in [Ranks -> Nat]
      /\ GoesOn(pc[r], exchange[r], 4, pc'[r], exchange'[r])
      /\ \A q \in Ranks : q # r => pc'[q] = pc[q] /\ exchange'[q] = exchange[q]
      /\ UNCHANGED <<filtered, step>>
  BY <1>2, <1>3, ExchangeGoesOn
<1>10. Types'
  BY <1>2a, <1>3, <1>8, <1>9 DEF Types
<1>11. OthersStay(r)
  BY <1>2a, <1>9 DEF OthersStay
<1>12. /\ StillOpen(r) /\ Open(g, Adds, pc'[r])
       /\ \A q \in Ranks : RankOK(q)'
       /\ \A c \in Channels : SendTaskOK(c)'
  BY <1>2a, <1>4, <1>9, <1>11, CommFrame
<1>13. Adds' = Adds
  BY <1>9 DEF Adds
<1>14. PICK p2, e2 : p2 = pc'[r] /\ e2 = exchange'[r]
  OBVIOUS
<1>15. GoesOn(pc[r], exchange[r], 4, p2, e2)
  BY <1>9, <1>14, Zenon
<1>16. ASSUME NEW c \in Channels, NEW f \in Fields
       PROVE  SendCounts(g, f, Adds, c[2], sendJ[c], step[r], pc[r], exchange[r], p2, e2)
  <2>1. c[2] \in {"right", "left"}
    BY ChannelEnds
  <2> QED
    BY <1>4, <1>6, <1>15, <2>1, SendMove
<1>17. ASSUME NEW c \in Channels, NEW f \in Fields, Dst(c) = r
       PROVE  PostedOn(c, f)' = PostedOn(c, f)
  <2>1. Dst(c)' = r
    BY <1>17 DEF Dst, Neighbour
  <2>2. SamePosted(f, Adds, c[2], step[r], pc[r], exchange[r], p2, e2)
    BY <1>16, Zenon DEF SendCounts
  <2> QED
    BY <1>9, <1>13, <1>14, <1>17, <2>1, <2>2, Zenon DEF PostedOn, SamePosted
<1>18. PipeOK(k, g)' /\ CopiesOK(k, g)'
  <2>1. PostedOn(k, g)' = PostedOn(k, g) /\ CopyIn(k, g)'
    <3>1. inbox'[k][g] = inbox[k][g]
      BY <1>2a
    <3>2. Dst(k) = r => PostedOn(k, g)' = PostedOn(k, g)
      BY <1>5, <1>7, <1>17
    <3>3. Dst(k) = r /\ inbox[k][g].st # "none" =>
            Open(g, Adds, pc'[r]) /\ (g = "J" => insertJ'[r].pc = "WaitForReceived")
      BY <1>5, <1>7, <1>12, Zenon DEF StillOpen
    <3> QED
      BY <1>5, <1>7, <1>11, <3>1, <3>2, <3>3, ReceivingKept
  <2>2. SentOn(k, g)' = SentOn(k, g) + 1
    <3>1. MoreSent(g, Adds, k[2], sendJ[k], step[r], pc[r], exchange[r], p2, e2)
      BY <1>5, <1>7, <1>16, Zenon DEF SendCounts
    <3> QED
      BY <1>2a, <1>7, <1>9, <1>13, <1>14, <3>1, Zenon DEF SentOn, MoreSent
  <2>3. /\ SentOn(k, g) \in Int /\ PostedOn(k, g) \in Int
        /\ d2h[k][g] \in BOOLEAN /\ sending[k][g] \in BOOLEAN
        /\ net[k][g] \in Seq(Messages) /\ inbox[k][g] \in Inboxes /\ PipeOK(k, g)
    BY <1>5, <1>7, ChannelFacts
  <2>4. d2h[k][g] = FALSE
    BY <1>2, <2>3
  <2>5. Pipe(g, SentOn(k, g), PostedOn(k, g), FALSE, sending[k][g], host[k][g], net[k][g],
             inbox[k][g], guard[k][g])
    BY <2>3, <2>4 DEF PipeOK
  <2>6. Pipe(g, SentOn(k, g) + 1, PostedOn(k, g), TRUE, sending[k][g], host[k][g], net[k][g],
             inbox[k][g], guard[k][g])
    BY <1>2, <2>3, <2>5, PipeSend
  <2>7. PipeOK(k, g)'
    BY <1>2a, <1>8, <2>1, <2>2, <2>6, Zenon DEF PipeOK
  <2>8. CopyOut(k, g)'
    <3>1. Outbox(k, g) = Version(g, SentOn(k, g) + 1)
      BY <1>4, <1>7, BorderCopied
    <3>2. Outbox(k, g)' = Outbox(k, g) /\ g # "J"
      BY <1>2a, <1>4 DEF Outbox
    <3> QED
      BY <1>7, <1>12, <1>13, <2>2, <3>1, <3>2, Zenon DEF CopyOut
  <2> QED
    BY <2>1, <2>7, <2>8 DEF CopiesOK
<1>19. ASSUME NEW c \in Channels, NEW f \in Fields, c # k \/ f # g
       PROVE  PipeOK(c, f)' /\ CopiesOK(c, f)'
  <2>1. d2h'[c][f] = d2h[c][f]
    BY <1>8, <1>19
  <2>2. Dst(c) = r => PostedOn(c, f)' = PostedOn(c, f)
    BY <1>17
  <2>3. c[1] = r => SentOn(c, f)' = SentOn(c, f)
    <3>1. SUFFICES ASSUME c[1] = r PROVE SentOn(c, f)' = SentOn(c, f)
      OBVIOUS
    <3>2. f # g \/ exchange[r] # SendAt(c[2])
      BY <1>7, <1>19, <3>1, ChannelEnds
    <3>3. SameSent(f, Adds, c[2], sendJ[c], step[r], pc[r], exchange[r], p2, e2)
      BY <1>16, <3>2, Zenon DEF SendCounts
    <3> QED
      BY <1>2a, <1>9, <1>13, <1>14, <3>1, <3>3, Zenon DEF SentOn, SameSent
  <2>4. c[1] = r /\ d2h[c][f] => /\ Open(f, Adds, pc'[r]) /\ Outbox(c, f)' = Outbox(c, f)
                                 /\ f = "J" => sendJ'[c] = sendJ[c]
    BY <1>12, Zenon DEF StillOpen
  <2>5. Dst(c) = r /\ inbox[c][f].st # "none" =>
          Open(f, Adds, pc'[r]) /\ (f = "J" => insertJ'[r].pc = "WaitForReceived")
    BY <1>12, Zenon DEF StillOpen
  <2> QED
    BY <1>2a, <1>11, <2>1, <2>2, <2>3, <2>4, <2>5, ChannelKept
<1> QED
  BY <1>10, <1>12, <1>18, <1>19 DEF Inv

-----------------------------------------------------------------------------
(***************************************************************************)
(* FieldJ::asyncCommunication                                              *)
(***************************************************************************)
(* The place of the exchange of the current.                                *)
LEMMA CommJAt ==
  ASSUME Inv, NEW r \in Ranks, Runs(r, "commJ")
  PROVE  /\ Adds \in {12, 13} /\ step[r] \in Nat /\ pc[r] = 9
         /\ exchange[r] \in 1 .. 4 /\ RankOK(r)
<1>1. /\ Adds \in {12, 13} /\ step[r] \in Nat /\ exchange[r] \in 1 .. 4
      /\ OpAt(Adds, pc[r], Op(r)) /\ Op(r).op = "commJ" /\ RankOK(r)
  BY RunsAt
<1>2. pc[r] = 9
  BY <1>1, Zenon DEF OpAt
<1> QED
  BY <1>1, <1>2

(* A receive of the current is posted.                                      *)
LEMMA ReceiveJKeeps ==
  ASSUME Inv, NEW r \in Ranks, ReceiveJ(r)
  PROVE  Inv'
<1>1. PICK k : k = ChannelIn(r, Directions[exchange[r]])
  OBVIOUS
<1>2. /\ Runs(r, "commJ") /\ exchange[r] <= 2
      /\ inbox[k]["J"].st = "none"
      /\ inbox' = [inbox EXCEPT ![k]["J"].st = "posted"]
      /\ insertJ' = [insertJ EXCEPT ![r] = [pc |-> "WaitForReceived", next |-> 1]]
      /\ NextExchange(r, 3)
      /\ UNCHANGED <<border, guard, deposited, added, d2h, host, sending, net, dev, sendJ>>
  BY <1>1 DEF ReceiveJ, fieldVars, sendVars
<1>2a. UNCHANGED <<border, guard, deposited, added, d2h, host, sending, net, dev, sendJ>>
  BY <1>2
<1>3. Types /\ "J" \in Fields
  BY DEF Inv, Fields
<1>4. Adds \in {12, 13} /\ step[r] \in Nat /\ pc[r] = 9 /\ exchange[r] \in {1, 2} /\ RankOK(r)
  <2>1. Adds \in {12, 13} /\ step[r] \in Nat /\ pc[r] = 9 /\ exchange[r] \in 1 .. 4 /\ RankOK(r)
    BY <1>2, CommJAt
  <2> QED
    BY <1>2, <2>1
<1>5. /\ k \in Channels /\ Dst(k) = r
      /\ \A c \in Channels : Dst(c) = r /\ c # k => c[2] # k[2]
      /\ exchange[r] = PostAt("J", k[2])
      /\ \A d \in {"right", "left"} : d # k[2] => exchange[r] # PostAt("J", d)
  <2>1. PICK d \in {"right", "left"} : /\ k = ChannelIn(r, d)
                                       /\ exchange[r] = 1 => d = "right"
                                       /\ exchange[r] = 2 => d = "left"
    BY <1>1, <1>4 DEF Directions
  <2>2. /\ k \in Channels /\ Dst(k) = r /\ k[2] = Mirrored(d)
        /\ \A c \in Channels : Dst(c) = r /\ c[2] = Mirrored(d) => c = k
    BY <2>1, ReceivesFrom, Zenon
  <2>3. /\ exchange[r] = 1 => k[2] = "left"
        /\ exchange[r] = 2 => k[2] = "right"
    BY <2>1, <2>2 DEF Mirrored
  <2> QED
    BY <1>4, <2>2, <2>3 DEF PostAt
<1>6. PICK ib2 : ib2 = [inbox[k]["J"] EXCEPT !.st = "posted"]
  OBVIOUS
<1>7. inbox \in [Channels -> [Fields -> Inboxes]] /\ inbox[k]["J"] \in Inboxes
  BY <1>3, <1>5 DEF Types, Inboxes
<1>8. ib2 \in Inboxes /\ ib2.st = "posted"
  BY <1>6, <1>7 DEF Inboxes
<1>9. inbox' = [inbox EXCEPT ![k]["J"] = ib2]
  BY <1>2, <1>6
<1>10. /\ inbox' \in [Channels -> [Fields -> Inboxes]] /\ inbox'[k]["J"] = ib2
       /\ \A c \in Channels, f \in Fields : c # k \/ f # "J" => inbox'[c][f] = inbox[c][f]
  BY <1>3, <1>5, <1>7, <1>8, <1>9, OneChannel
<1>11. PICK t2 : t2 = [pc |-> "WaitForReceived", next |-> 1]
  OBVIOUS
<1>12. t2 \in InsertTasks /\ t2.pc = "WaitForReceived" /\ t2.next = 1
  BY <1>11 DEF InsertTasks
<1>13. insertJ \in [Ranks -> InsertTasks] /\ insertJ' = [insertJ EXCEPT ![r] = t2]
  BY <1>2, <1>3, <1>11 DEF Types, InsertTasks
<1>14. /\ insertJ' \in [Ranks -> InsertTasks] /\ insertJ'[r] = t2
       /\ \A q \in Ranks : q # r => insertJ'[q] = insertJ[q]
  BY <1>12, <1>13
<1>15. /\ pc' \in [Ranks -> Nat] /\ exchange' \in [Ranks -> Nat]
       /\ GoesOn(pc[r], exchange[r], 3, pc'[r], exchange'[r])
       /\ \A q \in Ranks : q # r => pc'[q] = pc[q] /\ exchange'[q] = exchange[q]
       /\ UNCHANGED <<filtered, step>>
  BY <1>2, <1>3, ExchangeGoesOn
<1>16. pc'[r] = pc[r] /\ exchange'[r] = exchange[r] + 1
  BY <1>4, <1>15 DEF GoesOn
<1>17. Types'
  BY <1>2a, <1>3, <1>10, <1>14, <1>15 DEF Types, Inboxes, InsertTasks
<1>18. OthersStay(r)
  BY <1>2a, <1>14, <1>15 DEF OthersStay
<1>19. Adds' = Adds
  BY <1>15 DEF Adds
<1>20. PICK e2 : e2 = exchange[r] + 1
  OBVIOUS
<1>21. After(exchange[r], e2)
  BY <1>20 DEF After
<1>22. RankOK(r)'
  <2>1. PICK x, y : x = added[r][ChannelIn(r, "right")] /\ y = added[r][ChannelIn(r, "left")]
    OBVIOUS
  <2>2. RankAt(Adds, step[r], 9, exchange[r], border[r], deposited[r], insertJ[r], x, y)
    BY <1>4, <2>1, RankAtState, Zenon
  <2>3. insertJ[r] \in InsertTasks
    BY <1>13
  <2>4. RankAt(Adds, step[r], 9, e2, border[r], deposited[r], t2, x, y)
    BY <1>4, <1>12, <1>21, <2>2, <2>3, RankPostsJ
  <2>5. RankAt(Adds, step[r], pc[r], exchange[r], border[r], deposited[r], insertJ[r],
               added[r][ChannelIn(r, "right")], added[r][ChannelIn(r, "left")])'
    BY <1>2a, <1>4, <1>14, <1>15, <1>16, <1>19, <1>20, <2>1, <2>4, Zenon DEF ChannelIn, Neighbour
  <2> QED
    BY <2>5, RankAtState, PTL
<1>23. /\ \A q \in Ranks : q # r => RankOK(q)'
       /\ \A c \in Channels : c[1] # r => SendTaskOK(c)'
  BY <1>18, OtherRanks
<1>24. ASSUME NEW c \in Channels, c[1] = r PROVE SendTaskOK(c)'
  <2>1. SendTaskOK(c)
    BY DEF Inv
  <2> QED
    BY <1>2a, <1>15, <1>16, <1>19, <1>24, <2>1, Zenon DEF SendTaskOK
<1>25. StillOpen(r)
  <2>1. \A c \in Channels, f \in Fields :
          CopyOut(c, f) /\ CopyIn(c, f) /\ Outbox(c, f)' = Outbox(c, f)
    BY <1>2a DEF Inv, CopiesOK, Outbox
  <2>2. ASSUME NEW c \in Channels, NEW f \in Fields, c[1] = r, d2h[c][f]
        PROVE  Open(f, Adds, pc'[r])
    BY <1>16, <2>1, <2>2, Zenon DEF CopyOut
  <2>3. ASSUME NEW c \in Channels, NEW f \in Fields, Dst(c) = r, inbox[c][f].st # "none"
        PROVE  Open(f, Adds, pc'[r])
    BY <1>16, <2>1, <2>3, Zenon DEF CopyIn
  <2>4. insertJ'[r].pc = "WaitForReceived" /\ sendJ' = sendJ
    BY <1>2a, <1>12, <1>14, Zenon
  <2> QED
    BY <2>1, <2>2, <2>3, <2>4, Zenon DEF StillOpen
<1>26. ASSUME NEW c \in Channels, NEW f \in Fields
       PROVE  ReceiveCounts("J", f, Adds, c[2], sendJ[c], step[r], 9, exchange[r], 9, e2)
  <2>1. c[2] \in {"right", "left"}
    BY ChannelEnds
  <2> QED
    BY <1>4, <1>21, <2>1, PostMoveJ
<1>27. ASSUME NEW c \in Channels, NEW f \in Fields, c[1] = r PROVE SentOn(c, f)' = SentOn(c, f)
  <2>1. SameSent(f, Adds, c[2], sendJ[c], step[r], 9, exchange[r], 9, e2)
    BY <1>26, Zenon DEF ReceiveCounts
  <2> QED
    BY <1>2a, <1>4, <1>15, <1>16, <1>19, <1>20, <1>27, <2>1, Zenon DEF SentOn, SameSent
<1>28. PipeOK(k, "J")' /\ CopiesOK(k, "J")'
  <2>1. SentOn(k, "J")' = SentOn(k, "J") /\ CopyOut(k, "J")'
    <3>1. d2h'[k]["J"] = d2h[k]["J"]
      BY <1>2a
    <3>2. k[1] = r => SentOn(k, "J")' = SentOn(k, "J")
      BY <1>3, <1>5, <1>27
    <3>3. k[1] = r /\ d2h[k]["J"] => /\ Open("J", Adds, pc'[r]) /\ Outbox(k, "J")' = Outbox(k, "J")
                                     /\ sendJ'[k] = sendJ[k]
      BY <1>3, <1>5, <1>25, Zenon DEF StillOpen
    <3> QED
      BY <1>3, <1>5, <1>18, <3>1, <3>2, <3>3, SendingKept
  <2>2. PostedOn(k, "J")' = PostedOn(k, "J") + 1
    <3>1. MorePosted("J", Adds, k[2], step[r], 9, exchange[r], 9, e2)
      BY <1>3, <1>5, <1>26, Zenon DEF ReceiveCounts
    <3>2. Dst(k)' = r
      BY <1>5 DEF Dst, Neighbour
    <3> QED
      BY <1>4, <1>5, <1>15, <1>16, <1>19, <1>20, <3>1, <3>2, Zenon DEF PostedOn, MorePosted
  <2>3. /\ SentOn(k, "J") \in Int /\ PostedOn(k, "J") \in Int
        /\ d2h[k]["J"] \in BOOLEAN /\ sending[k]["J"] \in BOOLEAN
        /\ net[k]["J"] \in Seq(Messages) /\ inbox[k]["J"] \in Inboxes /\ PipeOK(k, "J")
    BY <1>3, <1>5, ChannelFacts
  <2>4. Pipe("J", SentOn(k, "J"), PostedOn(k, "J"), d2h[k]["J"], sending[k]["J"], host[k]["J"],
             net[k]["J"], inbox[k]["J"], guard[k]["J"])
    BY <2>3 DEF PipeOK
  <2>5. Pipe("J", SentOn(k, "J"), PostedOn(k, "J") + 1, d2h[k]["J"], sending[k]["J"], host[k]["J"],
             net[k]["J"], ib2, guard[k]["J"])
    BY <1>2, <1>6, <2>3, <2>4, PipePost
  <2>6. PipeOK(k, "J")'
    BY <1>2a, <1>10, <2>1, <2>2, <2>5, Zenon DEF PipeOK
  <2>7. CopyIn(k, "J")'
    <3>1. Dst(k)' = r
      BY <1>5 DEF Dst, Neighbour
    <3>2. Open("J", Adds, 9)
      BY <1>4 DEF Open, WaitJ
    <3> QED
      BY <1>4, <1>12, <1>14, <1>16, <1>19, <3>1, <3>2, Zenon DEF CopyIn
  <2> QED
    BY <2>1, <2>6, <2>7 DEF CopiesOK
<1>29. ASSUME NEW c \in Channels, NEW f \in Fields, c # k \/ f # "J"
       PROVE  PipeOK(c, f)' /\ CopiesOK(c, f)'
  <2>1. inbox'[c][f] = inbox[c][f]
    BY <1>10, <1>29
  <2>2. c[1] = r => SentOn(c, f)' = SentOn(c, f)
    BY <1>27
  <2>3. Dst(c) = r => PostedOn(c, f)' = PostedOn(c, f)
    <3>1. SUFFICES ASSUME Dst(c) = r PROVE PostedOn(c, f)' = PostedOn(c, f)
      OBVIOUS
    <3>2. f # "J" \/ exchange[r] # PostAt(f, c[2])
      BY <1>5, <1>29, <3>1, ChannelEnds
    <3>3. SamePosted(f, Adds, c[2], step[r], 9, exchange[r], 9, e2)
      BY <1>26, <3>2, Zenon DEF ReceiveCounts
    <3>4. Dst(c)' = r
      BY <3>1 DEF Dst, Neighbour
    <3> QED
      BY <1>4, <1>15, <1>16, <1>19, <1>20, <3>1, <3>3, <3>4, Zenon DEF PostedOn, SamePosted
  <2>4. c[1] = r /\ d2h[c][f] => /\ Open(f, Adds, pc'[r]) /\ Outbox(c, f)' = Outbox(c, f)
                                 /\ f = "J" => sendJ'[c] = sendJ[c]
    BY <1>25, Zenon DEF StillOpen
  <2>5. Dst(c) = r /\ inbox[c][f].st # "none" =>
          Open(f, Adds, pc'[r]) /\ (f = "J" => insertJ'[r].pc = "WaitForReceived")
    BY <1>25, Zenon DEF StillOpen
  <2> QED
    BY <1>2a, <1>18, <2>1, <2>2, <2>3, <2>4, <2>5, ChannelKept
<1> QED
  BY <1>17, <1>22, <1>23, <1>24, <1>28, <1>29 DEF Inv

(* The tasks that send the current are created.                             *)
LEMMA SendJKeeps ==
  ASSUME Inv, NEW r \in Ranks, SendJ(r)
  PROVE  Inv'
<1>1. /\ Runs(r, "commJ") /\ exchange[r] = 3
      /\ sendJ' = [c \in Channels |-> IF c \in Outgoing(r) THEN "WaitForBash" ELSE sendJ[c]]
      /\ NextExchange(r, 3)
      /\ UNCHANGED <<border, guard, deposited, added, d2h, host, sending, net, inbox, dev, insertJ>>
  BY DEF SendJ, fieldVars, sendVars
<1>1a. UNCHANGED <<border, guard, deposited, added, d2h, host, sending, net, inbox, dev, insertJ>>
  BY <1>1
<1>2. Types /\ "J" \in Fields
  BY DEF Inv, Fields
<1>3. Adds \in {12, 13} /\ step[r] \in Nat /\ pc[r] = 9 /\ exchange[r] = 3 /\ RankOK(r)
  BY <1>1, CommJAt
<1>4. /\ sendJ' \in [Channels -> {"WaitForBash", "Bashed", "InitSend", "WaitForSendEnd", "Finished"}]
      /\ \A c \in Channels : /\ c[1] = r => sendJ'[c] = "WaitForBash"
                             /\ c[1] # r => sendJ'[c] = sendJ[c]
  BY <1>1, <1>2 DEF Types, Outgoing
<1>5. /\ pc' \in [Ranks -> Nat] /\ exchange' \in [Ranks -> Nat]
      /\ GoesOn(pc[r], exchange[r], 3, pc'[r], exchange'[r])
      /\ \A q \in Ranks : q # r => pc'[q] = pc[q] /\ exchange'[q] = exchange[q]
      /\ UNCHANGED <<filtered, step>>
  BY <1>1, <1>2, ExchangeGoesOn
<1>6. pc'[r] = 10 /\ exchange'[r] = 1
  BY <1>3, <1>5 DEF GoesOn
<1>7. Types'
  BY <1>1a, <1>2, <1>4, <1>5 DEF Types
<1>8. OthersStay(r)
  BY <1>1a, <1>4, <1>5 DEF OthersStay
<1>9. Adds' = Adds
  BY <1>5 DEF Adds
<1>10. RankOK(r)'
  <2>1. PICK x, y : x = added[r][ChannelIn(r, "right")] /\ y = added[r][ChannelIn(r, "left")]
    OBVIOUS
  <2>2. RankAt(Adds, step[r], 9, 3, border[r], deposited[r], insertJ[r], x, y)
    BY <1>3, <2>1, RankAtState, Zenon
  <2>3. insertJ[r] \in InsertTasks
    BY <1>2 DEF Types, InsertTasks
  <2>4. RankAt(Adds, step[r], 10, 1, border[r], deposited[r], insertJ[r], x, y)
    BY <1>3, <2>2, <2>3, RankSendsJ
  <2>5. RankAt(Adds, step[r], pc[r], exchange[r], border[r], deposited[r], insertJ[r],
               added[r][ChannelIn(r, "right")], added[r][ChannelIn(r, "left")])'
    BY <1>1a, <1>5, <1>6, <1>9, <2>1, <2>4, Zenon DEF ChannelIn, Neighbour
  <2> QED
    BY <2>5, RankAtState, PTL
<1>11. /\ \A q \in Ranks : q # r => RankOK(q)'
       /\ \A c \in Channels : c[1] # r => SendTaskOK(c)'
  BY <1>8, OtherRanks
<1>12. ASSUME NEW c \in Channels, c[1] = r PROVE SendTaskOK(c)'
  <2>1. 10 \in 10 .. WaitJ(Adds)
    BY <1>3 DEF WaitJ
  <2> QED
    BY <1>4, <1>6, <1>9, <1>12, <2>1 DEF SendTaskOK
<1>13. \A c \in Channels, f \in Fields : CopyOut(c, f) /\ CopyIn(c, f)
  BY DEF Inv, CopiesOK
<1>14. \A f \in Fields : Open(f, Adds, 9) => f = "J"
  <2>1. AtComm("J", Adds, 9) /\ 9 \in 1 .. Adds + 7
    BY <1>3 DEF AtComm
  <2> QED
    BY <1>2, <1>3, <2>1, OpenFields
<1>15. ASSUME NEW c \in Channels, NEW f \in Fields, c[1] = r PROVE ~d2h[c][f]
  <2>1. SUFFICES ASSUME d2h[c][f] PROVE FALSE
    OBVIOUS
  <2>2. sendJ[c] = "WaitForSendEnd"
    BY <1>3, <1>13, <1>14, <1>15, <2>1, Zenon DEF CopyOut
  <2>3. 9 \notin 10 .. WaitJ(Adds)
    BY <1>3 DEF WaitJ
  <2>4. "WaitForSendEnd" # "Finished"
    OBVIOUS
  <2> QED
    BY <1>3, <1>15, <2>2, <2>3, <2>4, Zenon DEF Inv, SendTaskOK
<1>16. ASSUME NEW c \in Channels, NEW f \in Fields, Dst(c) = r, inbox[c][f].st # "none"
       PROVE  Open(f, Adds, pc'[r]) /\ (f = "J" => insertJ'[r].pc = "WaitForReceived")
  <2>1. f = "J" /\ insertJ[r].pc = "WaitForReceived"
    BY <1>3, <1>13, <1>14, <1>16, Zenon DEF CopyIn
  <2>2. Open("J", Adds, 10)
    BY <1>3 DEF Open, WaitJ
  <2> QED
    BY <1>1a, <1>6, <2>1, <2>2, Zenon
<1>17. ASSUME NEW c \in Channels, NEW f \in Fields PROVE PipeOK(c, f)' /\ CopiesOK(c, f)'
  <2>1. c[2] \in {"right", "left"} /\ Dst(c)' = Dst(c)
    BY ChannelEnds DEF Dst, Neighbour
  <2>2. TaskMade(f, Adds, c[2], sendJ[c], step[r])
    BY <1>3, <2>1, SendMoveJ
  <2>3. c[1] = r => SentOn(c, f)' = SentOn(c, f)
    BY <1>3, <1>4, <1>5, <1>6, <1>9, <2>2, Zenon DEF SentOn, TaskMade
  <2>4. Dst(c) = r => PostedOn(c, f)' = PostedOn(c, f)
    BY <1>3, <1>5, <1>6, <1>9, <2>1, <2>2, Zenon DEF PostedOn, TaskMade
  <2>5. c[1] = r => ~d2h[c][f]
    BY <1>15
  <2>6. Dst(c) = r /\ inbox[c][f].st # "none" =>
          Open(f, Adds, pc'[r]) /\ (f = "J" => insertJ'[r].pc = "WaitForReceived")
    BY <1>16
  <2> QED
    BY <1>1a, <1>8, <2>3, <2>4, <2>5, <2>6, ChannelKept
<1> QED
  BY <1>7, <1>10, <1>11, <1>12, <1>17 DEF Inv

(* A step of a rank that stays at its place, with the channels as they are. *)
LEMMA StaysAt ==
  ASSUME Inv, NEW r \in Ranks, OthersStay(r), Types', RankOK(r)',
         UNCHANGED <<step, pc, exchange, guard, d2h, host, sending, net, inbox, sendJ>>,
         \A c \in Channels, f \in Fields : c[1] = r /\ d2h[c][f] => Outbox(c, f)' = Outbox(c, f),
         \A c \in Channels : Dst(c) = r => inbox[c]["J"].st = "none"
  PROVE  Inv'
<1>1. /\ Adds' = Adds
      /\ \A q \in Ranks : q # r => RankOK(q)'
      /\ \A c \in Channels : c[1] # r => SendTaskOK(c)'
  BY OtherRanks
<1>2. \A c \in Channels : SendTaskOK(c)'
  <2>1. \A c \in Channels : SendTaskOK(c)
    BY DEF Inv
  <2>2. dev' = dev
    BY DEF OthersStay
  <2> QED
    BY <1>1, <2>1, <2>2, Zenon DEF SendTaskOK
<1>3. ASSUME NEW c \in Channels, NEW f \in Fields PROVE PipeOK(c, f)' /\ CopiesOK(c, f)'
  <2>1. SentOn(c, f)' = SentOn(c, f)
    BY <1>1, Zenon DEF SentOn
  <2>2. PostedOn(c, f)' = PostedOn(c, f)
    BY <1>1, Zenon DEF PostedOn, Dst, Neighbour
  <2>3. CopyOut(c, f) /\ CopyIn(c, f)
    BY DEF Inv, CopiesOK
  <2>4. c[1] = r /\ d2h[c][f] => /\ Open(f, Adds, pc'[r]) /\ Outbox(c, f)' = Outbox(c, f)
                                 /\ f = "J" => sendJ'[c] = sendJ[c]
    BY <2>3, Zenon DEF CopyOut
  <2>5. Dst(c) = r /\ inbox[c][f].st # "none" =>
          Open(f, Adds, pc'[r]) /\ (f = "J" => insertJ'[r].pc = "WaitForReceived")
    BY <2>3, Zenon DEF CopyIn
  <2> QED
    BY <2>1, <2>2, <2>4, <2>5, ChannelKept
<1> QED
  BY <1>1, <1>2, <1>3 DEF Inv

(* TaskFieldReceiveAndInsert goes on: all has been received, or inserted.   *)
LEMMA TaskGoesOnKeeps ==
  ASSUME Inv, NEW r \in Ranks, insertJ[r].pc # "Finished",
         NEW v \in {"WaitInsertFinished", "Finished"}, insertJ' = [insertJ EXCEPT ![r].pc = v],
         UNCHANGED <<filtered, step, pc, exchange, border, guard, deposited, added, d2h, host,
                     sending, net, inbox, dev, sendJ>>,
         NEW t2, t2 = [insertJ[r] EXCEPT !.pc = v],
         TaskGoesOn(pc[r], exchange[r], insertJ[r], t2),
         \A c \in Channels : Dst(c) = r => inbox[c]["J"].st = "none"
  PROVE  Inv'
<1>1. Types
  BY DEF Inv
<1>2. insertJ \in [Ranks -> InsertTasks] /\ insertJ[r] \in InsertTasks
  BY <1>1 DEF Types, InsertTasks
<1>3. t2 \in InsertTasks
  BY <1>2 DEF InsertTasks
<1>4. insertJ' = [insertJ EXCEPT ![r] = t2]
  OBVIOUS
<1>5. /\ insertJ' \in [Ranks -> InsertTasks] /\ insertJ'[r] = t2
      /\ \A q \in Ranks : q # r => insertJ'[q] = insertJ[q]
  BY <1>2, <1>3, <1>4
<1>6. Types'
  BY <1>1, <1>5 DEF Types, InsertTasks
<1>7. OthersStay(r)
  BY <1>5 DEF OthersStay
<1>8. Adds' = Adds
  BY DEF Adds
<1>9. RankOK(r)'
  <2>1. PICK x, y : x = added[r][ChannelIn(r, "right")] /\ y = added[r][ChannelIn(r, "left")]
    OBVIOUS
  <2>2. Adds \in {12, 13} /\ step[r] \in Nat /\ RankOK(r)
    BY RankFacts
  <2>3. RankAt(Adds, step[r], pc[r], exchange[r], border[r], deposited[r], insertJ[r], x, y)
    BY <2>1, <2>2, RankAtState, Zenon
  <2>4. RankAt(Adds, step[r], pc[r], exchange[r], border[r], deposited[r], t2, x, y)
    BY <1>2, <2>2, <2>3, RankInsertGoes
  <2>5. RankAt(Adds, step[r], pc[r], exchange[r], border[r], deposited[r], insertJ[r],
               added[r][ChannelIn(r, "right")], added[r][ChannelIn(r, "left")])'
    BY <1>5, <1>8, <2>1, <2>4, Zenon DEF ChannelIn, Neighbour
  <2> QED
    BY <2>5, RankAtState, PTL
<1>10. \A c \in Channels, f \in Fields : c[1] = r /\ d2h[c][f] => Outbox(c, f)' = Outbox(c, f)
  BY DEF Outbox
<1> QED
  BY <1>6, <1>7, <1>9, <1>10, StaysAt

(* All have been received.                                                  *)
LEMMA InsertFieldKeeps ==
  ASSUME Inv, NEW r \in Ranks, InsertField(r)
  PROVE  Inv'
<1>1. /\ insertJ[r].pc = "WaitForReceived"
      /\ \A c \in Incoming(r) : inbox[c]["J"].st = "none"
      /\ ~(Op(r).op = "commJ" /\ exchange[r] <= 2)
      /\ insertJ' = [insertJ EXCEPT ![r].pc = "WaitInsertFinished"]
      /\ UNCHANGED <<filtered, step, pc, exchange, border, guard, deposited, added, d2h, host,
                     sending, net, inbox, dev, sendJ>>
  BY DEF InsertField, mainVars, fieldVars, sendVars
<1>2. PICK t2 : t2 = [insertJ[r] EXCEPT !.pc = "WaitInsertFinished"]
  OBVIOUS
<1>3. insertJ[r] \in InsertTasks
  BY DEF Inv, Types, InsertTasks
<1>4. t2.pc = "WaitInsertFinished" /\ t2.next = insertJ[r].next
  BY <1>2, <1>3 DEF InsertTasks
<1>5. ~(pc[r] = 9 /\ exchange[r] <= 2)
  <2>1. SUFFICES ASSUME pc[r] = 9 PROVE Op(r).op = "commJ"
    BY <1>1
  <2>2. Adds \in {12, 13} /\ (AtEnd(r) <=> pc[r] = Adds + 7) /\ (~AtEnd(r) => OpAt(Adds, pc[r], Op(r)))
    BY RankFacts
  <2>3. OpAt(Adds, pc[r], Op(r))
    BY <2>1, <2>2
  <2> QED
    BY <2>1, <2>3, Zenon DEF OpAt
<1>6. TaskGoesOn(pc[r], exchange[r], insertJ[r], t2)
  BY <1>4, <1>5, Zenon DEF TaskGoesOn
<1>7. \A c \in Channels : Dst(c) = r => inbox[c]["J"].st = "none"
  BY <1>1 DEF Incoming
<1>8. insertJ[r].pc # "Finished" /\ "WaitInsertFinished" \in {"WaitInsertFinished", "Finished"}
  BY <1>1
<1> QED
  BY <1>1, <1>2, <1>6, <1>7, <1>8, TaskGoesOnKeeps

(* While current is inserted, no receive of it is open.                     *)
LEMMA NothingComes ==
  ASSUME Inv, NEW r \in Ranks
  PROVE  insertJ[r].pc # "WaitForReceived" =>
           \A c \in Channels : Dst(c) = r => inbox[c]["J"].st = "none"
<1>1. \A c \in Channels : CopyIn(c, "J")
  BY DEF Inv, CopiesOK, Fields
<1> QED
  BY <1>1, Zenon DEF CopyIn

(* All has been inserted.                                                   *)
LEMMA InsertEndKeeps ==
  ASSUME Inv, NEW r \in Ranks, InsertEnd(r)
  PROVE  Inv'
<1>1. /\ insertJ[r].pc = "WaitInsertFinished" /\ insertJ[r].next > 2
      /\ insertJ' = [insertJ EXCEPT ![r].pc = "Finished"]
      /\ UNCHANGED <<filtered, step, pc, exchange, border, guard, deposited, added, d2h, host,
                     sending, net, inbox, dev, sendJ>>
  BY DEF InsertEnd, mainVars, fieldVars, sendVars
<1>2. PICK t2 : t2 = [insertJ[r] EXCEPT !.pc = "Finished"]
  OBVIOUS
<1>3. insertJ[r] \in InsertTasks
  BY DEF Inv, Types, InsertTasks
<1>4. t2.pc = "Finished" /\ t2.next = insertJ[r].next
  BY <1>2, <1>3 DEF InsertTasks
<1>5. TaskGoesOn(pc[r], exchange[r], insertJ[r], t2)
  BY <1>1, <1>4, Zenon DEF TaskGoesOn
<1>6. insertJ[r].pc # "Finished" /\ insertJ[r].pc # "WaitForReceived"
      /\ "Finished" \in {"WaitInsertFinished", "Finished"}
  BY <1>1
<1>7. \A c \in Channels : Dst(c) = r => inbox[c]["J"].st = "none"
  BY <1>6, NothingComes
<1> QED
  BY <1>1, <1>2, <1>5, <1>6, <1>7, TaskGoesOnKeeps

(* The receives of the current are complete when it is inserted.            *)
LEMMA AllPosted ==
  ASSUME NEW o \in {12, 13}, NEW s \in Nat, NEW p, NEW e, NEW d \in {"right", "left"},
         InsertOpen(o, p, e), p = 9 => e = 3
  PROVE  Posted("J", o, s, p, e, d) = s + 1
<1>1. (p = 9 /\ e = 3) \/ p \in 10 .. WaitJ(o)
  BY DEF InsertOpen
<1>2. CASE p = 9 /\ e = 3
  BY <1>2 DEF Posted, Full, One, AtComm, PostAt
<1>3. CASE p \in 10 .. WaitJ(o)
  BY <1>3 DEF Posted, Full, One, AtComm, WaitJ
<1> QED
  BY <1>1, <1>2, <1>3

(* What KernelInsertCurrent finds in the receive buffer.                    *)
LEMMA InsertedData ==
  ASSUME Inv, NEW r \in Ranks, NEW k \in Channels, Dst(k) = r
  PROVE  insertJ[r].pc = "WaitInsertFinished" =>
           /\ InsertOpen(Adds, pc[r], exchange[r])
           /\ inbox[k]["J"].data = step[r] + 1
<1>1. SUFFICES ASSUME insertJ[r].pc = "WaitInsertFinished"
               PROVE  /\ InsertOpen(Adds, pc[r], exchange[r])
                      /\ inbox[k]["J"].data = step[r] + 1
  OBVIOUS
<1>2. /\ Adds \in {12, 13} /\ step[r] \in Nat /\ pc[r] \in 1 .. Adds + 7 /\ exchange[r] \in 1 .. 4
      /\ RankOK(r) /\ k[2] \in {"right", "left"} /\ "J" \in Fields
  BY RankFacts, ChannelEnds DEF Fields
<1>3. InsertTaskOK(Adds, pc[r], exchange[r], insertJ[r]) /\ (pc[r] = 9 => exchange[r] <= 3)
  BY <1>2, Zenon DEF RankOK, PlaceOK
<1>4. InsertOpen(Adds, pc[r], exchange[r])
  BY <1>1, <1>3 DEF InsertTaskOK
<1>5. pc[r] = 9 => exchange[r] = 3
  BY <1>1, <1>2, <1>3, <1>4 DEF InsertTaskOK, InsertOpen, WaitJ
<1>6. Posted("J", Adds, step[r], pc[r], exchange[r], k[2]) = step[r] + 1
  BY <1>2, <1>4, <1>5, AllPosted
<1>7. PostedOn(k, "J") = step[r] + 1
  BY <1>6, Zenon DEF PostedOn
<1>8. inbox[k]["J"].st = "none"
  BY <1>1, NothingComes
<1>9. PipeOK(k, "J")
  BY <1>2 DEF Inv
<1>10. inbox[k]["J"].data = Version("J", PostedOn(k, "J"))
  BY <1>8, <1>9, Zenon DEF PipeOK, Pipe
<1>11. Version("J", step[r] + 1) = step[r] + 1
  BY DEF Version
<1> QED
  BY <1>4, <1>7, <1>10, <1>11, Zenon

(* The device has run KernelInsertCurrent.                                  *)
LEMMA InsertCurrentKeeps ==
  ASSUME Inv, NEW r \in Ranks, InsertCurrent(r)
  PROVE  Inv'
<1>1. PICK k, v : k = ChannelIn(r, Directions[insertJ[r].next]) /\ v = inbox[k]["J"].data
  OBVIOUS
<1>2. /\ insertJ[r].pc = "WaitInsertFinished" /\ insertJ[r].next <= 2
      /\ added' = [added EXCEPT ![r][k] = Append(@, v)]
      /\ border' = [border EXCEPT ![r]["Jrecv"] = @ + 1]
      /\ insertJ' = [insertJ EXCEPT ![r].next = @ + 1]
      /\ UNCHANGED <<filtered, step, pc, exchange, guard, deposited, d2h, host, sending, net,
                     inbox, dev, sendJ>>
  BY <1>1 DEF InsertCurrent, mainVars, sendVars
<1>2a. UNCHANGED <<filtered, step, pc, exchange, guard, deposited, d2h, host, sending, net,
                   inbox, dev, sendJ>>
  BY <1>2
<1>3. Types
  BY DEF Inv
<1>4. /\ Adds \in {12, 13} /\ step[r] \in Nat /\ pc[r] \in 1 .. Adds + 7 /\ exchange[r] \in 1 .. 4
      /\ RankOK(r)
  BY RankFacts
<1>5. insertJ[r] \in InsertTasks /\ border[r] \in [Fields -> Int]
  BY <1>3 DEF Types, InsertTasks
<1>6. insertJ[r].next \in {1, 2}
  BY <1>2, <1>5 DEF InsertTasks
<1>7. /\ insertJ[r].next = 1 => k = ChannelIn(r, "right")
      /\ insertJ[r].next = 2 => k = ChannelIn(r, "left")
  BY <1>1 DEF Directions
<1>8. /\ ChannelIn(r, "right") \in Incoming(r) /\ ChannelIn(r, "left") \in Incoming(r)
      /\ ChannelIn(r, "right") # ChannelIn(r, "left")
  <2>1. /\ ChannelIn(r, "right") \in Incoming(r) /\ ChannelIn(r, "left") \in Incoming(r)
        /\ ChannelIn(r, "right")[2] = "left" /\ ChannelIn(r, "left")[2] = "right"
    BY TwoIncoming
  <2>2. ChannelIn(r, "right") # ChannelIn(r, "left")
    BY <2>1
  <2> QED
    BY <2>1, <2>2
<1>9. k \in Incoming(r) /\ k \in Channels /\ Dst(k) = r
  <2>1. k \in Incoming(r)
    BY <1>6, <1>7, <1>8
  <2> QED
    BY <2>1 DEF Incoming
<1>10. InsertOpen(Adds, pc[r], exchange[r]) /\ v = step[r] + 1
  BY <1>1, <1>2, <1>9, InsertedData, Zenon
<1>11. PICK t2 : t2 = [insertJ[r] EXCEPT !.next = insertJ[r].next + 1]
  OBVIOUS
<1>12. /\ t2 \in InsertTasks /\ t2.pc = "WaitInsertFinished" /\ t2.next = insertJ[r].next + 1
  BY <1>2, <1>5, <1>6, <1>11 DEF InsertTasks
<1>13. insertJ \in [Ranks -> InsertTasks] /\ insertJ' = [insertJ EXCEPT ![r] = t2]
  BY <1>2, <1>3, <1>11 DEF Types, InsertTasks
<1>14. /\ insertJ' \in [Ranks -> InsertTasks] /\ insertJ'[r] = t2
       /\ \A q \in Ranks : q # r => insertJ'[q] = insertJ[q]
  BY <1>12, <1>13
<1>15. PICK b2 : b2 = [border[r] EXCEPT !["Jrecv"] = border[r]["Jrecv"] + 1]
  OBVIOUS
<1>16. b2 \in [Fields -> Int] /\ \A f \in Fields : f # "Jrecv" => b2[f] = border[r][f]
  BY <1>5, <1>15 DEF Fields
<1>17. /\ border' \in [Ranks -> [Fields -> Int]] /\ border'[r] = b2
       /\ \A q \in Ranks : q # r => border'[q] = border[q]
  BY <1>2, <1>3, <1>15, <1>16 DEF Types
<1>18. added[r] \in [Incoming(r) -> Seq(Int)] /\ DOMAIN added = Ranks
  BY <1>3 DEF Types
<1>19. PICK w : w = Append(added[r][k], v)
  OBVIOUS
<1>20. w \in Seq(Int)
  BY <1>4, <1>9, <1>10, <1>18, <1>19
<1>21. PICK a2 : a2 = [added[r] EXCEPT ![k] = w]
  OBVIOUS
<1>22. /\ a2 \in [Incoming(r) -> Seq(Int)] /\ a2[k] = w
       /\ \A c \in Incoming(r) : c # k => a2[c] = added[r][c]
  BY <1>9, <1>18, <1>20, <1>21
<1>23. added' = [added EXCEPT ![r] = a2]
  BY <1>2, <1>19, <1>21
<1>24. /\ DOMAIN added' = Ranks /\ added'[r] = a2
       /\ \A q \in Ranks : q # r => added'[q] = added[q]
  BY <1>18, <1>23
<1>25. \A q \in Ranks : added'[q] \in [Incoming(q) -> Seq(Int)]
  BY <1>3, <1>22, <1>24 DEF Types
<1>26. Types'
  BY <1>2a, <1>3, <1>14, <1>17, <1>24, <1>25 DEF Types, InsertTasks, Incoming, Dst, Neighbour
<1>27. OthersStay(r)
  BY <1>2a, <1>14, <1>17, <1>24 DEF OthersStay
<1>28. Adds' = Adds
  BY <1>2a DEF Adds
<1>29. RankOK(r)'
  <2>1. PICK x, y, x2, y2 : /\ x = added[r][ChannelIn(r, "right")]
                            /\ y = added[r][ChannelIn(r, "left")]
                            /\ x2 = a2[ChannelIn(r, "right")] /\ y2 = a2[ChannelIn(r, "left")]
    OBVIOUS
  <2>2. RankAt(Adds, step[r], pc[r], exchange[r], border[r], deposited[r], insertJ[r], x, y)
    BY <1>4, <2>1, RankAtState, Zenon
  <2>3. InsertsNext(step[r], insertJ[r].next, x, y, x2, y2)
    <3>1. Append(<<>>, step[r] + 1) = <<step[r] + 1>>
      OBVIOUS
    <3>2. CASE insertJ[r].next = 1
      <4>0. k = ChannelIn(r, "right") /\ ChannelIn(r, "left") # k
        BY <1>7, <1>8, <3>2
      <4>1. y2 = y
        BY <1>8, <1>22, <2>1, <4>0, Zenon
      <4>2. x2 = Append(x, step[r] + 1)
        BY <1>10, <1>19, <1>22, <2>1, <4>0, Zenon
      <4> QED
        BY <3>1, <3>2, <4>1, <4>2, Zenon DEF InsertsNext
    <3>3. CASE insertJ[r].next = 2
      <4>0. k = ChannelIn(r, "left") /\ ChannelIn(r, "right") # k
        BY <1>7, <1>8, <3>3
      <4>1. x2 = x
        BY <1>8, <1>22, <2>1, <4>0, Zenon
      <4>2. y2 = Append(y, step[r] + 1)
        BY <1>10, <1>19, <1>22, <2>1, <4>0, Zenon
      <4> QED
        BY <3>1, <3>3, <4>1, <4>2, Zenon DEF InsertsNext
    <3> QED
      BY <1>6, <3>2, <3>3
  <2>4. RankAt(Adds, step[r], pc[r], exchange[r], b2, deposited[r], t2, x2, y2)
    BY <1>2, <1>4, <1>5, <1>12, <1>15, <2>2, <2>3, RankInserts
  <2>5. RankAt(Adds, step[r], pc[r], exchange[r], border[r], deposited[r], insertJ[r],
               added[r][ChannelIn(r, "right")], added[r][ChannelIn(r, "left")])'
    BY <1>2a, <1>14, <1>17, <1>24, <1>28, <2>1, <2>4, Zenon DEF ChannelIn, Neighbour
  <2> QED
    BY <2>5, RankAtState, PTL
<1>30. ASSUME NEW c \in Channels, NEW f \in Fields, c[1] = r, d2h[c][f]
       PROVE  Outbox(c, f)' = Outbox(c, f)
  <2>1. f # "Jrecv"
    <3>1. CopyOut(c, f)
      BY DEF Inv, CopiesOK
    <3>2. Open(f, Adds, pc[r])
      BY <1>30, <3>1, Zenon DEF CopyOut
    <3> QED
      BY <1>4, <1>10, <3>2 DEF Open, InsertOpen, WaitJ
  <2> QED
    BY <1>2a, <1>16, <1>17, <1>30, <2>1 DEF Outbox
<1>31. \A c \in Channels : Dst(c) = r => inbox[c]["J"].st = "none"
  BY <1>2, NothingComes
<1> QED
  BY <1>2a, <1>26, <1>27, <1>29, <1>30, <1>31, StaysAt

-----------------------------------------------------------------------------
(***************************************************************************)
(* The theorems.                                                           *)
(***************************************************************************)
(* Nothing has been sent or posted at the first place.                      *)
LEMMA InitialCounts ==
  ASSUME NEW o \in {12, 13}, NEW f \in Fields, NEW d \in {"right", "left"}
  PROVE  /\ Sent(f, o, 0, 1, 1, d, "Finished") = 0
         /\ Posted(f, o, 0, 1, 1, d) = 0
         /\ Version(f, 0) = 0
<1>1. f \in {"E", "B", "J", "Jrecv"}
  BY DEF Fields
<1> QED
  BY <1>1 DEF Sent, Posted, Full, One, AtComm, SendAt, PostAt, Version

(* A channel without messages.                                              *)
LEMMA PipeEmpty ==
  ASSUME NEW f, NEW sends, NEW buffer, NEW ib, NEW g, ib.st = "none",
         ib.data = Version(f, 0), g = Version(f, 0)
  PROVE  Pipe(f, 0, 0, FALSE, sends, buffer, <<>>, ib, g)
<1>1. Len(<<>>) = 0 /\ 1 .. 0 = {}
  OBVIOUS
<1>2. One(FALSE) = 0 /\ One(ib.st = "posted") = 0
  BY DEF One
<1>3. 0 - 0 - 0 = 0 - 0
  OBVIOUS
<1> QED
  BY <1>1, <1>2, <1>3 DEF Pipe

(* The invariant holds initially.                                           *)
LEMMA InitInv == Init => Inv
<1>1. SUFFICES ASSUME Init PROVE Inv
  OBVIOUS
<1>2. filtered \in BOOLEAN
  BY <1>1, FieldAssumption DEF Init
<1>3. Adds \in {12, 13}
  BY <1>2 DEF Adds
<1>4. Types
  <2>1. /\ step \in [Ranks -> Nat] /\ pc \in [Ranks -> Nat] /\ exchange \in [Ranks -> Nat]
        /\ border \in [Ranks -> [Fields -> Int]] /\ guard \in [Channels -> [Fields -> Int]]
        /\ deposited \in [Ranks -> Int] /\ dev \in [Channels -> Int]
        /\ host \in [Channels -> [Fields -> Int]]
    BY <1>1 DEF Init
  <2>2. /\ d2h \in [Channels -> [Fields -> BOOLEAN]]
        /\ sending \in [Channels -> [Fields -> BOOLEAN]]
    BY <1>1 DEF Init
  <2>3. DOMAIN added = Ranks /\ \A r \in Ranks : added[r] \in [Incoming(r) -> Seq(Int)]
    BY <1>1 DEF Init
  <2>4. net \in [Channels -> [Fields -> Seq(Messages)]]
    BY <1>1 DEF Init
  <2>5. inbox \in [Channels -> [Fields -> [st : {"none", "posted", "copying"}, data : Int]]]
    BY <1>1 DEF Init
  <2>6. /\ sendJ \in [Channels -> {"WaitForBash", "Bashed", "InitSend", "WaitForSendEnd", "Finished"}]
        /\ insertJ \in [Ranks -> [pc : {"Finished", "WaitForReceived", "WaitInsertFinished"},
                                  next : 1 .. 3]]
    BY <1>1 DEF Init
  <2> QED
    BY <1>2, <2>1, <2>2, <2>3, <2>4, <2>5, <2>6 DEF Types
<1>5. ASSUME NEW r \in Ranks PROVE RankOK(r)
  <2>1. /\ step[r] = 0 /\ pc[r] = 1 /\ exchange[r] = 1 /\ insertJ[r].pc = "Finished"
        /\ border[r]["E"] = 0 /\ border[r]["B"] = 0 /\ border[r]["Jrecv"] = 0
    BY <1>1 DEF Init, Fields
  <2>2. PlaceOK(Adds, 0, 1, 1)
    BY <1>3 DEF PlaceOK
  <2>3. ~InsertOpen(Adds, 1, 1) /\ Inserted(Adds, 1, 1, insertJ[r].next) = 0
    BY <1>3 DEF Inserted, InsertOpen, WaitJ
  <2>4. BorderOK(Adds, 0, 1, 1, insertJ[r].next, border[r])
    BY <1>3, <2>1, <2>3 DEF BorderOK, One
  <2>5. InsertTaskOK(Adds, 1, 1, insertJ[r])
    BY <2>1, <2>3 DEF InsertTaskOK
  <2>6. 1 \notin 9 .. WaitJ(Adds) /\ ~(1 >= 8)
    OBVIOUS
  <2> QED
    BY <2>1, <2>2, <2>4, <2>5, <2>6, Zenon DEF RankOK, AddedOK
<1>6. ASSUME NEW c \in Channels PROVE SendTaskOK(c)
  BY <1>1 DEF Init, SendTaskOK
<1>7. ASSUME NEW c \in Channels, NEW f \in Fields PROVE PipeOK(c, f) /\ CopiesOK(c, f)
  <2>1. c[1] \in Ranks /\ Dst(c) \in Ranks /\ c[2] \in {"right", "left"}
    BY ChannelEnds
  <2>2. /\ sendJ[c] = "Finished" /\ step[c[1]] = 0 /\ pc[c[1]] = 1 /\ exchange[c[1]] = 1
        /\ step[Dst(c)] = 0 /\ pc[Dst(c)] = 1 /\ exchange[Dst(c)] = 1
    BY <1>1, <2>1 DEF Init
  <2>3. /\ inbox[c][f].st = "none" /\ inbox[c][f].data = 0 /\ guard[c][f] = 0 /\ net[c][f] = <<>>
    BY <1>1 DEF Init
  <2>4. d2h[c][f] = FALSE
    BY <1>1, Zenon DEF Init
  <2>5. SentOn(c, f) = 0 /\ PostedOn(c, f) = 0 /\ Version(f, 0) = 0
    BY <1>3, <2>1, <2>2, InitialCounts DEF SentOn, PostedOn
  <2>6. Pipe(f, 0, 0, FALSE, sending[c][f], host[c][f], <<>>, inbox[c][f], guard[c][f])
    BY <2>3, <2>5, PipeEmpty
  <2>7. PipeOK(c, f)
    BY <2>3, <2>4, <2>5, <2>6, Zenon DEF PipeOK
  <2> QED
    BY <2>3, <2>4, <2>7, Zenon DEF CopiesOK, CopyOut, CopyIn
<1> QED
  BY <1>4, <1>5, <1>6, <1>7 DEF Inv

(* Every step of a rank, a channel or a message keeps the invariant.        *)
LEMMA NextInv == Inv /\ [Next]_vars => Inv'
<1> SUFFICES ASSUME Inv, [Next]_vars PROVE Inv'
  OBVIOUS
<1>1. ASSUME NEW r \in Ranks, RankStep(r) PROVE Inv'
  BY <1>1, RunKernelKeeps, RunCoreKeeps, ClearKeeps, ComputeCurrentKeeps, AsyncReceiveKeeps,
     AsyncSendKeeps, WaitForKeeps, EndStepKeeps, ReceiveJKeeps, SendJKeeps, InsertFieldKeeps,
     InsertCurrentKeeps, InsertEndKeeps DEF RankStep
<1>2. ASSUME NEW c \in Channels, ChannelStep(c) PROVE Inv'
  BY <1>2, BashFieldKeeps, InitSendKeeps, StartSendKeeps, SendEndKeeps DEF ChannelStep
<1>3. ASSUME NEW c \in Channels, NEW f \in Fields, MessageStep(c, f) PROVE Inv'
  BY <1>3, StartMPISendKeeps, TransferKeeps, CopyReceivedKeeps DEF MessageStep
<1>4. CASE UNCHANGED vars
  <2>1. UNCHANGED <<filtered, step, pc, exchange, border, guard, deposited, added, dev, d2h, host,
                    sending, net, inbox, sendJ, insertJ>>
    BY <1>4 DEF vars
  <2>2. Types'
    BY <2>1 DEF Inv, Types, Incoming, Dst, Neighbour
  <2>3. \A r \in Ranks : RankOK(r)'
    BY <2>1, RanksKept
  <2>4. /\ \A c \in Channels : SendTaskOK(c)'
        /\ \A c \in Channels, f \in Fields :
             /\ SentOn(c, f)' = SentOn(c, f) /\ PostedOn(c, f)' = PostedOn(c, f)
             /\ CopiesOK(c, f)'
    BY <2>1, MessageFrame
  <2>5. \A c \in Channels, f \in Fields : PipeOK(c, f)'
    BY <2>1, <2>4, PipeKept
  <2> QED
    BY <2>2, <2>3, <2>4, <2>5 DEF Inv
<1> QED
  BY <1>1, <1>2, <1>3, <1>4 DEF Next

(* The inductive invariant: at every rank and channel the messages sent and *)
(* the receives posted are those of the place in the program, every message *)
(* carries the version of its number, and copies are under way only         *)
(* between the start of an exchange and the wait for it.                    *)
THEOREM FieldInductive == Spec => []Inv
<1>1. Init => Inv
  BY InitInv
<1>2. Inv /\ [Next]_vars => Inv'
  BY NextInv
<1> QED
  BY <1>1, <1>2, PTL DEF Spec

(* A field that a kernel reads has in the border the version that the       *)
(* receives posted so far have brought.                                     *)
LEMMA FreshAt ==
  ASSUME NEW o \in {12, 13}, NEW s \in Nat, NEW p \in 1 .. o + 6, NEW n, NEW b,
         BorderOK(o, s, p, 1, n, b), NEW d \in {"right", "left"}, NEW f,
         \/ p = 1 /\ f \in {"E", "B"}
         \/ (p = 2 \/ p = o + 4) /\ f = "E"
         \/ p = 6 /\ f = "B"
         \/ p = o /\ o = 13 /\ f = "Jrecv"
  PROVE  Version(f, Posted(f, o, s, p, 1, d)) = b[f]
<1>1. Inserted(o, p, 1, n) = (IF p > WaitJ(o) THEN 2 ELSE 0)
  BY DEF Inserted, InsertOpen, WaitJ
<1>2. CASE f = "E"
  BY <1>2 DEF BorderOK, Version, Posted, Full, One, AtComm
<1>3. CASE f = "B"
  BY <1>3 DEF BorderOK, Version, Posted, Full, One, AtComm
<1>4. CASE f = "Jrecv"
  BY <1>1, <1>4 DEF BorderOK, Version, Posted, Full, One, AtComm, WaitJ
<1> QED
  BY <1>2, <1>3, <1>4

(* At the kernels nothing of an exchange is under way.                      *)
LEMMA KernelFacts ==
  ASSUME Inv, NEW r \in Ranks, AtKernel(r)
  PROVE  /\ Adds \in {12, 13} /\ step[r] \in Nat /\ pc[r] \in 1 .. Adds + 6 /\ exchange[r] = 1
         /\ OpAt(Adds, pc[r], Op(r)) /\ Op(r).op = "kernel" /\ RankOK(r)
         /\ \A c \in Channels, f \in Fields : c[1] = r => ~d2h[c][f]
         /\ \A c \in Channels, f \in Fields : Dst(c) = r => inbox[c][f].st = "none"
<1>1. /\ Adds \in {12, 13} /\ step[r] \in Nat /\ pc[r] \in 1 .. Adds + 6 /\ pc[r] \in 1 .. Adds + 7
      /\ OpAt(Adds, pc[r], Op(r)) /\ Op(r).op = "kernel" /\ RankOK(r)
  BY RankFacts DEF AtKernel
<1>2. pc[r] \in {1, 2, 6, Adds, Adds + 4}
  BY <1>1, Zenon DEF OpAt
<1>3. \A g \in Fields : ~Open(g, Adds, pc[r])
  BY <1>1, <1>2, OpenFields
<1>4. \A g \in Fields : ~AtComm(g, Adds, pc[r])
  BY <1>1, <1>2, NoComm
<1>5. exchange[r] = 1
  BY <1>1, <1>4, Zenon DEF RankOK, PlaceOK
<1> QED
  BY <1>1, <1>3, <1>5, NoneOpen

(* The guards are fresh in every state of the invariant.                    *)
LEMMA InvGuards == Inv => GuardsFresh
<1> SUFFICES ASSUME Inv, NEW r \in Ranks, AtKernel(r), NEW f \in Op(r).reads, NEW c \in Incoming(r)
             PROVE  guard[c][f] = border[r][f] /\ inbox[c][f].st = "none"
  BY DEF GuardsFresh
<1>1. /\ Adds \in {12, 13} /\ step[r] \in Nat /\ pc[r] \in 1 .. Adds + 6 /\ exchange[r] = 1
      /\ OpAt(Adds, pc[r], Op(r)) /\ Op(r).op = "kernel" /\ RankOK(r)
      /\ \A k \in Channels, g \in Fields : Dst(k) = r => inbox[k][g].st = "none"
  BY KernelFacts
<1>2. c \in Channels /\ Dst(c) = r /\ c[2] \in {"right", "left"}
  BY ChannelEnds DEF Incoming
<1>3. \/ pc[r] = 1 /\ f \in {"E", "B"}
      \/ (pc[r] = 2 \/ pc[r] = Adds + 4) /\ f = "E"
      \/ pc[r] = 6 /\ f = "B"
      \/ pc[r] = Adds /\ Adds = 13 /\ f = "Jrecv"
  BY <1>1 DEF OpAt
<1>4. f \in Fields /\ f # "J"
  BY <1>3 DEF Fields
<1>5. BorderOK(Adds, step[r], pc[r], 1, insertJ[r].next, border[r])
  BY <1>1, Zenon DEF RankOK
<1>6. Version(f, Posted(f, Adds, step[r], pc[r], 1, c[2])) = border[r][f]
  BY <1>1, <1>2, <1>3, <1>5, FreshAt
<1>7. PostedOn(c, f) = Posted(f, Adds, step[r], pc[r], 1, c[2])
  BY <1>1, <1>2, Zenon DEF PostedOn
<1>8. inbox[c][f].st = "none" /\ PipeOK(c, f)
  BY <1>1, <1>2, <1>4 DEF Inv
<1>9. guard[c][f] = Version(f, PostedOn(c, f))
  BY <1>4, <1>8, Zenon DEF PipeOK, Pipe
<1> QED
  BY <1>6, <1>7, <1>8, <1>9, Zenon

(* So are the borders that are copied.                                      *)
LEMMA InvBorders == Inv => BordersStable
<1> SUFFICES ASSUME Inv, NEW r \in Ranks, NEW c \in Outgoing(r)
             PROVE  /\ AtKernel(r) => \A f \in Op(r).writes : ~d2h[c][f]
                    /\ Runs(r, "clear") => sendJ[c] = "Finished" /\ ~d2h[c]["Jrecv"]
  BY DEF BordersStable
<1>1. c \in Channels /\ c[1] = r
  BY DEF Outgoing
<1>2. ASSUME AtKernel(r), NEW f \in Op(r).writes PROVE ~d2h[c][f]
  <2>1. /\ OpAt(Adds, pc[r], Op(r)) /\ Op(r).op = "kernel"
        /\ \A k \in Channels, g \in Fields : k[1] = r => ~d2h[k][g]
    BY <1>2, KernelFacts
  <2>2. f \in {"E", "B"}
    BY <1>2, <2>1 DEF OpAt
  <2> QED
    BY <1>1, <2>1, <2>2 DEF Fields
<1>3. ASSUME Runs(r, "clear") PROVE sendJ[c] = "Finished" /\ ~d2h[c]["Jrecv"]
  <2>1. Adds \in {12, 13} /\ OpAt(Adds, pc[r], Op(r)) /\ Op(r).op = "clear" /\ pc[r] \in 1 .. Adds + 7
    BY <1>3, RunsAt, RankFacts
  <2>2. pc[r] = 7
    BY <2>1, Zenon DEF OpAt
  <2>3. \A g \in Fields : ~Open(g, Adds, pc[r])
    BY <2>1, <2>2, OpenFields
  <2>4. /\ \A k \in Channels, g \in Fields : k[1] = r => ~d2h[k][g]
        /\ \A k \in Channels : k[1] = r => sendJ[k] = "Finished"
    BY <2>3, NoneOpen
  <2> QED
    BY <1>1, <2>4 DEF Fields
<1> QED
  BY <1>2, <1>3

(* And the current that is added is complete.                               *)
LEMMA InvCurrent == Inv => CurrentComplete
<1> SUFFICES ASSUME Inv, NEW r \in Ranks, AtKernel(r), AddsCurrent(r), NEW c \in Incoming(r)
             PROVE  added[r][c] = <<step[r] + 1>>
  BY DEF CurrentComplete
<1>1. /\ Adds \in {12, 13} /\ step[r] \in Nat /\ pc[r] \in 1 .. Adds + 6 /\ exchange[r] = 1
      /\ OpAt(Adds, pc[r], Op(r)) /\ Op(r).op = "kernel" /\ RankOK(r)
  BY KernelFacts
<1>2. pc[r] > 6 /\ Op(r).writes = {"E"}
  <2>1. Len(update_beforeCurrent) = 5
    BY DEF update_beforeCurrent
  <2> QED
    BY <1>1, <2>1 DEF AddsCurrent
<1>3. pc[r] = Adds
  BY <1>1, <1>2 DEF OpAt
<1>4. \A n : Inserted(Adds, pc[r], 1, n) = 2
  BY <1>1, <1>3 DEF Inserted, InsertOpen, WaitJ
<1>5. pc[r] >= 8 /\ 2 >= 1 /\ 2 >= 2
  BY <1>1, <1>3
<1>6. RankAt(Adds, step[r], pc[r], 1, border[r], deposited[r], insertJ[r],
             added[r][ChannelIn(r, "right")], added[r][ChannelIn(r, "left")])
  BY <1>1, RankAtState, Zenon
<1>7. added[r][ChannelIn(r, "right")] = <<step[r] + 1>> /\ added[r][ChannelIn(r, "left")] = <<step[r] + 1>>
  BY <1>4, <1>5, <1>6, Zenon DEF RankAt, AddedOK
<1>8. c = ChannelIn(r, "right") \/ c = ChannelIn(r, "left")
  BY TwoIncoming
<1> QED
  BY <1>7, <1>8

(* GuardsFresh for any number of ranks and steps, with the filter and       *)
(* without: no kernel of runOneStep reads a guard before the exchange has   *)
(* brought the border of the neighbour as of the same point of the step, or *)
(* after a newer one has overwritten it.                                    *)
THEOREM GuardsAlwaysFresh == Spec => []GuardsFresh
BY FieldInductive, InvGuards, PTL

(* BordersStable: no kernel writes a border, and no clear the current,      *)
(* while a copy to a send buffer has still to read it, although the event   *)
(* of an exchange does not cover the MPI sends.                             *)
THEOREM BordersAlwaysStable == Spec => []BordersStable
BY FieldInductive, InvBorders, PTL

(* CurrentComplete: when the current is added to the field of the border,   *)
(* the current both neighbours deposited in this step, and no other, has    *)
(* been added once.                                                         *)
THEOREM CurrentAlwaysComplete == Spec => []CurrentComplete
BY FieldInductive, InvCurrent, PTL
=============================================================================
