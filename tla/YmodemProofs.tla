--------------------------- MODULE YmodemProofs ---------------------------
(***************************************************************************)
(* What holds of a transfer for a file of any length and any line: what a   *)
(* sender may believe (SentBlocksArrived); that both ends implement         *)
(* Transfer (TransferImplemented) and what a receiver's YM_OK is worth      *)
(* (OkMeansTheFile), as long as the numbers of the blocks suffice.          *)
(***************************************************************************)
EXTENDS Ymodem, SequenceTheorems, TLAPS

Kinds   == Blocks \cup {"eot", "CAN", "junk"}
Units   == [kind : Kinds, blk : Nat]
Answers == {"C", "ACK", "NAK", "CAN"}
Files   == {"name", "data", "short"}

Sorts ==
  /\ size \in Nat /\ sblk \in Nat /\ short \in BOOLEAN /\ stries \in Nat
  /\ spc \in {"off", "done"} \cup Asking \cup Sending
  /\ rpc \in {"off", "hand", "data", "close", "done"}
  /\ sres \in {"RUN", "OK"} \cup Results /\ rres \in {"RUN", "OK"} \cup Results
  /\ got \in Seq(Nat) /\ expect \in Nat /\ rtries \in Nat
  /\ prompt \in {"C", "NAK"}
  /\ down \in Seq(Units) /\ up \in Seq(Answers)
  /\ late \in 0 .. MaxLate /\ fooled \in BOOLEAN

(* The number the receiver expects after so many blocks. *)
Due(n) == (n + 1) % SeqSpace

(* Where each end is.                                                      *)
SenderInv ==
  /\ sblk <= size
  /\ spc \in Sending => stries <= BlockRetries
  /\ sres = "RUN" <=> spc # "done"
  /\ spc \in {"off", "start"} => down = <<>> /\ rpc \notin {"data", "close"}
  /\ spc \in {"off", "start", "name", "ask"} => sblk = 0 /\ short = FALSE
  /\ spc = "data" => sblk > 0
ReceiverInv ==
  /\ Len(got) <= size
  /\ rpc \in {"off", "hand"} => rtries <= HandshakeRetries
  /\ rres = "RUN" <=> rpc # "done"
  /\ rres = "OK" => Len(got) = size
  /\ rpc = "close" => Len(got) = size
  /\ rpc \in {"off", "hand"} => got = <<>> /\ expect = 1 /\ prompt = "C"
  /\ rpc = "off" => up = <<>>
  /\ rpc = "data" /\ prompt = "C" => Len(got) = 0
  /\ rpc = "data" /\ Len(got) # size => expect = Due(Len(got))

(* What is on the line to the receiver, and in which order.                *)
UnitInv ==
  \A i \in 1 .. Len(down) :
    /\ down[i].kind \in Files => down[i].blk <= sblk
    /\ down[i].kind \in {"name", "null"} => down[i].blk = 0
    /\ down[i].kind \in {"data", "short"} => down[i].blk > 0
    /\ down[i].kind = "null" => spc \in {"null", "done"}
    /\ down[i].kind = "short" => short /\ down[i].blk = sblk
    /\ down[i].kind = "data" /\ short => down[i].blk < sblk
    /\ spc = "name" => down[i].kind \in {"name", "junk"}
OrderInv ==
  \A i, j \in 1 .. Len(down) : i < j =>
    /\ down[j].kind = "name" => down[i].kind \in {"name", "junk"}
    /\ down[i].kind \in Files /\ down[j].kind \in Files => down[i].blk <= down[j].blk

(* The sink has no block the sender has not taken, and none comes back that *)
(* is older than its last.                                                 *)
Flow ==
  /\ Len(got) <= sblk
  /\ rpc = "data" /\ Len(got) # size =>
       \A i \in 1 .. Len(down) : down[i].kind \in Files => Len(got) <= down[i].blk

Base == Sorts /\ SenderInv /\ ReceiverInv /\ UnitInv /\ OrderInv

-----------------------------------------------------------------------------
(* The line: what is left of it when something was taken away.             *)

Junk == Unit("junk", 0)

(* `new` is what is left of `old`, at least d places further on.           *)
Kept(new, old, d) ==
  \E f \in [1 .. Len(new) -> 1 .. Len(old)] :
    /\ \A i \in 1 .. Len(new) : new[i] = old[f[i]] /\ i + d <= f[i]
    /\ \A i, j \in 1 .. Len(new) : i < j => f[i] < f[j]
Thinned(new, old, d) ==
  \E f \in [1 .. Len(new) -> 1 .. Len(old)] :
    /\ \A i \in 1 .. Len(new) : (new[i] = old[f[i]] \/ new[i] = Junk) /\ i + d <= f[i]
    /\ \A i, j \in 1 .. Len(new) : i < j => f[i] < f[j]

(* Appending: the two forms the code has. *)
LEMMA AppendFacts ==
  ASSUME NEW S, NEW q \in Seq(S), NEW e \in S
  PROVE  /\ Append(q, e) \in Seq(S) /\ Len(Append(q, e)) = Len(q) + 1
         /\ \A i \in 1 .. Len(q) : Append(q, e)[i] = q[i]
         /\ Append(q, e)[Len(q) + 1] = e
  BY AppendProperties

LEMMA OneMore ==
  ASSUME NEW S, NEW q \in Seq(S), NEW e \in S
  PROVE  /\ q \o <<e>> \in Seq(S) /\ Len(q \o <<e>>) = Len(q) + 1
         /\ \A i \in 1 .. Len(q) : (q \o <<e>>)[i] = q[i]
         /\ (q \o <<e>>)[Len(q) + 1] = e
<1>1. Append(q, e) = q \o <<e>>
  BY AppendIsConcat
<1> QED BY <1>1, AppendFacts

LEMMA TwoMore ==
  ASSUME NEW S, NEW q \in Seq(S), NEW e \in S, NEW g \in S
  PROVE  /\ q \o <<e, g>> \in Seq(S) /\ Len(q \o <<e, g>>) = Len(q) + 2
         /\ \A i \in 1 .. Len(q) : (q \o <<e, g>>)[i] = q[i]
         /\ (q \o <<e, g>>)[Len(q) + 1] = e
         /\ (q \o <<e, g>>)[Len(q) + 2] = g
<1> DEFINE t == <<e, g>>
<1>1. t \in Seq(S) /\ Len(t) = 2 /\ t[1] = e /\ t[2] = g
  OBVIOUS
<1> HIDE DEF t
<1>2. /\ q \o t \in Seq(S) /\ Len(q \o t) = Len(q) + Len(t)
      /\ \A i \in 1 .. Len(q) + Len(t) :
           (q \o t)[i] = IF i <= Len(q) THEN q[i] ELSE t[i - Len(q)]
  BY <1>1, ConcatProperties
<1>3. Len(q) \in Nat
  OBVIOUS
<1>4. /\ q \o t \in Seq(S) /\ Len(q \o t) = Len(q) + 2
      /\ \A i \in 1 .. Len(q) : (q \o t)[i] = q[i]
      /\ (q \o t)[Len(q) + 1] = t[1]
      /\ (q \o t)[Len(q) + 2] = t[2]
  BY <1>1, <1>2, <1>3
<1> QED BY <1>1, <1>4 DEF t

LEMMA TailKept ==
  ASSUME NEW S, NEW q \in Seq(S), q # <<>>
  PROVE  /\ Tail(q) \in Seq(S) /\ Len(Tail(q)) = Len(q) - 1 /\ Len(q) >= 1
         /\ Head(q) = q[1] /\ Head(q) \in S
         /\ \A i \in 1 .. Len(q) - 1 : Tail(q)[i] = q[i + 1]
         /\ Kept(Tail(q), q, 1)
<1>1. /\ Tail(q) \in Seq(S) /\ Len(Tail(q)) = Len(q) - 1 /\ Len(q) >= 1 /\ Len(q) \in Nat
      /\ Head(q) = q[1] /\ Head(q) \in S
      /\ \A i \in 1 .. Len(q) - 1 : Tail(q)[i] = q[i + 1]
  BY HeadTailProperties, EmptySeq
<1> DEFINE f == [i \in 1 .. Len(Tail(q)) |-> i + 1]
<1>2. f \in [1 .. Len(Tail(q)) -> 1 .. Len(q)]
  BY <1>1
<1>3. \A i \in 1 .. Len(Tail(q)) : Tail(q)[i] = q[f[i]] /\ i + 1 <= f[i]
  BY <1>1
<1>4. \A i, j \in 1 .. Len(Tail(q)) : i < j => f[i] < f[j]
  BY <1>1
<1>5. Kept(Tail(q), q, 1)
  BY <1>2, <1>3, <1>4 DEF Kept
<1> QED BY <1>1, <1>5

LEMMA SubSeqKept ==
  ASSUME NEW S, NEW q \in Seq(S), NEW k \in 1 .. Len(q) + 1
  PROVE  /\ SubSeq(q, k, Len(q)) \in Seq(S)
         /\ Len(SubSeq(q, k, Len(q))) = Len(q) - k + 1
         /\ \A i \in 1 .. Len(q) - k + 1 : SubSeq(q, k, Len(q))[i] = q[i + k - 1]
<1>1. Len(q) \in Nat
  OBVIOUS
<1>2. \A i \in k .. Len(q) : q[i] \in S
  BY <1>1, ElementOfSeq
<1> QED BY <1>1, <1>2, SubSeqProperties

LEMMA WithoutKept ==
  ASSUME NEW S, NEW q \in Seq(S), NEW n \in 1 .. Len(q)
  PROVE  Without(q, n) \in Seq(S) /\ Len(Without(q, n)) = Len(q) - 1
         /\ Kept(Without(q, n), q, 0)
<1>1. Len(q) \in Nat /\ n \in Nat /\ n >= 1 /\ n <= Len(q)
  OBVIOUS
<1> DEFINE a == SubSeq(q, 1, n - 1)
           b == SubSeq(q, n + 1, Len(q))
<1>2. a \in Seq(S) /\ Len(a) = n - 1 /\ \A i \in 1 .. n - 1 : a[i] = q[i]
  <2>1. \A i \in 1 .. n - 1 : q[i] \in S
    BY <1>1, ElementOfSeq
  <2> QED BY <2>1, <1>1, SubSeqProperties
<1>3. b \in Seq(S) /\ Len(b) = Len(q) - n /\ \A i \in 1 .. Len(q) - n : b[i] = q[i + n]
  BY <1>1, SubSeqKept
<1> HIDE DEF a, b
<1>4. /\ a \o b \in Seq(S) /\ Len(a \o b) = Len(a) + Len(b)
      /\ \A i \in 1 .. Len(a) + Len(b) :
           (a \o b)[i] = IF i <= Len(a) THEN a[i] ELSE b[i - Len(a)]
  BY <1>2, <1>3, ConcatProperties
<1>5. Without(q, n) = a \o b
  BY DEF Without, a, b
<1> DEFINE w == a \o b
<1>6. /\ w \in Seq(S) /\ Len(w) = Len(q) - 1
      /\ \A i \in 1 .. Len(q) - 1 : w[i] = IF i < n THEN q[i] ELSE q[i + 1]
  BY <1>1, <1>2, <1>3, <1>4
<1> HIDE DEF w
<1> DEFINE f == [i \in 1 .. Len(w) |-> IF i < n THEN i ELSE i + 1]
<1>7. f \in [1 .. Len(w) -> 1 .. Len(q)]
  BY <1>1, <1>6
<1>8. \A i \in 1 .. Len(w) : w[i] = q[f[i]] /\ i + 0 <= f[i]
  BY <1>1, <1>6
<1>9. \A i, j \in 1 .. Len(w) : i < j => f[i] < f[j]
  BY <1>1, <1>6
<1>10. Kept(w, q, 0)
  BY <1>7, <1>8, <1>9 DEF Kept
<1> QED BY <1>5, <1>6, <1>10 DEF w

LEMMA KeptIsThinned ==
  ASSUME NEW new, NEW old, NEW d, Kept(new, old, d)
  PROVE  Thinned(new, old, d)
  BY DEF Kept, Thinned

LEMMA DrainedThins ==
  ASSUME NEW q \in Seq(Units), q # <<>>, NEW new \in Drained(Tail(q))
  PROVE  new \in Seq(Units) /\ Thinned(new, q, 1) /\ Len(new) + 1 <= Len(q)
<1> DEFINE t == Tail(q)
<1>1. /\ t \in Seq(Units) /\ Len(t) = Len(q) - 1 /\ Len(q) >= 1 /\ Len(q) \in Nat
      /\ \A i \in 1 .. Len(q) - 1 : t[i] = q[i + 1]
  BY TailKept
<1> HIDE DEF t
<1>d. DOMAIN t = 1 .. Len(t) /\ DOMAIN t \subseteq 1 .. Len(t) + 1
  BY <1>1
<1>e. new \in {SubSeq(t, k, Len(t)) : k \in 1 .. Len(t) + 1}
            \cup {[SubSeq(t, k, Len(t)) EXCEPT ![1] = Junk] :
                     k \in {j \in DOMAIN t : t[j].kind \in Blocks}}
  BY DEF Drained, t, Junk
<1>2. PICK k \in 1 .. Len(t) + 1 :
        LET r == SubSeq(t, k, Len(t)) IN
        new = r \/ (k \in DOMAIN t /\ new = [r EXCEPT ![1] = Junk])
  <2>1. CASE new \in {SubSeq(t, k, Len(t)) : k \in 1 .. Len(t) + 1}
    BY <2>1
  <2>2. CASE new \in {[SubSeq(t, k, Len(t)) EXCEPT ![1] = Junk] :
                        k \in {j \in DOMAIN t : t[j].kind \in Blocks}}
    <3>1. PICK k \in {j \in DOMAIN t : t[j].kind \in Blocks} :
            new = [SubSeq(t, k, Len(t)) EXCEPT ![1] = Junk]
      BY <2>2
    <3> QED BY <3>1, <1>d
  <2> QED BY <1>e, <2>1, <2>2
<1> DEFINE r == SubSeq(t, k, Len(t))
<1>3. /\ r \in Seq(Units) /\ Len(r) = Len(t) - k + 1
      /\ \A i \in 1 .. Len(t) - k + 1 : r[i] = t[i + k - 1]
  BY <1>1, SubSeqKept
<1>4. k \in Nat /\ k >= 1 /\ k <= Len(q) /\ Len(r) = Len(q) - k
      /\ \A i \in 1 .. Len(r) : r[i] = q[i + k]
  <2>1. k \in Nat /\ k >= 1 /\ k <= Len(q) /\ Len(r) = Len(q) - k
    BY <1>1, <1>3
  <2>2. ASSUME NEW i \in 1 .. Len(r) PROVE r[i] = q[i + k]
    <3>1. i \in 1 .. Len(t) - k + 1 /\ i + k - 1 \in 1 .. Len(q) - 1
      BY <2>1, <1>1, <1>3
    <3>2. t[i + k - 1] = q[(i + k - 1) + 1]
      BY <3>1, <1>1
    <3>3. (i + k - 1) + 1 = i + k
      BY <2>1
    <3> QED BY <3>1, <3>2, <3>3, <1>3
  <2> QED BY <2>1, <2>2
<1>5. new = r \/ (k \in DOMAIN t /\ new = [r EXCEPT ![1] = Junk])
  BY <1>2
<1> HIDE DEF r
<1>6. Junk \in Units
  BY DEF Junk, Unit, Units, Kinds
<1>7. /\ new \in Seq(Units) /\ Len(new) = Len(r)
      /\ \A i \in 1 .. Len(new) : new[i] = r[i] \/ new[i] = Junk
  <2>1. CASE new = r
    BY <2>1, <1>3
  <2>2. CASE k \in DOMAIN t /\ new = [r EXCEPT ![1] = Junk]
    <3>1. DOMAIN t = 1 .. Len(t)
      BY <1>1
    <3>2. 1 \in 1 .. Len(r)
      BY <2>2, <3>1, <1>1, <1>4
    <3>3. /\ new \in Seq(Units) /\ Len(new) = Len(r)
          /\ \A i \in 1 .. Len(r) : new[i] = IF i = 1 THEN Junk ELSE r[i]
      BY <2>2, <3>2, <1>3, <1>6, ExceptSeq
    <3> QED BY <3>3
  <2> QED BY <1>5, <2>1, <2>2
<1> DEFINE f == [i \in 1 .. Len(new) |-> i + k]
<1>8. f \in [1 .. Len(new) -> 1 .. Len(q)]
  BY <1>1, <1>4, <1>7
<1>9. \A i \in 1 .. Len(new) : (new[i] = q[f[i]] \/ new[i] = Junk) /\ i + 1 <= f[i]
  BY <1>4, <1>7
<1>10. \A i, j \in 1 .. Len(new) : i < j => f[i] < f[j]
  BY <1>4
<1>11. Thinned(new, q, 1)
  BY <1>8, <1>9, <1>10 DEF Thinned
<1> QED BY <1>1, <1>4, <1>7, <1>11

LEMMA DamageThins ==
  ASSUME NEW q \in Seq(Units), NEW n \in 1 .. Len(q)
  PROVE  LET new == [q EXCEPT ![n] = Junk] IN
         new \in Seq(Units) /\ Thinned(new, q, 0) /\ Len(new) = Len(q)
<1> DEFINE new == [q EXCEPT ![n] = Junk]
<1>1. Junk \in Units
  BY DEF Junk, Unit, Units, Kinds
<1>2. /\ new \in Seq(Units) /\ Len(new) = Len(q)
      /\ \A i \in 1 .. Len(q) : new[i] = IF i = n THEN Junk ELSE q[i]
  BY <1>1, ExceptSeq
<1> HIDE DEF new
<1> DEFINE f == [i \in 1 .. Len(new) |-> i]
<1>3. f \in [1 .. Len(new) -> 1 .. Len(q)]
  BY <1>2
<1>4. \A i \in 1 .. Len(new) : (new[i] = q[f[i]] \/ new[i] = Junk) /\ i + 0 <= f[i]
  BY <1>2
<1>5. \A i, j \in 1 .. Len(new) : i < j => f[i] < f[j]
  OBVIOUS
<1>6. Thinned(new, q, 0)
  BY <1>3, <1>4, <1>5 DEF Thinned
<1> QED BY <1>2, <1>6 DEF new

-----------------------------------------------------------------------------
(* What a step of the sender comes to.                                     *)

Stopped ==
  /\ spc' = "done" /\ sres' \in Results \cup {"OK"}
  /\ UNCHANGED <<sblk, short, stries>>
  /\ sres' = "OK" => spc = "null"
  /\ down' = down \/ down' = Append(down, Unit("CAN", 0))
Sent(e) ==
  /\ stries' = 0 /\ sres' = sres
  /\ down' = Append(down, e)
Opened ==
  /\ spc = "start" /\ spc' = "name" /\ Sent(Unit("name", 0))
  /\ sblk' = sblk /\ short' = short
Took ==
  /\ spc \in {"ask", "data"} /\ spc' = "data" /\ sblk < size /\ short = FALSE
  /\ sblk' = sblk + 1
  /\ \/ short' = FALSE /\ Sent(Unit("data", sblk + 1))
     \/ short' = TRUE  /\ Sent(Unit("short", sblk + 1))
Finished ==
  /\ spc \in {"ask", "data"} /\ spc' = "eot" /\ Sent(Unit("eot", 0))
  /\ sblk' = sblk /\ short' = short
Parted ==
  /\ spc = "close" /\ spc' = "null" /\ Sent(Unit("null", 0))
  /\ sblk' = sblk /\ short' = short
Waited ==
  /\ \/ spc = "name" /\ spc' = "ask"
     \/ spc = "eot" /\ spc' = "close"
  /\ stries' = 0
  /\ UNCHANGED <<sblk, short, sres, down>>
Again ==
  /\ spc \in Sending /\ spc' = spc
  /\ stries < BlockRetries /\ stries' = stries + 1
  /\ down' = Append(down, InFlight)
  /\ UNCHANGED <<sblk, short, sres>>
Idled ==
  /\ spc \in Asking /\ spc' = spc
  /\ stries' = stries \/ stries' = stries + 1
  /\ UNCHANGED <<sblk, short, sres, down>>

Advanced ==
  \/ up[1] = "C" /\ (Opened \/ Parted)
  \/ up[1] = "ACK" /\ Waited
  \/ spc = "ask" /\ up[1] = "C" /\ (Took \/ Finished)
  \/ spc = "data" /\ up[1] = "ACK" /\ (Took \/ Finished)

LEMMA ResendDoes ==
  ASSUME Sorts, SenderInv, spc \in Sending, Resend
  PROVE  Stopped \/ Again
<1>1. CASE SenderStops("TIMEOUT")
  BY <1>1 DEF SenderStops, Stopped, Results
<1>2. CASE ~SenderStops("TIMEOUT")
  BY <1>2 DEF Resend, Again, CountsTry
<1> QED BY <1>1, <1>2

LEMMA AnsweredDoes ==
  ASSUME Sorts, SenderInv, Answered, up[1] = Reply[spc], SenderRuns
  PROVE  Stopped \/ Advanced
<1>r. /\ spc \in Asking => up[1] = "C"
      /\ spc \in Sending => up[1] = "ACK"
  BY DEF Reply, Asking, Sending
<1>1. CASE spc = "start" /\ Sends("name", 0)
  <2>1. up[1] = "C"
    BY <1>1, <1>r DEF Asking
  <2>2. Opened
    BY <1>1 DEF Sends, Opened, Sent, SenderInv
  <2> QED BY <2>1, <2>2 DEF Advanced
<1>2. CASE spc = "name" /\ Waits("ask")
  <2>1. up[1] = "ACK"
    BY <1>2, <1>r DEF Sending
  <2> QED BY <1>2, <2>1 DEF Waits, Waited, Advanced
<1>3. CASE spc \in {"ask", "data"} /\ NextBlock
  <2>1. (spc = "ask" /\ up[1] = "C") \/ (spc = "data" /\ up[1] = "ACK")
    BY <1>3, <1>r DEF Asking, Sending
  <2>2. CASE sblk < size /\ ~short /\ Sends("data", sblk + 1)
    <3>1. Took
      BY <1>3, <2>2 DEF Sends, Took, Sent, Sorts
    <3> QED BY <2>1, <3>1 DEF Advanced
  <2>3. CASE sblk < size /\ ~short /\ SendsShort
    <3>1. Took
      BY <1>3, <2>3 DEF SendsShort, Took, Sent, Sorts
    <3> QED BY <2>1, <3>1 DEF Advanced
  <2>4. CASE SenderStops("SOURCE")
    BY <2>4 DEF SenderStops, Stopped, Results
  <2>5. CASE Sends("eot", sblk)
    <3>1. Finished
      BY <1>3, <2>5 DEF Sends, Finished, Sent
    <3> QED BY <2>1, <3>1 DEF Advanced
  <2> QED BY <1>3, <2>2, <2>3, <2>4, <2>5 DEF NextBlock
<1>4. CASE spc = "eot" /\ Waits("close")
  <2>1. up[1] = "ACK"
    BY <1>4, <1>r DEF Sending
  <2> QED BY <1>4, <2>1 DEF Waits, Waited, Advanced
<1>5. CASE spc = "close" /\ Sends("null", sblk)
  <2>1. up[1] = "C"
    BY <1>5, <1>r DEF Asking
  <2>2. Parted
    BY <1>5 DEF Sends, Parted, Sent
  <2> QED BY <2>1, <2>2 DEF Advanced
<1>6. CASE spc = "null" /\ SenderStops("OK")
  BY <1>6 DEF SenderStops, Stopped
<1> QED BY <1>1, <1>2, <1>3, <1>4, <1>5, <1>6 DEF Answered

LEMMA SenderReadsDoes ==
  ASSUME Sorts, SenderInv, SenderReads
  PROVE  /\ up # <<>> /\ up' = Tail(up) /\ SenderRuns
         /\ UNCHANGED <<size, receiverVars, late, fooled>>
         /\ Stopped \/ Again \/ Idled \/ Advanced
<1>1. /\ up # <<>> /\ up' = Tail(up) /\ SenderRuns
      /\ UNCHANGED <<size, receiverVars, late, fooled>>
  BY DEF SenderReads
<1>2. Head(up) = up[1]
  BY <1>1, TailKept DEF Sorts
<1>3. CASE Head(up) = "CAN" /\ SenderStops("CANCEL")
  BY <1>1, <1>3 DEF SenderStops, Stopped, Results
<1>4. CASE Head(up) = Reply[spc] /\ Answered
  BY <1>1, <1>2, <1>4, AnsweredDoes
<1>5. CASE spc \in Sending /\ Resend
  BY <1>1, <1>5, ResendDoes
<1>6. CASE spc \in Asking /\ UNCHANGED <<senderVars, down>>
  BY <1>1, <1>6 DEF senderVars, Idled
<1> QED BY <1>3, <1>4, <1>5, <1>6 DEF SenderReads

LEMMA SenderTimeoutDoes ==
  ASSUME Sorts, SenderInv, SenderTimeout
  PROVE  /\ up' = up /\ SenderRuns
         /\ UNCHANGED <<size, receiverVars, fooled>>
         /\ Stopped \/ Again \/ Idled
         /\ \/ SenderQuiet /\ late' = late
            \/ late < MaxLate /\ late' = late + 1
<1>1. /\ up' = up /\ SenderRuns /\ SenderWaitsOut
      /\ UNCHANGED <<size, receiverVars, fooled>>
      /\ \/ SenderQuiet /\ late' = late
         \/ late < MaxLate /\ late' = late + 1
  BY DEF SenderTimeout, SenderWaitsOut, TooLate
<1>2. CASE spc \in Sending /\ Resend
  BY <1>1, <1>2, ResendDoes
<1>3. CASE SenderStops("TIMEOUT")
  BY <1>1, <1>3 DEF SenderStops, Stopped, Results
<1>4. CASE spc \in Asking /\ stries' = stries + 1 /\ UNCHANGED <<spc, sblk, short, sres, down>>
  BY <1>1, <1>4 DEF Idled
<1> QED BY <1>1, <1>2, <1>3, <1>4 DEF SenderWaitsOut

LEMMA SenderBreaksDoes ==
  ASSUME Sorts, SenderBreaks
  PROVE  /\ SenderRuns /\ Stopped
         /\ UNCHANGED <<up, size, receiverVars, late, fooled>>
  BY DEF SenderBreaks, SenderStops, Stopped, Results

-----------------------------------------------------------------------------
(* What a step of the receiver comes to.                                   *)

Ended ==
  /\ rpc' = "done" /\ rres' \in Results \cup {"OK"}
  /\ rres' = "OK" => rpc = "close"
  /\ UNCHANGED <<got, expect, prompt, rtries>>
  /\ up' \in Seq(Answers) /\ Len(up) <= Len(up')
  /\ \A i \in 1 .. Len(up) : up'[i] = up[i]
  /\ \A i \in 1 .. Len(up') : i > Len(up) => up'[i] # "C"
Silent == UNCHANGED <<receiverVars, up>>
HandEot ==
  /\ rpc = "hand" /\ up' = up \o <<"ACK", "C">>
  /\ UNCHANGED receiverVars
HandBad ==
  /\ rpc = "hand" /\ up' = up \o <<"C">>
  /\ rtries < HandshakeRetries /\ rtries' = rtries + 1
  /\ UNCHANGED <<rpc, got, expect, prompt, rres>>
Named ==
  /\ rpc = "hand" /\ rpc' = "data" /\ up' = up \o <<"ACK", "C">>
  /\ rtries' = 0
  /\ UNCHANGED <<got, expect, prompt, rres>>
DataSays(a) ==
  /\ rpc = "data" /\ rpc' = "data" /\ up' = up \o <<a>>
  /\ prompt' = "NAK" /\ rtries' = 0 /\ rres' = rres
DataBad == DataSays("NAK") /\ UNCHANGED <<got, expect>>
DataOld(u) == DataSays("ACK") /\ Repeated(u) /\ UNCHANGED <<got, expect>>
DataNew(u) == DataSays("ACK") /\ InOrder(u) /\ got' = Delivered(u) /\ expect' = NextSeq
Prompted ==
  /\ rpc = "data" /\ up' = up \o <<prompt>>
  /\ rtries' = rtries + 1
  /\ UNCHANGED <<rpc, got, expect, prompt, rres>>
Closing ==
  /\ rpc \in {"data", "close"} /\ rpc' = "close" /\ Len(got) = size
  /\ UNCHANGED <<got, expect, prompt, rres>>
  /\ rtries' \in Nat /\ up' \in Seq(Answers)

LEMMA StopsDoes ==
  ASSUME Sorts, NEW res \in Results \cup {"OK"}, NEW reply \in {<<>>, <<"ACK">>},
         ReceiverStops(res, reply), res = "OK" => rpc = "close"
  PROVE  Ended
<1> DEFINE a == IF res = "OK" THEN <<>> ELSE <<"CAN">>
<1>1. up' = (up \o reply) \o a
  BY DEF ReceiverStops
<1>2. /\ up \o reply \in Seq(Answers) /\ Len(up) <= Len(up \o reply)
      /\ \A i \in 1 .. Len(up) : (up \o reply)[i] = up[i]
      /\ \A i \in 1 .. Len(up \o reply) : i > Len(up) => (up \o reply)[i] # "C"
  <2>1. CASE reply = <<>>
    <3>1. up \o reply = up
      BY <2>1, ConcatEmptySeq DEF Sorts
    <3> QED BY <3>1 DEF Sorts
  <2>2. CASE reply = <<"ACK">>
    <3>1. "ACK" \in Answers
      BY DEF Answers
    <3>2. /\ up \o <<"ACK">> \in Seq(Answers) /\ Len(up \o <<"ACK">>) = Len(up) + 1
          /\ \A i \in 1 .. Len(up) : (up \o <<"ACK">>)[i] = up[i]
          /\ (up \o <<"ACK">>)[Len(up) + 1] = "ACK"
      BY <3>1, OneMore DEF Sorts
    <3>3. Len(up) \in Nat
      BY DEF Sorts
    <3>4. \A i \in 1 .. Len(up \o <<"ACK">>) : i > Len(up) => i = Len(up) + 1
      BY <3>2, <3>3
    <3> QED BY <2>2, <3>2, <3>3, <3>4
  <2> QED BY <2>1, <2>2
<1> DEFINE q == up \o reply
<1> HIDE DEF q
<1>3. /\ q \o a \in Seq(Answers) /\ Len(q) <= Len(q \o a)
      /\ \A i \in 1 .. Len(q) : (q \o a)[i] = q[i]
      /\ \A i \in 1 .. Len(q \o a) : i > Len(q) => (q \o a)[i] # "C"
  <2>0. q \in Seq(Answers)
    BY <1>2 DEF q
  <2>1. CASE res = "OK"
    <3>1. q \o a = q
      BY <2>0, <2>1, ConcatEmptySeq
    <3> QED BY <2>0, <3>1
  <2>2. CASE res # "OK"
    <3>1. "CAN" \in Answers
      BY DEF Answers
    <3> QED BY <2>0, <2>2, <3>1, OneMore
  <2> QED BY <2>1, <2>2
<1>4. /\ up' \in Seq(Answers) /\ Len(up) <= Len(up')
      /\ \A i \in 1 .. Len(up) : up'[i] = up[i]
      /\ \A i \in 1 .. Len(up') : i > Len(up) => up'[i] # "C"
  <2>1. up' = q \o a
    BY <1>1 DEF q
  <2>2. Len(up) \in Nat /\ Len(q) \in Nat /\ Len(up) <= Len(q)
    BY <1>2 DEF q, Sorts
  <2>3. \A i \in 1 .. Len(up) : i \in 1 .. Len(q) /\ q[i] = up[i]
    BY <2>2, <1>2 DEF q
  <2>4. \A i \in 1 .. Len(q) : i > Len(up) => q[i] # "C"
    BY <1>2 DEF q
  <2>5. Len(q \o a) \in Nat
    BY <1>3
  <2> HIDE DEF a
  <2> QED BY <2>1, <2>2, <2>3, <2>4, <2>5, <1>3
<1> QED BY <1>4 DEF ReceiverStops, Ended

LEMMA TryAgainDoes ==
  ASSUME Sorts, ReceiverRuns, NEW limit, NEW a \in Answers, TryAgain(limit, <<a>>)
  PROVE  \/ Ended
         \/ /\ up' = up \o <<a>> /\ rtries < limit /\ rtries' = rtries + 1
            /\ UNCHANGED <<rpc, got, expect, prompt, rres>>
<1>1. CASE ReceiverStops("TIMEOUT", <<>>)
  BY <1>1, StopsDoes DEF Results
<1> QED BY <1>1 DEF TryAgain, Replies

LEMMA EotDoes ==
  ASSUME Sorts, ReceiverInv, ReceiverRuns, Eot
  PROVE  Ended \/ HandEot \/ Closing
<1>1. CASE rpc = "hand" /\ Replies(<<"ACK", "C">>) /\ UNCHANGED receiverVars
  BY <1>1 DEF Replies, HandEot
<1>2. CASE rpc = "data" /\ ReceiverStops("PROTO", <<>>)
  BY <1>2, StopsDoes DEF Results
<1>a. "ACK" \in Answers /\ "C" \in Answers
  BY DEF Answers
<1>3. CASE /\ rpc = "data" /\ AcceptsEot
           /\ rpc' = "close" /\ rtries' = 0
           /\ Replies(<<"ACK", "C">>)
           /\ UNCHANGED <<got, expect, prompt, rres>>
  <2>1. up' \in Seq(Answers)
    BY <1>3, <1>a, TwoMore DEF Replies, Sorts
  <2> QED BY <1>3, <2>1 DEF Closing, AcceptsEot
<1>4. CASE rpc = "close" /\ Replies(<<"ACK">>) /\ UNCHANGED receiverVars
  <2>1. up' \in Seq(Answers)
    BY <1>4, <1>a, OneMore DEF Replies, Sorts
  <2>2. Len(got) = size
    BY <1>4 DEF ReceiverInv
  <2> QED BY <1>4, <2>1, <2>2 DEF Closing, receiverVars, Sorts
<1> QED BY <1>1, <1>2, <1>3, <1>4 DEF Eot

LEMMA BadBlockDoes ==
  ASSUME Sorts, ReceiverInv, ReceiverRuns, BadBlock
  PROVE  Ended \/ HandBad \/ DataBad \/ Closing
<1>a. "NAK" \in Answers /\ "C" \in Answers
  BY DEF Answers
<1>1. CASE rpc = "hand" /\ TryAgain(HandshakeRetries, <<"C">>)
  BY <1>1, <1>a, TryAgainDoes DEF HandBad
<1>2. CASE /\ rpc = "data"
           /\ rtries' = 0 /\ prompt' = "NAK"
           /\ Replies(<<"NAK">>)
           /\ UNCHANGED <<rpc, got, expect, rres>>
  BY <1>2 DEF DataBad, DataSays, Replies
<1>3. CASE rpc = "close" /\ TryAgain(BlockRetries, <<"NAK">>)
  <2>1. Ended \/ /\ up' = up \o <<"NAK">> /\ rtries' = rtries + 1
                 /\ UNCHANGED <<rpc, got, expect, prompt, rres>>
    BY <1>3, <1>a, TryAgainDoes
  <2>2. up \o <<"NAK">> \in Seq(Answers)
    BY <1>a, OneMore DEF Sorts
  <2>3. Len(got) = size /\ rtries + 1 \in Nat /\ rpc = "close"
    BY <1>3 DEF ReceiverInv, Sorts
  <2> QED BY <2>1, <2>2, <2>3 DEF Closing
<1> QED BY <1>1, <1>2, <1>3 DEF BadBlock

LEMMA GoodBlockDoes ==
  ASSUME Sorts, ReceiverInv, ReceiverRuns, NEW u, GoodBlock(u)
  PROVE  Ended \/ (Named /\ u.kind = "name") \/ DataOld(u) \/ DataNew(u)
<1>1. CASE rpc = "hand" /\ NameBlock(u)
  <2>1. CASE /\ u.kind = "name"
             /\ rpc' = "data" /\ rtries' = 0
             /\ Replies(<<"ACK", "C">>)
             /\ UNCHANGED <<got, expect, prompt, rres>>
    BY <1>1, <2>1 DEF Named, Replies
  <2>2. CASE ReceiverStops("SINK", <<>>) \/ ReceiverStops("PROTO", <<>>)
    BY <2>2, StopsDoes DEF Results
  <2>3. CASE ReceiverStops("CANCEL", <<"ACK">>)
    BY <2>3, StopsDoes DEF Results
  <2> QED BY <1>1, <2>1, <2>2, <2>3 DEF NameBlock
<1>2. CASE rpc = "data" /\ DataBlock(u)
  <2>1. CASE ReceiverStops("SINK", <<>>) \/ ReceiverStops("PROTO", <<>>)
    BY <2>1, StopsDoes DEF Results
  <2>2. CASE ~(ReceiverStops("SINK", <<>>) \/ ReceiverStops("PROTO", <<>>))
    BY <1>2, <2>2 DEF DataBlock, DataOld, DataNew, DataSays, Replies
  <2> QED BY <2>1, <2>2
<1>3. CASE rpc = "close" /\ CloseBlock(u)
  <2>1. CASE ReceiverStops("OK", <<"ACK">>)
    BY <1>3, <2>1, StopsDoes
  <2>2. CASE ReceiverStops("PROTO", <<>>)
    BY <2>2, StopsDoes DEF Results
  <2> QED BY <1>3, <2>1, <2>2 DEF CloseBlock
<1> QED BY <1>1, <1>2, <1>3 DEF GoodBlock

LEMMA ReceiverReadsDoes ==
  ASSUME Sorts, ReceiverInv, ReceiverReads
  PROVE  /\ down # <<>> /\ down' \in Seq(Units) /\ Thinned(down', down, 1)
         /\ Len(down') + 1 <= Len(down)
         /\ ReceiverRuns
         /\ UNCHANGED <<size, senderVars, late>>
         /\ fooled' \in BOOLEAN /\ (fooled => fooled')
         /\ \/ Ended \/ HandBad \/ DataBad \/ Closing
            \/ Silent /\ down[1].kind = "junk"
            \/ HandEot /\ ((down[1].kind = "junk" /\ fooled' = TRUE) \/ down[1].kind = "eot")
            \/ Named /\ down[1].kind = "name"
            \/ DataOld(down[1]) /\ down[1].kind \in Blocks
            \/ DataNew(down[1]) /\ down[1].kind \in Blocks
<1>1. /\ down # <<>> /\ ReceiverRuns /\ UNCHANGED <<size, senderVars, late>>
  BY DEF ReceiverReads
<1>2. Head(down) = down[1] /\ Tail(down) \in Seq(Units) /\ Thinned(Tail(down), down, 1)
      /\ Len(Tail(down)) + 1 <= Len(down)
  <2>1. down \in Seq(Units) /\ Len(down) \in Nat
    BY DEF Sorts
  <2> QED BY <1>1, <2>1, TailKept, KeptIsThinned
<1> DEFINE u == down[1]
<1> HIDE DEF u
<1>3. Head(down) = u
  BY <1>2 DEF u
<1>4. CASE Reads(u) /\ down' = Tail(down) /\ UNCHANGED fooled
  <2>0. down' \in Seq(Units) /\ Thinned(down', down, 1) /\ Len(down') + 1 <= Len(down)
        /\ fooled' \in BOOLEAN /\ (fooled => fooled')
    BY <1>2, <1>4 DEF Sorts
  <2>1. CASE ReceiverStops("CANCEL", <<>>)
    <3>1. Ended
      BY <1>1, <2>1, StopsDoes DEF Results
    <3> QED BY <1>1, <2>0, <3>1
  <2>2. CASE u.kind = "eot" /\ Eot
    <3>1. Ended \/ HandEot \/ Closing
      BY <1>1, <2>2, EotDoes
    <3> QED BY <1>1, <2>0, <3>1, <2>2 DEF u
  <2>3. CASE u.kind \in Blocks /\ GoodBlock(u)
    <3>1. Ended \/ (Named /\ u.kind = "name") \/ DataOld(u) \/ DataNew(u)
      BY <1>1, <2>3, GoodBlockDoes
    <3> QED BY <1>1, <2>0, <3>1, <2>3 DEF u
  <2>4. CASE u.kind = "junk" /\ UNCHANGED <<receiverVars, up>>
    <3>1. Silent /\ down[1].kind = "junk"
      BY <2>4 DEF u, Silent
    <3> QED BY <1>1, <2>0, <3>1
  <2> QED BY <1>4, <2>1, <2>2, <2>3, <2>4 DEF Reads
<1>5. CASE u.kind = "junk" /\ Eot /\ down' = Tail(down) /\ fooled' = (fooled \/ rpc = "hand")
  <2>0. down' \in Seq(Units) /\ Thinned(down', down, 1) /\ Len(down') + 1 <= Len(down)
        /\ fooled' \in BOOLEAN /\ (fooled => fooled')
    BY <1>2, <1>5 DEF Sorts
  <2>1. Ended \/ HandEot \/ Closing
    BY <1>1, <1>5, EotDoes
  <2>2. HandEot => fooled' = TRUE /\ down[1].kind = "junk"
    BY <1>5 DEF HandEot, u, Sorts
  <2> QED BY <1>1, <2>0, <2>1, <2>2
<1>6. CASE BadBlock /\ down' \in Drained(Tail(down)) /\ UNCHANGED fooled
  <2>0. down' \in Seq(Units) /\ Thinned(down', down, 1) /\ Len(down') + 1 <= Len(down)
    BY <1>1, <1>6, DrainedThins DEF Sorts
  <2>1. Ended \/ HandBad \/ DataBad \/ Closing
    BY <1>1, <1>6, BadBlockDoes
  <2> QED BY <1>1, <1>6, <2>0, <2>1 DEF Sorts
<1> QED BY <1>3, <1>4, <1>5, <1>6 DEF ReceiverReads

LEMMA ReceiverTimeoutDoes ==
  ASSUME Sorts, ReceiverInv, ReceiverTimeout
  PROVE  /\ ReceiverRuns /\ UNCHANGED <<size, senderVars, down, fooled>>
         /\ Ended \/ HandBad \/ Prompted \/ Closing
         /\ \/ ReceiverQuiet /\ late' = late
            \/ late < MaxLate /\ late' = late + 1
<1>1. /\ UNCHANGED <<size, senderVars, down, fooled>>
      /\ \/ ReceiverQuiet /\ late' = late
         \/ late < MaxLate /\ late' = late + 1
  BY DEF ReceiverTimeout, ReceiverWaitsOut, TooLate
<1>a. "C" \in Answers /\ prompt \in Answers
  BY DEF Answers, Sorts
<1>2. CASE rpc = "hand" /\ TryAgain(HandshakeRetries, <<"C">>)
  <2>1. ReceiverRuns
    BY <1>2 DEF ReceiverRuns
  <2> QED BY <1>1, <1>2, <1>a, <2>1, TryAgainDoes DEF HandBad
<1>3. CASE rpc = "data" /\ TryAgain(BlockRetries, <<prompt>>)
  <2>1. ReceiverRuns
    BY <1>3 DEF ReceiverRuns
  <2> QED BY <1>1, <1>3, <1>a, <2>1, TryAgainDoes DEF Prompted
<1>4. CASE rpc = "close" /\ TryAgain(BlockRetries, <<"C">>)
  <2>1. ReceiverRuns
    BY <1>4 DEF ReceiverRuns
  <2>2. Ended \/ /\ up' = up \o <<"C">> /\ rtries' = rtries + 1
                 /\ UNCHANGED <<rpc, got, expect, prompt, rres>>
    BY <1>4, <1>a, <2>1, TryAgainDoes
  <2>3. up \o <<"C">> \in Seq(Answers)
    BY <1>a, OneMore DEF Sorts
  <2>c. Len(got) = size /\ rtries + 1 \in Nat /\ rpc = "close"
    BY <1>4 DEF ReceiverInv, Sorts
  <2>4. CASE /\ up' = up \o <<"C">> /\ rtries' = rtries + 1
             /\ UNCHANGED <<rpc, got, expect, prompt, rres>>
    <3>1. up' \in Seq(Answers) /\ rtries' \in Nat
      BY ONLY <2>3, <2>c, <2>4
    <3>2. rpc' = rpc /\ UNCHANGED <<got, expect, prompt, rres>>
      BY ONLY <2>4
    <3> QED BY ONLY <1>1, <2>1, <2>c, <3>1, <3>2 DEF Closing
  <2> QED BY <1>1, <2>1, <2>2, <2>4
<1> QED BY <1>2, <1>3, <1>4 DEF ReceiverTimeout, ReceiverWaitsOut

LEMMA ReceiverStartsDoes ==
  ASSUME Sorts, ReceiverStarts
  PROVE  /\ rpc = "off" /\ rpc' = "hand" /\ up' = up \o <<"C">>
         /\ UNCHANGED <<size, got, expect, prompt, rtries, rres, senderVars, down, late, fooled>>
  BY DEF ReceiverStarts, Replies

LEMMA ReceiverBreaksDoes ==
  ASSUME Sorts, ReceiverBreaks
  PROVE  /\ ReceiverRuns /\ Ended
         /\ UNCHANGED <<size, senderVars, down, late, fooled>>
<1>1. ReceiverRuns /\ UNCHANGED <<size, senderVars, down, late, fooled>>
  BY DEF ReceiverBreaks
<1>2. Ended
  BY StopsDoes DEF ReceiverBreaks, Results
<1> QED BY <1>1, <1>2

(* What the line does of its own. *)
LEMMA LineDoes ==
  ASSUME Sorts, LosesDown \/ LosesUp \/ Damages
  PROVE  /\ UNCHANGED <<size, senderVars, receiverVars, late, fooled>>
         /\ \/ /\ up' = up /\ down' \in Seq(Units) /\ Thinned(down', down, 0)
               /\ Len(down') <= Len(down) /\ ReceiverRuns
            \/ /\ down' = down /\ up' \in Seq(Answers) /\ Kept(up', up, 0)
               /\ Len(up') <= Len(up) /\ SenderRuns
<1>0. /\ down \in Seq(Units) /\ DOMAIN down = 1 .. Len(down) /\ Len(down) \in Nat
      /\ up \in Seq(Answers) /\ DOMAIN up = 1 .. Len(up) /\ Len(up) \in Nat
  BY DEF Sorts
<1>1. CASE LosesDown
  <2>1. PICK i \in 1 .. Len(down) : down' = Without(down, i)
    BY <1>0, <1>1 DEF LosesDown
  <2>2. down' \in Seq(Units) /\ Len(down') = Len(down) - 1 /\ Kept(down', down, 0)
    BY <1>0, <2>1, WithoutKept
  <2>3. Thinned(down', down, 0)
    BY <2>2, KeptIsThinned
  <2> QED BY <1>0, <1>1, <2>2, <2>3 DEF LosesDown
<1>2. CASE LosesUp
  <2>1. PICK i \in 1 .. Len(up) : up' = Without(up, i)
    <3>1. \E i \in DOMAIN up : up' = Without(up, i)
      BY ONLY <1>2 DEF LosesUp
    <3> QED BY ONLY <1>0, <3>1
  <2>2. up' \in Seq(Answers) /\ Len(up') = Len(up) - 1 /\ Kept(up', up, 0)
    BY <1>0, <2>1, WithoutKept
  <2> QED BY <1>0, <1>2, <2>2 DEF LosesUp
<1>3. CASE Damages
  <2>1. PICK i \in 1 .. Len(down) : down' = [down EXCEPT ![i] = Junk]
    BY <1>0, <1>3 DEF Damages, Junk
  <2>2. down' \in Seq(Units) /\ Thinned(down', down, 0) /\ Len(down') = Len(down)
    BY <1>0, <2>1, DamageThins
  <2> QED BY <1>0, <1>3, <2>2 DEF Damages
<1> QED BY <1>1, <1>2, <1>3

-----------------------------------------------------------------------------
(* Sequence numbers.                                                       *)

LEMMA ModFacts ==
  ASSUME NEW n \in Nat, NEW S \in Nat, S > 1
  PROVE  /\ n % S \in 0 .. S - 1 /\ n \div S \in Nat
         /\ n = S * (n \div S) + (n % S)
  OBVIOUS

LEMMA ModUnique ==
  ASSUME NEW S \in Nat, S > 1, NEW q \in Int, NEW p \in Int,
         NEW r \in 0 .. S - 1, NEW t \in 0 .. S - 1,
         S * q + r = S * p + t
  PROVE  q = p /\ r = t
<1>1. CASE q > p
  <2>1. q >= p + 1
    BY <1>1
  <2>2. S * q >= S * (p + 1)
    BY <2>1
  <2>3. S * (p + 1) = S * p + S
    OBVIOUS
  <2> QED BY <2>2, <2>3
<1>2. CASE q < p
  <2>1. p >= q + 1
    BY <1>2
  <2>2. S * p >= S * (q + 1)
    BY <2>1
  <2>3. S * (q + 1) = S * q + S
    OBVIOUS
  <2> QED BY <2>2, <2>3
<1> QED BY <1>1, <1>2

LEMMA ModSmall ==
  ASSUME NEW S \in Nat, S > 1, NEW n \in 0 .. S - 1
  PROVE  n % S = n
<1>1. n \in Nat
  OBVIOUS
<1>2. n % S \in 0 .. S - 1 /\ n \div S \in Nat /\ n = S * (n \div S) + (n % S)
  BY <1>1, ModFacts
<1>3. S * 0 + n = S * (n \div S) + (n % S)
  BY <1>2
<1> QED BY <1>2, <1>3, ModUnique

(* Numbers less than S apart are told apart by their remainders. *)
LEMMA ModApart ==
  ASSUME NEW S \in Nat, S > 1, NEW a \in Nat, NEW b \in Nat, a <= b, b - a < S,
         a % S = b % S
  PROVE  a = b
<1>1. /\ a % S \in 0 .. S - 1 /\ a \div S \in Nat /\ a = S * (a \div S) + (a % S)
      /\ b % S \in 0 .. S - 1 /\ b \div S \in Nat /\ b = S * (b \div S) + (b % S)
  BY ModFacts
<1> DEFINE p == a \div S
           q == b \div S
           r == a % S
<1>2. p \in Nat /\ q \in Nat /\ a = S * p + r /\ b = S * q + r /\ r \in Nat
  BY <1>1
<1> HIDE DEF p, q, r
<1>3. CASE q > p
  <2>1. S * q >= S * (p + 1)
    BY <1>2, <1>3
  <2>2. S * (p + 1) = S * p + S
    BY <1>2
  <2> QED BY <1>2, <2>1, <2>2
<1>4. CASE q < p
  <2>1. S * p >= S * (q + 1)
    BY <1>2, <1>4
  <2>2. S * (q + 1) = S * q + S
    BY <1>2
  <2> QED BY <1>2, <2>1, <2>2
<1>5. CASE q = p
  BY <1>2, <1>5
<1> QED BY <1>2, <1>3, <1>4, <1>5

LEMMA ModSucc ==
  ASSUME NEW S \in Nat, S > 1, NEW n \in Nat
  PROVE  ((n % S) + 1) % S = (n + 1) % S
<1> DEFINE q == n \div S
           r == n % S
           p == (n + 1) \div S
           t == (n + 1) % S
<1>1. q \in Nat /\ r \in 0 .. S - 1 /\ n = S * q + r
  BY ModFacts
<1>2. p \in Nat /\ t \in 0 .. S - 1 /\ n + 1 = S * p + t
  <2> DEFINE m == n + 1
  <2>1. m \in Nat
    OBVIOUS
  <2> HIDE DEF m
  <2>2. m % S \in 0 .. S - 1 /\ m \div S \in Nat /\ m = S * (m \div S) + (m % S)
    BY <2>1, ModFacts
  <2> QED BY <2>2 DEF m
<1> HIDE DEF q, p, r, t
<1>3. CASE r + 1 < S
  <2>1. S * q + (r + 1) = S * p + t /\ r + 1 \in 0 .. S - 1
    BY <1>1, <1>2, <1>3
  <2>2. r + 1 = t
    BY <2>1, <1>1, <1>2, ModUnique
  <2>3. (r + 1) % S = r + 1
    BY <2>1, ModSmall
  <2> QED BY <2>2, <2>3 DEF r, t
<1>4. CASE r + 1 = S
  <2>1. S * (q + 1) = S * q + S
    BY <1>1
  <2>2. S * (q + 1) + 0 = S * p + t /\ 0 \in 0 .. S - 1 /\ q + 1 \in Int
    BY <1>1, <1>2, <1>4, <2>1
  <2>3. t = 0
    <3> DEFINE c == q + 1
    <3>1. S * c + 0 = S * p + t /\ 0 \in 0 .. S - 1 /\ c \in Int /\ p \in Int
      BY <2>2, <1>2
    <3> HIDE DEF c
    <3>2. S \in Nat /\ S > 1 /\ t \in 0 .. S - 1
      BY <1>2
    <3> QED BY ONLY <3>1, <3>2, ModUnique
  <2>4. S % S = 0
    <3>1. S % S \in 0 .. S - 1 /\ S \div S \in Nat /\ S = S * (S \div S) + (S % S)
      BY ModFacts
    <3>2. S * 1 + 0 = S * (S \div S) + (S % S) /\ 0 \in 0 .. S - 1
      BY <3>1
    <3> QED BY <3>1, <3>2, ModUnique
  <2> QED BY <1>4, <2>3, <2>4 DEF r, t
<1> QED BY <1>1, <1>3, <1>4

LEMMA ModPred ==
  ASSUME NEW S \in Nat, S > 1, NEW n \in Nat
  PROVE  (((n + 1) % S) + S - 1) % S = n % S
<1> DEFINE q == (n + 1) \div S
           r == (n + 1) % S
           p == n \div S
           t == n % S
<1>1. q \in Nat /\ r \in 0 .. S - 1 /\ n + 1 = S * q + r
  <2> DEFINE m == n + 1
  <2>1. m \in Nat
    OBVIOUS
  <2> HIDE DEF m
  <2>2. m % S \in 0 .. S - 1 /\ m \div S \in Nat /\ m = S * (m \div S) + (m % S)
    BY <2>1, ModFacts
  <2> QED BY <2>2 DEF m
<1>2. p \in Nat /\ t \in 0 .. S - 1 /\ n = S * p + t
  BY ModFacts
<1> DEFINE m == r + S - 1
<1>3. m \in Nat /\ m % S \in 0 .. S - 1 /\ m \div S \in Nat /\ m = S * (m \div S) + (m % S)
  <2>1. m \in Nat
    BY <1>1
  <2> HIDE DEF m
  <2> QED BY <2>1, ModFacts
<1> DEFINE k == m \div S
           w == m % S
<1>4. k \in Nat /\ w \in 0 .. S - 1 /\ m = S * k + w
  BY <1>3
<1> HIDE DEF k, w, q, r, p, t
<1>5. S * (q - 1) = S * q - S /\ S * (q - 1 + k) = S * (q - 1) + S * k
  BY <1>1, <1>4
<1>6. S * (q - 1 + k) + w = S * p + t
  BY <1>1, <1>2, <1>4, <1>5
<1>7. q - 1 + k \in Int /\ p \in Int
  BY <1>1, <1>2, <1>4
<1>8. w = t
  <2> DEFINE c == q - 1 + k
  <2>1. S * c + w = S * p + t /\ c \in Int /\ p \in Int
    BY <1>6, <1>7
  <2> HIDE DEF c
  <2> QED BY <2>1, <1>2, <1>4, ModUnique
<1> QED BY <1>8 DEF w, t, r

-----------------------------------------------------------------------------
(* Sorts and places are kept.                                              *)

SenderMoves == Stopped \/ Again \/ Idled \/ Advanced

LEMMA UnitSorts ==
  ASSUME Sorts
  PROVE  /\ \A k \in Kinds, b \in Nat : Unit(k, b) \in Units
         /\ Unit("CAN", 0) \in Units /\ Unit("name", 0) \in Units
         /\ Unit("eot", 0) \in Units /\ Unit("null", 0) \in Units
         /\ Unit("data", sblk + 1) \in Units /\ Unit("short", sblk + 1) \in Units
<1>1. \A k \in Kinds, b \in Nat : Unit(k, b) \in Units
  BY DEF Unit, Units
<1>2. {"name", "data", "short", "null", "eot", "CAN", "junk"} \subseteq Kinds
  BY DEF Kinds, Blocks
<1>3. sblk \in Nat /\ sblk + 1 \in Nat /\ 0 \in Nat
  BY DEF Sorts
<1> QED BY <1>1, <1>2, <1>3

LEMMA InFlightSort ==
  ASSUME Sorts, spc \in Sending
  PROVE  InFlight \in Units
<1>1. \A k \in Kinds, b \in Nat : Unit(k, b) \in Units
  BY UnitSorts
<1>2. {"name", "data", "short", "null", "eot", "CAN", "junk"} \subseteq Kinds
  BY DEF Kinds, Blocks
<1>3. (IF spc = "data" /\ short THEN "short" ELSE spc) \in Kinds
  BY <1>2 DEF Sending
<1>4. (IF spc = "data" THEN sblk ELSE 0) \in Nat
  BY DEF Sorts
<1> QED BY <1>1, <1>3, <1>4 DEF InFlight

(* The line to the receiver after a move of the sender. *)
NewUnit(e) ==
  /\ e \in Units
  /\ down' = Append(down, e)
  /\ down' \in Seq(Units) /\ Len(down') = Len(down) + 1
  /\ \A i \in 1 .. Len(down) : down'[i] = down[i]
  /\ down'[Len(down) + 1] = e

LEMMA Appended ==
  ASSUME Sorts, NEW e \in Units, down' = Append(down, e)
  PROVE  NewUnit(e)
<1>1. down \in Seq(Units)
  BY DEF Sorts
<1> QED BY <1>1, AppendFacts DEF NewUnit

LEMMA SenderKeeps ==
  ASSUME LimitsAssumption, Base, SenderMoves, SenderRuns,
         UNCHANGED <<size, receiverVars, fooled>>,
         up' \in Seq(Answers), rpc = "off" => up' = <<>>, late' \in 0 .. MaxLate
  PROVE  Sorts' /\ SenderInv' /\ ReceiverInv'
<1> USE DEF Base
<1>0. BlockRetries \in Nat
  BY DEF LimitsAssumption
<1>1. ReceiverInv'
  BY DEF ReceiverInv, receiverVars
<1>2. CASE Stopped
  <2>1. down' \in Seq(Units)
    BY <1>2, UnitSorts, Appended DEF Stopped, Sorts, NewUnit
  <2>2. Sorts'
    BY <1>2, <2>1 DEF Stopped, Sorts, receiverVars
  <2>3. SenderInv'
    BY <1>2 DEF Stopped, SenderInv, receiverVars, Results, Sorts, Sending
  <2> QED BY <1>1, <2>2, <2>3
<1>3. CASE Again
  <2>1. down' \in Seq(Units)
    BY <1>3, InFlightSort, Appended DEF Again, NewUnit
  <2>2. Sorts'
    BY <1>3, <2>1 DEF Again, Sorts, receiverVars
  <2>3. SenderInv'
    BY <1>0, <1>3 DEF Again, SenderInv, receiverVars, Sorts, Sending
  <2> QED BY <1>1, <2>2, <2>3
<1>4. CASE Idled
  <2>2. Sorts'
    BY <1>4 DEF Idled, Sorts, receiverVars
  <2>3. SenderInv'
    BY <1>4 DEF Idled, SenderInv, receiverVars, Sorts, Sending, Asking
  <2> QED BY <1>1, <2>2, <2>3
<1>5. CASE Waited
  <2>2. Sorts'
    BY <1>5 DEF Waited, Sorts, receiverVars, Asking, Sending
  <2>3. SenderInv'
    BY <1>5 DEF Waited, SenderInv, receiverVars, Sorts, Sending
  <2> QED BY <1>1, <2>2, <2>3
<1>6. CASE Opened \/ Finished \/ Parted \/ Took
  <2>1. down' \in Seq(Units)
    BY <1>6, UnitSorts, Appended DEF Opened, Finished, Parted, Took, Sent, NewUnit
  <2>a. /\ spc' \in Asking \cup Sending /\ sblk' \in Nat /\ short' \in BOOLEAN
        /\ stries' = 0 /\ sres' = sres
    <3>1. CASE Opened
      BY <3>1 DEF Opened, Sent, Sorts, Sending
    <3>2. CASE Finished
      BY <3>2 DEF Finished, Sent, Sorts, Sending
    <3>3. CASE Parted
      BY <3>3 DEF Parted, Sent, Sorts, Sending
    <3>4. CASE Took
      <4>1. short' \in BOOLEAN /\ stries' = 0 /\ sres' = sres
        BY <3>4 DEF Took, Sent
      <4>2. spc' = "data" /\ sblk' = sblk + 1
        BY <3>4 DEF Took
      <4> QED BY <4>1, <4>2 DEF Sorts, Sending
    <3> QED BY <1>6, <3>1, <3>2, <3>3, <3>4
  <2>2. Sorts'
    BY <2>1, <2>a DEF Sorts, receiverVars
  <2>3. rpc # "data" \/ spc # "start"
    BY DEF SenderInv
  <2>4. SenderInv'
    BY <1>0, <1>6 DEF Opened, Finished, Parted, Took, Sent, SenderInv, receiverVars, Sorts,
                      Sending
  <2> QED BY <1>1, <2>2, <2>4
<1> QED BY <1>2, <1>3, <1>4, <1>5, <1>6 DEF SenderMoves, Advanced

LEMMA RetriesNat ==
  ASSUME LimitsAssumption
  PROVE  /\ BlockRetries \in Nat /\ HandshakeRetries \in Nat /\ MaxLate \in Nat
         /\ SeqSpace \in Nat /\ SeqSpace > 1
  BY DEF LimitsAssumption

(* What the sink has after a block in its order. *)
LEMMA DeliveredDoes ==
  ASSUME Sorts, NEW u \in Units, Len(got) <= size
  PROVE  /\ Delivered(u) \in Seq(Nat)
         /\ Len(got) = size => Delivered(u) = got
         /\ Len(got) # size => /\ Delivered(u) = Append(got, Content(u))
                               /\ Len(Delivered(u)) = Len(got) + 1
                               /\ \A i \in 1 .. Len(got) : Delivered(u)[i] = got[i]
                               /\ Delivered(u)[Len(got) + 1] = Content(u)
         /\ Content(u) \in Nat
<1>1. Content(u) \in Nat
  BY DEF Content, Sorts, Units, Filler
<1>2. /\ Append(got, Content(u)) \in Seq(Nat)
      /\ Len(Append(got, Content(u))) = Len(got) + 1
      /\ \A i \in 1 .. Len(got) : Append(got, Content(u))[i] = got[i]
      /\ Append(got, Content(u))[Len(got) + 1] = Content(u)
  BY <1>1, AppendFacts DEF Sorts
<1>3. Len(got) = size => Delivered(u) = got
  BY DEF Delivered
<1>4. Len(got) # size => Delivered(u) = Append(got, Content(u))
  BY DEF Delivered
<1> HIDE DEF Delivered
<1>5. got \in Seq(Nat)
  BY DEF Sorts
<1> QED BY <1>1, <1>2, <1>3, <1>4, <1>5

LEMMA HeadUnit ==
  ASSUME Sorts, down # <<>>
  PROVE  Len(down) \in Nat /\ Len(down) >= 1 /\ down[1] \in Units
<1>1. down \in Seq(Units)
  BY DEF Sorts
<1>2. Head(down) = down[1] /\ Head(down) \in Units /\ Len(down) >= 1
  BY <1>1, TailKept
<1> QED BY <1>1, <1>2

(* The receiver's moves, whatever they read. *)
ReceiverMoves ==
  \/ Ended \/ HandBad \/ DataBad \/ Closing \/ Silent \/ HandEot \/ Named \/ Prompted
  \/ \E u \in Units : DataOld(u) \/ DataNew(u)

LEMMA ReceiverReadsMoves ==
  ASSUME Sorts, ReceiverInv, ReceiverReads
  PROVE  ReceiverMoves
<1>1. down[1] \in Units
  BY ReceiverReadsDoes, HeadUnit
<1> QED BY <1>1, ReceiverReadsDoes DEF ReceiverMoves

LEMMA ReceiverSorts ==
  ASSUME Sorts, UNCHANGED <<size, senderVars>>, fooled' \in BOOLEAN, late' \in 0 .. MaxLate,
         down' \in Seq(Units), up' \in Seq(Answers),
         rpc' \in {"hand", "data", "close", "done"}, rres' \in {"RUN", "OK"} \cup Results,
         got' \in Seq(Nat), expect' \in Nat, rtries' \in Nat, prompt' \in {"C", "NAK"}
  PROVE  Sorts'
  BY DEF Sorts, senderVars

LEMMA ReceiverKeeps ==
  ASSUME LimitsAssumption, Base, ReceiverMoves, ReceiverRuns,
         UNCHANGED <<size, senderVars>>, fooled' \in BOOLEAN, late' \in 0 .. MaxLate,
         down' \in Seq(Units), down = <<>> => down' = <<>>, Named => down # <<>>
  PROVE  Sorts' /\ SenderInv' /\ ReceiverInv'
<1> USE DEF Base
<1>n. /\ BlockRetries \in Nat /\ HandshakeRetries \in Nat /\ SeqSpace \in Nat /\ SeqSpace > 1
  BY RetriesNat
<1>a. {"ACK", "NAK", "C", "CAN"} \subseteq Answers /\ prompt \in Answers
  BY DEF Answers, Sorts
<1>b. /\ \A x \in Answers : up \o <<x>> \in Seq(Answers)
      /\ up \o <<"ACK", "C">> \in Seq(Answers)
  BY <1>a, OneMore, TwoMore DEF Sorts
<1>s. SenderInv' <=> (spc \in {"off", "start"} => rpc' \notin {"data", "close"} /\ down' = <<>>)
  BY DEF SenderInv, senderVars
<1>t. spc \in {"off", "start"} => down' = <<>> /\ rpc \notin {"data", "close"} /\ ~Named
  BY DEF SenderInv
<1>u. rpc' \in {"data", "close"} => rpc \in {"data", "close"} \/ Named
  BY DEF ReceiverMoves, Ended, HandBad, DataBad, Closing, Silent, HandEot, Prompted,
         DataOld, DataNew, DataSays, receiverVars
<1>v. SenderInv'
  BY <1>s, <1>t, <1>u
<1>o. rpc # "off" /\ rpc # "done"
  BY DEF ReceiverRuns
<1>1. CASE Ended
  <2>1. Sorts'
    BY <1>1 DEF Ended, Sorts, senderVars
  <2>2. ReceiverInv'
    BY <1>1 DEF Ended, ReceiverInv, senderVars, Results
  <2> QED BY <1>v, <2>1, <2>2
<1>2. CASE HandBad \/ HandEot \/ Named \/ Silent
  <2>1. up' \in Seq(Answers)
    BY <1>2, <1>a, <1>b DEF HandBad, HandEot, Named, Silent, Sorts
  <2>2. Sorts'
    <3>1. /\ rpc' \in {"hand", rpc, "data"} /\ UNCHANGED <<got, expect, prompt, rres>>
          /\ rtries' \in {rtries, rtries + 1, 0}
      BY ONLY <1>2 DEF HandBad, HandEot, Named, Silent, receiverVars
    <3>2. rpc \in {"hand", "data", "close"} /\ rtries \in Nat
      BY <1>o DEF Sorts
    <3>3. rres \in {"RUN", "OK"} \cup Results /\ got \in Seq(Nat) /\ expect \in Nat /\ prompt \in {"C", "NAK"}
      BY DEF Sorts
    <3>4. rpc' \in {"hand", "data", "close", "done"} /\ rtries' \in Nat
      BY ONLY <3>1, <3>2
    <3> QED BY <2>1, <3>1, <3>3, <3>4, ReceiverSorts
  <2>3. Due(0) = 1
    <3>1. 1 % SeqSpace = 1 /\ 0 + 1 = 1
      BY <1>n, ModSmall
    <3> QED BY <3>1 DEF Due
  <2>4. CASE Silent
    <3>1. UNCHANGED <<rpc, got, expect, prompt, rtries, rres, up, size>>
      BY <2>4 DEF Silent, receiverVars
    <3> QED BY <1>v, <2>2, <3>1 DEF ReceiverInv, Due
  <2>5. CASE HandBad \/ HandEot
    <3>1. /\ rpc' = "hand" /\ rtries' <= HandshakeRetries /\ rtries' \in Nat
          /\ UNCHANGED <<rpc, got, expect, prompt, rres, size>>
      <4>1. rtries \in Nat /\ (rpc = "hand" => rtries <= HandshakeRetries)
        BY <1>n DEF ReceiverInv, Sorts
      <4> QED BY ONLY <2>5, <1>n, <4>1, UNCHANGED <<size, senderVars>>
                 DEF HandBad, HandEot, receiverVars
    <3> QED BY <1>v, <2>2, <3>1 DEF ReceiverInv, Due
  <2>6. CASE Named
    <3>1. /\ Len(got') = 0 /\ expect' = 1 /\ rtries' = 0
          /\ rpc' = "data" /\ rres' = "RUN" /\ size' \in Nat
      BY <2>6 DEF Named, ReceiverInv, Sorts
    <3>2. expect' = Due(Len(got'))
      BY <2>3, <3>1
    <3> QED BY <1>v, <2>2, <3>1, <3>2 DEF ReceiverInv, Due
  <2> QED BY <1>2, <1>v, <2>2, <2>4, <2>5, <2>6
<1>3. CASE DataBad \/ (\E u \in Units : DataOld(u)) \/ Prompted
  <2>1. up' \in Seq(Answers)
    BY <1>3, <1>a, <1>b DEF DataBad, DataOld, DataSays, Prompted
  <2>2. Sorts'
    <3>1. /\ rpc' = "data" /\ UNCHANGED <<got, expect, rres>>
          /\ rtries' \in {0, rtries + 1} /\ prompt' \in {prompt, "NAK"}
      BY ONLY <1>3 DEF DataBad, DataOld, DataSays, Prompted
    <3>2. /\ rtries \in Nat /\ prompt \in {"C", "NAK"}
          /\ rres \in {"RUN", "OK"} \cup Results /\ got \in Seq(Nat) /\ expect \in Nat
      BY DEF Sorts
    <3>3. rtries' \in Nat /\ prompt' \in {"C", "NAK"}
      BY ONLY <3>1, <3>2
    <3> QED BY <2>1, <3>1, <3>2, <3>3, ReceiverSorts
  <2>3. ReceiverInv'
    BY <1>3 DEF DataBad, DataOld, DataSays, Prompted, ReceiverInv, senderVars, Sorts
  <2> QED BY <1>v, <2>2, <2>3
<1>4. CASE \E u \in Units : DataNew(u)
  <2> PICK u \in Units : DataNew(u)
    BY <1>4
  <2>1. up' \in Seq(Answers) /\ rpc = "data" /\ rpc' = "data" /\ prompt' = "NAK" /\ rtries' = 0
        /\ rres' = rres /\ got' = Delivered(u) /\ expect' = (expect + 1) % SeqSpace
        /\ up' = up \o <<"ACK">>
    BY <1>a, <1>b DEF DataNew, DataSays, NextSeq
  <2>2. Len(got) <= size /\ size \in Nat /\ Len(got) \in Nat /\ expect \in Nat
    BY DEF ReceiverInv, Sorts
  <2>3. expect' \in Nat
    BY <1>n, <2>1, <2>2, ModFacts
  <2>4. Sorts'
    BY <2>1, <2>2, <2>3, DeliveredDoes DEF Sorts, senderVars
  <2>5. CASE Len(got) = size
    <3>1. got' = got
      BY <2>1, <2>2, <2>5, DeliveredDoes
    <3> QED BY <1>v, <2>1, <2>4, <2>5, <3>1, <1>o DEF ReceiverInv, senderVars
  <2>6. CASE Len(got) # size
    <3>1. Len(got') = Len(got) + 1
      BY <2>1, <2>2, <2>6, DeliveredDoes
    <3>2. expect = Due(Len(got))
      BY <2>1, <2>6 DEF ReceiverInv
    <3>3. expect' = Due(Len(got'))
      <4> DEFINE n == Len(got) + 1
      <4>1. n \in Nat /\ Len(got') = n
        BY <2>2, <3>1
      <4>2. expect = n % SeqSpace
        BY <3>2 DEF Due
      <4> HIDE DEF n
      <4>3. ((n % SeqSpace) + 1) % SeqSpace = (n + 1) % SeqSpace
        BY <4>1, <1>n, ModSucc
      <4> QED BY <2>1, <4>1, <4>2, <4>3 DEF Due
    <3>4. Len(got') <= size' /\ size' = size /\ rres' = "RUN"
      BY <2>1, <2>2, <2>6, <3>1 DEF ReceiverInv
    <3> QED BY <1>v, <2>1, <2>4, <3>3, <3>4 DEF ReceiverInv
  <2> QED BY <2>5, <2>6
<1>5. CASE Closing
  <2>1. Sorts'
    BY <1>5 DEF Closing, Sorts, senderVars
  <2>2. ReceiverInv'
    BY <1>5 DEF Closing, ReceiverInv, senderVars
  <2> QED BY <1>v, <2>1, <2>2
<1> QED BY <1>1, <1>2, <1>3, <1>4, <1>5 DEF ReceiverMoves

-----------------------------------------------------------------------------
(* The line keeps its units in their order.                                *)

LEMMA ThinKeeps ==
  ASSUME Base, NEW d \in Nat, down' \in Seq(Units), Thinned(down', down, d),
         UNCHANGED <<spc, sblk, short>>
  PROVE  UnitInv' /\ OrderInv'
<1>0. Len(down) \in Nat /\ Len(down') \in Nat
  BY DEF Base, Sorts
<1>1. PICK f \in [1 .. Len(down') -> 1 .. Len(down)] :
        /\ \A i \in 1 .. Len(down') :
             (down'[i] = down[f[i]] \/ down'[i] = Junk) /\ i + d <= f[i]
        /\ \A i, j \in 1 .. Len(down') : i < j => f[i] < f[j]
  BY DEF Thinned
<1>2. Junk.kind = "junk" /\ "junk" \notin Files
  BY DEF Junk, Unit, Files
<1>3. \A i \in 1 .. Len(down') : f[i] \in 1 .. Len(down)
  BY <1>1
<1>4. UnitInv'
  BY <1>1, <1>2, <1>3 DEF UnitInv, Base, Files
<1>5. OrderInv'
  <2> SUFFICES ASSUME NEW i \in 1 .. Len(down'), NEW j \in 1 .. Len(down'), i < j
               PROVE  /\ down'[j].kind = "name" => down'[i].kind \in {"name", "junk"}
                      /\ down'[i].kind \in Files /\ down'[j].kind \in Files
                           => down'[i].blk <= down'[j].blk
    BY DEF OrderInv, Files
  <2>1. f[i] \in 1 .. Len(down) /\ f[j] \in 1 .. Len(down) /\ f[i] < f[j]
    BY <1>1, <1>3
  <2>2. (down'[i] = down[f[i]] \/ down'[i] = Junk) /\ (down'[j] = down[f[j]] \/ down'[j] = Junk)
    BY <1>1
  <2>3. /\ down[f[j]].kind = "name" => down[f[i]].kind \in {"name", "junk"}
        /\ down[f[i]].kind \in Files /\ down[f[j]].kind \in Files
             => down[f[i]].blk <= down[f[j]].blk
    BY <2>1 DEF OrderInv, Base
  <2> QED BY <1>2, <2>2, <2>3
<1> QED BY <1>4, <1>5

(* The unit a sender adds, whatever the line held. *)
GoodNewUnit(e) ==
  /\ NewUnit(e)
  /\ e.kind = "name" => e.blk = 0 /\ spc \in {"start", "name"} /\ spc' = "name"
  /\ e.kind = "null" => e.blk = 0 /\ spc' = "null"
  /\ e.kind \in {"data", "short"} => e.blk = sblk' /\ e.blk > 0 /\ spc' = "data"
  /\ e.kind = "short" <=> e.kind \in {"data", "short"} /\ short'
  /\ spc' = "name" => e.kind = "name"

LEMMA UnitFields ==
  ASSUME NEW k, NEW b
  PROVE  Unit(k, b).kind = k /\ Unit(k, b).blk = b
  BY DEF Unit

(* The sender takes its block before it sends it. *)
Steady ==
  \/ sblk' = sblk /\ short' = short
  \/ sblk' = sblk + 1 /\ short = FALSE

LEMMA SenderSends ==
  ASSUME Base, SenderMoves, SenderRuns
  PROVE  /\ Steady /\ sblk <= sblk'
         /\ down' = down \/ \E e \in Units : GoodNewUnit(e)
         /\ spc' = spc \/ spc' \in {"done", "eot", "close", "null"} \/ spc' = "data" \/ spc' = "ask"
              \/ (spc = "start" /\ spc' = "name")
         /\ spc = "null" => spc' \in {"null", "done"}
         /\ spc' = "name" /\ spc # "name" => down = <<>>
<1> USE DEF Base
<1>0. sblk \in Nat /\ sblk + 1 \in Nat /\ short \in BOOLEAN
  BY DEF Sorts
<1>1. CASE Stopped
  <2>1. down' = down \/ GoodNewUnit(Unit("CAN", 0))
    BY <1>1, UnitSorts, UnitFields, Appended DEF Stopped, GoodNewUnit
  <2> QED BY <1>0, <1>1, <2>1, UnitSorts DEF Stopped, Steady
<1>2. CASE Again
  <2>1. InFlight \in Units /\ NewUnit(InFlight)
    BY <1>2, InFlightSort, Appended DEF Again
  <2>2. /\ InFlight.kind = (IF spc = "data" /\ short THEN "short" ELSE spc)
        /\ InFlight.blk = (IF spc = "data" THEN sblk ELSE 0)
    BY UnitFields DEF InFlight
  <2>3. spc \in {"name", "data", "eot", "null"} /\ spc' = spc /\ sblk' = sblk /\ short' = short
    BY <1>2 DEF Again, Sending
  <2>4. spc = "data" => sblk > 0
    BY DEF SenderInv
  <2>5. GoodNewUnit(InFlight)
    BY <2>1, <2>2, <2>3, <2>4, <1>0 DEF GoodNewUnit
  <2> QED BY <1>0, <2>1, <2>3, <2>5 DEF Steady
<1>3. CASE Idled
  BY <1>0, <1>3 DEF Idled, Steady, Asking
<1>4. CASE Waited
  BY <1>0, <1>4 DEF Waited, Steady
<1>5. CASE Opened
  <2>1. GoodNewUnit(Unit("name", 0))
    BY <1>5, UnitSorts, UnitFields, Appended DEF Opened, Sent, GoodNewUnit
  <2>2. down = <<>>
    BY <1>5 DEF Opened, SenderInv
  <2> QED BY <1>0, <1>5, <2>1, <2>2, UnitSorts DEF Opened, Steady
<1>6. CASE Took
  <2>1. /\ spc' = "data" /\ sblk' = sblk + 1 /\ short = FALSE /\ sblk' > 0
        /\ spc \in {"ask", "data"}
    BY <1>0, <1>6 DEF Took
  <2>2. CASE short' = FALSE /\ Sent(Unit("data", sblk + 1))
    <3>1. GoodNewUnit(Unit("data", sblk + 1))
      BY <2>1, <2>2, UnitSorts, UnitFields, Appended DEF Sent, GoodNewUnit
    <3> QED BY <1>0, <2>1, <3>1, UnitSorts DEF Steady
  <2>3. CASE short' = TRUE /\ Sent(Unit("short", sblk + 1))
    <3>1. GoodNewUnit(Unit("short", sblk + 1))
      BY <2>1, <2>3, UnitSorts, UnitFields, Appended DEF Sent, GoodNewUnit
    <3> QED BY <1>0, <2>1, <3>1, UnitSorts DEF Steady
  <2> QED BY <1>6, <2>2, <2>3 DEF Took
<1>7. CASE Finished
  <2>1. GoodNewUnit(Unit("eot", 0))
    BY <1>7, UnitSorts, UnitFields, Appended DEF Finished, Sent, GoodNewUnit
  <2> QED BY <1>0, <1>7, <2>1, UnitSorts DEF Finished, Steady
<1>8. CASE Parted
  <2>1. GoodNewUnit(Unit("null", 0))
    BY <1>8, UnitSorts, UnitFields, Appended DEF Parted, Sent, GoodNewUnit
  <2> QED BY <1>0, <1>8, <2>1, UnitSorts DEF Parted, Steady
<1> QED BY <1>1, <1>2, <1>3, <1>4, <1>5, <1>6, <1>7, <1>8 DEF SenderMoves, Advanced

LEMMA SenderKeepsLine ==
  ASSUME Base, SenderMoves, SenderRuns, Sorts'
  PROVE  UnitInv' /\ OrderInv'
<1> USE DEF Base
<1>0. /\ Steady /\ sblk <= sblk'
      /\ down' = down \/ \E e \in Units : GoodNewUnit(e)
      /\ spc = "null" => spc' \in {"null", "done"}
      /\ spc' = "name" /\ spc # "name" => down = <<>>
  BY SenderSends
<1>1. /\ sblk \in Nat /\ sblk' \in Nat /\ Len(down) \in Nat /\ short \in BOOLEAN /\ short' \in BOOLEAN
      /\ \A i \in 1 .. Len(down) : down[i] \in Units /\ down[i].blk \in Nat
      /\ spc = "done" => spc' = "done"
  <2>1. down \in Seq(Units) /\ spc # "done"
    BY DEF Sorts, SenderRuns
  <2>2. \A i \in 1 .. Len(down) : down[i] \in Units
    BY <2>1, ElementOfSeq
  <2>3. \A u \in Units : u.blk \in Nat
    BY DEF Units
  <2> QED BY <2>1, <2>2, <2>3 DEF Sorts
<1>2. \A i \in 1 .. Len(down) :
        /\ down[i].kind \in Files => down[i].blk <= sblk'
        /\ down[i].kind \in {"name", "null"} => down[i].blk = 0
        /\ down[i].kind \in {"data", "short"} => down[i].blk > 0
        /\ down[i].kind = "null" => spc' \in {"null", "done"}
        /\ down[i].kind = "short" => short' /\ down[i].blk = sblk'
        /\ down[i].kind = "data" /\ short' => down[i].blk < sblk'
        /\ spc' = "name" => down[i].kind \in {"name", "junk"}
  <2> TAKE i \in 1 .. Len(down)
  <2>1. /\ down[i].kind \in Files => down[i].blk <= sblk
        /\ down[i].kind \in {"name", "null"} => down[i].blk = 0
        /\ down[i].kind \in {"data", "short"} => down[i].blk > 0
        /\ down[i].kind = "null" => spc \in {"null", "done"}
        /\ down[i].kind = "short" => short /\ down[i].blk = sblk
        /\ down[i].kind = "data" /\ short => down[i].blk < sblk
        /\ spc = "name" => down[i].kind \in {"name", "junk"}
    BY DEF UnitInv
  <2>2. down[i].blk \in Nat
    BY <1>1
  <2>3. spc' = "name" => spc = "name"
    <3>1. down = <<>> => Len(down) = 0
      OBVIOUS
    <3> QED BY <1>0, <1>1, <3>1
  <2>4. /\ down[i].kind = "short" => short' /\ down[i].blk = sblk'
        /\ down[i].kind = "data" /\ short' => down[i].blk < sblk'
    BY <1>0, <1>1, <2>1, <2>2 DEF Steady, Files
  <2>5. down[i].kind \in Files => down[i].blk <= sblk'
    BY <1>0, <1>1, <2>1, <2>2
  <2> QED BY <1>0, <1>1, <2>1, <2>3, <2>4, <2>5
<1>3. CASE down' = down
  <2>1. UnitInv'
    BY <1>2, <1>3 DEF UnitInv, Files
  <2>2. OrderInv'
    BY <1>3 DEF OrderInv, Files
  <2> QED BY <2>1, <2>2
<1>4. ASSUME NEW e \in Units, GoodNewUnit(e) PROVE UnitInv' /\ OrderInv'
  <2>1. /\ Len(down') = Len(down) + 1 /\ down'[Len(down) + 1] = e
        /\ \A i \in 1 .. Len(down) : down'[i] = down[i]
    BY <1>4 DEF GoodNewUnit, NewUnit
  <2>2. \A i \in 1 .. Len(down') : i \in 1 .. Len(down) \/ i = Len(down) + 1
    BY <1>1, <2>1
  <2>3. /\ e.kind = "name" => e.blk = 0 /\ spc \in {"start", "name"} /\ spc' = "name"
        /\ e.kind = "null" => e.blk = 0 /\ spc' = "null"
        /\ e.kind \in {"data", "short"} => e.blk = sblk' /\ e.blk > 0 /\ spc' = "data"
        /\ e.kind = "short" <=> e.kind \in {"data", "short"} /\ short'
        /\ spc' = "name" => e.kind = "name"
    BY <1>4 DEF GoodNewUnit
  <2>4. UnitInv'
    <3> SUFFICES ASSUME NEW i \in 1 .. Len(down')
                 PROVE /\ down'[i].kind \in Files => down'[i].blk <= sblk'
                       /\ down'[i].kind \in {"name", "null"} => down'[i].blk = 0
                       /\ down'[i].kind \in {"data", "short"} => down'[i].blk > 0
                       /\ down'[i].kind = "null" => spc' \in {"null", "done"}
                       /\ down'[i].kind = "short" => short' /\ down'[i].blk = sblk'
                       /\ down'[i].kind = "data" /\ short' => down'[i].blk < sblk'
                       /\ spc' = "name" => down'[i].kind \in {"name", "junk"}
      BY DEF UnitInv, Files
    <3>1. CASE i \in 1 .. Len(down)
      BY <3>1, <2>1, <1>2
    <3>2. CASE i = Len(down) + 1
      <4>1. down'[i] = e
        BY <3>2, <2>1
      <4> QED BY <4>1, <2>3, <1>1 DEF Files
    <3> QED BY <2>2, <3>1, <3>2
  <2>5. OrderInv'
    <3> SUFFICES ASSUME NEW i \in 1 .. Len(down'), NEW j \in 1 .. Len(down'), i < j
                 PROVE  /\ down'[j].kind = "name" => down'[i].kind \in {"name", "junk"}
                        /\ down'[i].kind \in Files /\ down'[j].kind \in Files
                             => down'[i].blk <= down'[j].blk
      BY DEF OrderInv, Files
    <3>0. i \in 1 .. Len(down) /\ (j \in 1 .. Len(down) \/ j = Len(down) + 1)
      BY <1>1, <2>1
    <3>1. CASE j \in 1 .. Len(down)
      BY <3>0, <3>1, <2>1 DEF OrderInv
    <3>2. CASE j = Len(down) + 1
      <4>1. down'[j] = e /\ down'[i] = down[i]
        BY <3>0, <3>2, <2>1
      <4>2. e.kind = "name" => down[i].kind \in {"name", "junk"}
        BY <1>2, <2>3, <3>0
      <4>3. e.kind = "name" /\ down[i].kind \in Files => down[i].blk = 0
        BY <4>2, <1>2, <3>0 DEF Files
      <4>4. e.kind \in {"data", "short"} /\ down[i].kind \in Files => down[i].blk <= e.blk
        BY <1>2, <2>3, <3>0
      <4> QED BY <4>1, <4>2, <4>3, <4>4, <2>3 DEF Files
    <3> QED BY <3>0, <3>1, <3>2
  <2> QED BY <2>4, <2>5
<1> QED BY <1>0, <1>3, <1>4

-----------------------------------------------------------------------------
(* The four parts hold in every state.                                     *)

LEMMA BaseInit ==
  ASSUME SizesAssumption, LimitsAssumption, Init
  PROVE  Base
<1>0. Len(<<>>) = 0 /\ size \in Nat /\ MaxLate \in Nat
  BY RetriesNat DEF Init, SizesAssumption
<1>1. Sorts
  <2>1. <<>> \in Seq(Nat) /\ <<>> \in Seq(Units) /\ <<>> \in Seq(Answers)
    OBVIOUS
  <2>2. 0 \in 0 .. MaxLate
    BY <1>0
  <2> QED BY <1>0, <2>1, <2>2 DEF Init, Sorts
<1>2. SenderInv
  BY <1>0 DEF Init, SenderInv, Sending
<1>3. ReceiverInv
  BY <1>0 DEF Init, ReceiverInv
<1>4. UnitInv /\ OrderInv
  BY <1>0 DEF Init, UnitInv, OrderInv
<1> QED BY <1>1, <1>2, <1>3, <1>4 DEF Base

LEMMA TailUp ==
  ASSUME Sorts, up # <<>>, up' = Tail(up)
  PROVE  /\ up' \in Seq(Answers) /\ Len(up') = Len(up) - 1 /\ Len(up) >= 1 /\ Len(up) \in Nat
         /\ \A i \in 1 .. Len(up') : up'[i] = up[i + 1] /\ i + 1 \in 1 .. Len(up)
         /\ up[1] \in Answers
<1>1. up \in Seq(Answers) /\ Len(up) \in Nat
  BY DEF Sorts
<1>2. /\ Tail(up) \in Seq(Answers) /\ Len(Tail(up)) = Len(up) - 1 /\ Len(up) >= 1
      /\ Head(up) = up[1] /\ Head(up) \in Answers
      /\ \A i \in 1 .. Len(up) - 1 : Tail(up)[i] = up[i + 1]
  BY <1>1, TailKept
<1> QED BY <1>1, <1>2

(* A step of the sender, whoever woke it. *)
SenderSteps == SenderReads \/ SenderTimeout \/ SenderBreaks
LEMMA SenderStepDoes ==
  ASSUME LimitsAssumption, Base, SenderSteps
  PROVE  /\ SenderRuns /\ SenderMoves
         /\ UNCHANGED <<size, receiverVars, fooled>>
         /\ up' \in Seq(Answers) /\ (rpc = "off" => up' = <<>>) /\ late' \in 0 .. MaxLate
         /\ up' = up \/ (up # <<>> /\ up' = Tail(up))
<1>1. /\ up \in Seq(Answers) /\ late \in 0 .. MaxLate /\ (rpc = "off" => up = <<>>)
      /\ MaxLate \in Nat
  BY RetriesNat DEF Base, Sorts, ReceiverInv
<1>2. CASE SenderReads
  <2>1. /\ up # <<>> /\ up' = Tail(up) /\ SenderRuns
        /\ UNCHANGED <<size, receiverVars, late, fooled>>
        /\ SenderMoves
    BY <1>2, SenderReadsDoes DEF Base, SenderMoves
  <2>2. up' \in Seq(Answers)
    BY <2>1, TailUp DEF Base
  <2> QED BY <1>1, <2>1, <2>2
<1>3. CASE SenderTimeout
  <2>1. /\ up' = up /\ SenderRuns
        /\ UNCHANGED <<size, receiverVars, fooled>>
        /\ SenderMoves
        /\ late' = late \/ (late < MaxLate /\ late' = late + 1)
    BY <1>3, SenderTimeoutDoes DEF Base, SenderMoves
  <2> QED BY <1>1, <2>1
<1>4. CASE SenderBreaks
  <2>1. SenderRuns /\ SenderMoves /\ UNCHANGED <<up, size, receiverVars, late, fooled>>
    BY <1>4, SenderBreaksDoes DEF Base, SenderMoves
  <2> QED BY <1>1, <2>1
<1> QED BY <1>2, <1>3, <1>4 DEF SenderSteps

(* A step of the receiver, likewise; `down` is thinned by what it read. *)
ReceiverSteps == ReceiverReads \/ ReceiverTimeout \/ ReceiverBreaks
LEMMA ReceiverStepDoes ==
  ASSUME LimitsAssumption, Base, ReceiverSteps
  PROVE  /\ ReceiverRuns /\ ReceiverMoves
         /\ UNCHANGED <<size, senderVars>>
         /\ fooled' \in BOOLEAN /\ (fooled => fooled') /\ late' \in 0 .. MaxLate
         /\ down' \in Seq(Units) /\ (down = <<>> => down' = <<>>)
         /\ Named => down # <<>> /\ down[1].kind = "name"
         /\ \/ down' = down /\ ~Named /\ ~ReceiverReads
            \/ down # <<>> /\ Thinned(down', down, 1) /\ Len(down') + 1 <= Len(down)
<1>1. /\ late \in 0 .. MaxLate /\ MaxLate \in Nat /\ down \in Seq(Units) /\ fooled \in BOOLEAN
  BY RetriesNat DEF Base, Sorts
<1>2. CASE ReceiverReads
  <2>1. /\ down # <<>> /\ down' \in Seq(Units) /\ Thinned(down', down, 1)
        /\ Len(down') + 1 <= Len(down)
        /\ ReceiverRuns
        /\ UNCHANGED <<size, senderVars, late>>
        /\ fooled' \in BOOLEAN /\ (fooled => fooled')
    BY <1>2, ReceiverReadsDoes DEF Base
  <2>2. ReceiverMoves
    BY <1>2, ReceiverReadsMoves DEF Base
  <2>3. \/ Ended \/ HandBad \/ DataBad \/ Closing
        \/ Silent \/ HandEot
        \/ Named /\ down[1].kind = "name"
        \/ DataOld(down[1]) \/ DataNew(down[1])
    BY <1>2, ReceiverReadsDoes DEF Base
  <2>4. Named => down[1].kind = "name"
    BY <2>3 DEF Named, Ended, HandBad, DataBad, Closing, Silent, HandEot, DataOld, DataNew,
                DataSays, receiverVars
  <2> QED BY <1>1, <2>1, <2>2, <2>4
<1>3. CASE ReceiverTimeout
  <2>1. /\ ReceiverRuns /\ UNCHANGED <<size, senderVars, down, fooled>>
        /\ Ended \/ HandBad \/ Prompted \/ Closing
        /\ late' = late \/ (late < MaxLate /\ late' = late + 1)
    BY <1>3, ReceiverTimeoutDoes DEF Base
  <2>2. ~Named
    BY <2>1 DEF Named, Ended, HandBad, Prompted, Closing
  <2>3. ReceiverMoves
    BY <2>1 DEF ReceiverMoves
  <2>4. ~ReceiverReads \/ (down # <<>> /\ Thinned(down', down, 1) /\ Len(down') + 1 <= Len(down))
    BY ReceiverReadsDoes DEF Base
  <2> QED BY <1>1, <2>1, <2>2, <2>3, <2>4
<1>4. CASE ReceiverBreaks
  <2>1. ReceiverRuns /\ Ended /\ UNCHANGED <<size, senderVars, down, late, fooled>>
    BY <1>4, ReceiverBreaksDoes DEF Base
  <2>2. ~Named
    BY <2>1 DEF Named, Ended
  <2>4. ~ReceiverReads \/ (down # <<>> /\ Thinned(down', down, 1) /\ Len(down') + 1 <= Len(down))
    BY ReceiverReadsDoes DEF Base
  <2> QED BY <1>1, <2>1, <2>2, <2>4 DEF ReceiverMoves
<1> QED BY <1>2, <1>3, <1>4 DEF ReceiverSteps

LEMMA SenderStartDoes ==
  ASSUME SenderStarts
  PROVE  /\ spc = "off" /\ spc' = "start"
         /\ UNCHANGED <<size, sblk, short, stries, sres, receiverVars, down, up, late, fooled>>
  BY DEF SenderStarts

LineSteps == LosesDown \/ LosesUp \/ Damages

LEMMA BaseNext ==
  ASSUME LimitsAssumption, Base, [Next]_vars
  PROVE  Base'
<1>1. CASE SenderSteps
  <2>1. Sorts' /\ SenderInv' /\ ReceiverInv'
    BY <1>1, SenderStepDoes, SenderKeeps
  <2>2. UnitInv' /\ OrderInv'
    BY <1>1, <2>1, SenderStepDoes, SenderKeepsLine
  <2> QED BY <2>1, <2>2 DEF Base
<1>2. CASE ReceiverSteps
  <2>1. Sorts' /\ SenderInv' /\ ReceiverInv'
    BY <1>2, ReceiverStepDoes, ReceiverKeeps
  <2>2. UNCHANGED <<spc, sblk, short>>
    BY <1>2, ReceiverStepDoes DEF senderVars
  <2>3. CASE down' = down
    BY <2>1, <2>2, <2>3 DEF Base, UnitInv, OrderInv, Files
  <2>4. CASE Thinned(down', down, 1) /\ down' \in Seq(Units)
    <3>1. UnitInv' /\ OrderInv'
      BY <2>2, <2>4, ThinKeeps
    <3> QED BY <2>1, <3>1 DEF Base
  <2> QED BY <1>2, <2>3, <2>4, ReceiverStepDoes
<1>3. CASE SenderStarts
  <2>1. Sorts'
    BY <1>3, SenderStartDoes DEF Base, Sorts, receiverVars, Asking
  <2>2. SenderInv' /\ ReceiverInv'
    BY <1>3, SenderStartDoes DEF Base, SenderInv, ReceiverInv, Due, receiverVars, Sending
  <2>3. UnitInv' /\ OrderInv'
    <3>1. down' = <<>> /\ Len(<<>>) = 0
      BY <1>3, SenderStartDoes DEF Base, SenderInv
    <3> QED BY <3>1 DEF UnitInv, OrderInv
  <2> QED BY <2>1, <2>2, <2>3 DEF Base
<1>4. CASE ReceiverStarts
  <2>0. /\ rpc = "off" /\ rpc' = "hand" /\ up' = up \o <<"C">>
        /\ UNCHANGED <<size, got, expect, prompt, rtries, rres, senderVars, down, late, fooled>>
    BY <1>4, ReceiverStartsDoes DEF Base
  <2>1. up' \in Seq(Answers)
    <3>1. "C" \in Answers
      BY DEF Answers
    <3> QED BY <2>0, <3>1, OneMore DEF Base, Sorts
  <2>2. Sorts'
    BY <2>0, <2>1 DEF Base, Sorts, senderVars
  <2>3. SenderInv'
    BY <2>0 DEF Base, SenderInv, senderVars
  <2>4. ReceiverInv'
    BY <2>0 DEF Base, ReceiverInv, Due
  <2>6. UnitInv' /\ OrderInv'
    BY <2>0 DEF Base, UnitInv, OrderInv, Files, senderVars
  <2> QED BY <2>2, <2>3, <2>4, <2>6 DEF Base
<1>5. CASE LineSteps
  <2>0. /\ UNCHANGED <<size, senderVars, receiverVars, late, fooled>>
        /\ \/ /\ up' = up /\ down' \in Seq(Units) /\ Thinned(down', down, 0)
              /\ Len(down') <= Len(down) /\ ReceiverRuns
           \/ /\ down' = down /\ up' \in Seq(Answers) /\ Kept(up', up, 0)
              /\ Len(up') <= Len(up) /\ SenderRuns
    BY <1>5, LineDoes DEF Base, LineSteps
  <2>1. Sorts'
    BY <2>0 DEF Base, Sorts, senderVars, receiverVars
  <2>2. down = <<>> => down' = <<>>
    <3>1. \A q \in Seq(Units) : Len(q) <= 0 => q = <<>>
      BY EmptySeq
    <3>2. Len(<<>>) = 0
      OBVIOUS
    <3> QED BY <2>0, <3>1, <3>2
  <2>3. up = <<>> => up' = <<>>
    <3>1. \A q \in Seq(Answers) : Len(q) <= 0 => q = <<>>
      BY EmptySeq
    <3>2. Len(<<>>) = 0
      OBVIOUS
    <3> QED BY <2>0, <3>1, <3>2
  <2>4. SenderInv' /\ ReceiverInv'
    BY <2>0, <2>2, <2>3 DEF Base, SenderInv, ReceiverInv, Due, senderVars, receiverVars
  <2>5. UnitInv' /\ OrderInv'
    <3>1. UNCHANGED <<spc, sblk, short>>
      BY <2>0 DEF senderVars
    <3>2. CASE Thinned(down', down, 0) /\ down' \in Seq(Units)
      BY <3>1, <3>2, ThinKeeps
    <3>3. CASE down' = down
      BY <3>1, <3>3 DEF Base, UnitInv, OrderInv, Files
    <3> QED BY <2>0, <3>2, <3>3
  <2> QED BY <2>1, <2>4, <2>5 DEF Base
<1>6. CASE UNCHANGED vars
  BY <1>6 DEF vars, senderVars, receiverVars, Base, Sorts, SenderInv, ReceiverInv, UnitInv,
              OrderInv, Due, Files
<1> QED BY <1>1, <1>2, <1>3, <1>4, <1>5, <1>6 DEF Next, SenderSteps, ReceiverSteps, LineSteps

-----------------------------------------------------------------------------
(* What the sink has and what is on the line.                              *)

LEMMA UnitNat ==
  ASSUME Sorts
  PROVE  \A i \in 1 .. Len(down) : down[i] \in Units /\ down[i].blk \in Nat /\ down[i].kind \in Kinds
<1>1. down \in Seq(Units)
  BY DEF Sorts
<1>2. \A i \in 1 .. Len(down) : down[i] \in Units
  BY <1>1, ElementOfSeq
<1>3. \A u \in Units : u.blk \in Nat /\ u.kind \in Kinds
  BY DEF Units
<1> QED BY <1>2, <1>3

LEMMA ThinFlow ==
  ASSUME Base, Base', Flow, UNCHANGED <<size, sblk>>, NEW d \in Nat, Thinned(down', down, d),
         Len(got') = Len(got), rpc' = "data" => rpc = "data" \/ Len(got) = 0
  PROVE  Flow'
<1>1. PICK f \in [1 .. Len(down') -> 1 .. Len(down)] :
        \A i \in 1 .. Len(down') : (down'[i] = down[f[i]] \/ down'[i] = Junk) /\ i + d <= f[i]
  BY DEF Thinned
<1>2. Junk.kind = "junk" /\ "junk" \notin Files
  BY DEF Junk, Unit, Files
<1>3. \A i \in 1 .. Len(down') : f[i] \in 1 .. Len(down)
  BY <1>1
<1>4. \A i \in 1 .. Len(down') : down'[i].blk \in Nat
  <2>1. down' \in Seq(Units)
    BY DEF Base, Sorts
  <2>2. \A i \in 1 .. Len(down') : down'[i] \in Units
    BY <2>1, ElementOfSeq
  <2>3. \A u \in Units : u.blk \in Nat
    BY DEF Units
  <2> QED BY <2>2, <2>3
<1>5. Len(got') <= sblk'
  BY DEF Flow
<1>6. ASSUME rpc' = "data", Len(got') # size', NEW i \in 1 .. Len(down'), down'[i].kind \in Files
      PROVE  Len(got') <= down'[i].blk
  <2>1. CASE Len(got) = 0
    BY <2>1, <1>4
  <2>2. CASE rpc = "data"
    <3>1. down'[i] = down[f[i]] /\ f[i] \in 1 .. Len(down)
      BY <1>1, <1>2, <1>3, <1>6
    <3> QED BY <2>2, <3>1, <1>6 DEF Flow
  <2> QED BY <1>6, <2>1, <2>2
<1> QED BY <1>5, <1>6 DEF Flow, Files

(* The block that is taken is not older than the one that is missing. *)
LEMMA NewIsNew ==
  ASSUME LimitsAssumption, Base, Flow, rpc = "data", Len(got) # size,
         NEW i \in 1 .. Len(down), down[i].kind \in Files, InOrder(down[i])
  PROVE  Len(got) + 1 <= down[i].blk
<1>1. /\ Len(got) \in Nat /\ down[i].blk \in Nat /\ SeqSpace \in Nat /\ SeqSpace > 1
  BY UnitNat, RetriesNat DEF Base, Sorts
<1>2. Len(got) <= down[i].blk
  BY DEF Flow
<1>3. down[i].blk % SeqSpace = (Len(got) + 1) % SeqSpace
  BY DEF InOrder, SeqNo, Base, ReceiverInv, Due
<1>4. ASSUME down[i].blk = Len(got) PROVE FALSE
  <2> DEFINE n == Len(got)
             m == Len(got) + 1
  <2>1. n \in Nat /\ m \in Nat /\ n <= m /\ m - n < SeqSpace /\ n # m
    BY <1>1
  <2>2. n % SeqSpace = m % SeqSpace
    BY <1>3, <1>4
  <2> HIDE DEF n, m
  <2> QED BY <1>1, <2>1, <2>2, ModApart
<1> QED BY <1>1, <1>2, <1>4

LEMMA NewFlow ==
  ASSUME LimitsAssumption, Base, Base', Flow, UNCHANGED <<size, sblk>>, down # <<>>,
         DataNew(down[1]), down[1].kind \in Files, Thinned(down', down, 1)
  PROVE  Flow'
<1>1. /\ Len(down) \in Nat /\ Len(down) >= 1 /\ down[1] \in Units
      /\ Len(got) \in Nat /\ Len(got) <= size /\ size \in Nat /\ sblk \in Nat
      /\ rpc = "data" /\ rpc' = "data" /\ got' = Delivered(down[1])
      /\ InOrder(down[1])
  BY HeadUnit DEF Base, Sorts, ReceiverInv, DataNew, DataSays
<1>2. CASE Len(got) = size
  <2>1. got' = got
    BY <1>1, <1>2, DeliveredDoes DEF Base
  <2> QED BY <1>1, <2>1, ThinFlow
<1>3. CASE Len(got) # size
  <2>1. Len(got') = Len(got) + 1
    BY <1>1, <1>3, DeliveredDoes DEF Base
  <2>2. Len(got) + 1 <= down[1].blk /\ down[1].blk <= sblk /\ down[1].blk \in Nat
    <3>1. 1 \in 1 .. Len(down)
      BY <1>1
    <3>2. Len(got) + 1 <= down[1].blk
      BY <1>1, <1>3, <3>1, NewIsNew
    <3>3. down[1].blk <= sblk
      BY <3>1 DEF Base, UnitInv, Files
    <3> QED BY <3>1, <3>2, <3>3, UnitNat DEF Base
  <2>3. PICK f \in [1 .. Len(down') -> 1 .. Len(down)] :
          \A i \in 1 .. Len(down') : (down'[i] = down[f[i]] \/ down'[i] = Junk) /\ i + 1 <= f[i]
    BY DEF Thinned
  <2>4. Junk.kind = "junk" /\ "junk" \notin Files
    BY DEF Junk, Unit, Files
  <2>5. ASSUME NEW i \in 1 .. Len(down'), down'[i].kind \in Files
        PROVE  Len(got') <= down'[i].blk
    <3>1. down'[i] = down[f[i]] /\ f[i] \in 1 .. Len(down) /\ 1 < f[i]
      BY <2>3, <2>4, <2>5
    <3>2. down[1].blk <= down[f[i]].blk /\ down[f[i]].blk \in Nat
      BY <3>1, <2>5, <1>1, UnitNat DEF Base, OrderInv
    <3> QED BY ONLY <1>1, <2>1, <2>2, <3>1, <3>2
  <2>6. Len(got') <= sblk'
    BY <1>1, <2>1, <2>2
  <2> QED BY <2>5, <2>6 DEF Flow, Files
<1> QED BY <1>2, <1>3

NullWaits == rpc = "data" /\ Len(got) # size /\ down # <<>> /\ down[1].kind = "null" => expect # 0

LEMMA FlowNext ==
  ASSUME LimitsAssumption, Base, Base', Flow, NullWaits, [Next]_vars
  PROVE  Flow'
<1>0. Len(got) \in Nat /\ sblk \in Nat /\ sblk' \in Nat /\ Len(down) \in Nat /\ size \in Nat
  BY ONLY Base, Base' DEF Base, Sorts
<1>1. CASE SenderSteps
  <2>0. /\ SenderRuns /\ SenderMoves /\ UNCHANGED <<size, receiverVars>>
    BY <1>1, SenderStepDoes
  <2>1. /\ sblk <= sblk' /\ UNCHANGED <<size, rpc, got>>
        /\ down' = down \/ \E e \in Units : GoodNewUnit(e)
    BY <2>0, SenderSends DEF receiverVars
  <2>2. Len(got') <= sblk'
    BY <1>0, <2>1 DEF Flow
  <2>3. CASE down' = down
    BY <2>1, <2>2, <2>3 DEF Flow, Files
  <2>4. ASSUME NEW e \in Units, GoodNewUnit(e) PROVE Flow'
    <3>1. /\ Len(down') = Len(down) + 1 /\ down'[Len(down) + 1] = e
          /\ \A i \in 1 .. Len(down) : down'[i] = down[i]
      BY <2>4 DEF GoodNewUnit, NewUnit
    <3>2. e.kind \in Files => Len(got) <= e.blk
      <4>1. CASE e.kind = "name"
        <5>1. spc' = "name"
          BY <2>4, <4>1 DEF GoodNewUnit
        <5>2. sblk' = 0 /\ e.blk = 0
          BY <2>4, <4>1, <5>1 DEF GoodNewUnit, Base, SenderInv
        <5> QED BY <1>0, <2>1, <2>2, <5>2
      <4>2. CASE e.kind \in {"data", "short"}
        <5>1. e.blk = sblk'
          BY <2>4, <4>2 DEF GoodNewUnit
        <5> QED BY <5>1, <2>1, <2>2
      <4> QED BY <4>1, <4>2 DEF Files
    <3>3. \A i \in 1 .. Len(down') : i \in 1 .. Len(down) \/ i = Len(down) + 1
      BY <1>0, <3>1
    <3> QED BY <2>1, <2>2, <3>1, <3>2, <3>3 DEF Flow, Files
  <2> QED BY <2>1, <2>3, <2>4
<1>2. CASE ReceiverReads
  <2>1. /\ down # <<>> /\ down' \in Seq(Units) /\ Thinned(down', down, 1)
        /\ UNCHANGED <<size, sblk>>
        /\ \/ Ended \/ HandBad \/ DataBad \/ Closing \/ Silent \/ HandEot
           \/ Named /\ down[1].kind = "name"
           \/ DataOld(down[1])
           \/ DataNew(down[1]) /\ down[1].kind \in Blocks
    BY <1>2, ReceiverReadsDoes DEF Base, senderVars
  <2>2. rpc \in {"off", "hand"} => Len(got) = 0
    BY DEF Base, ReceiverInv
  <2>3. CASE Ended \/ HandBad \/ DataBad \/ Closing \/ Silent \/ HandEot \/ Named \/ DataOld(down[1])
    <3>1. got' = got
      BY <2>3 DEF Ended, HandBad, DataBad, Closing, Silent, HandEot, Named, DataOld, receiverVars
    <3>2. rpc' = "data" => rpc = "data" \/ Len(got) = 0
      BY <2>2, <2>3 DEF Ended, HandBad, DataBad, Closing, Silent, HandEot, Named, DataOld,
                        DataSays, receiverVars
    <3> QED BY <2>1, <3>1, <3>2, ThinFlow
  <2>4. CASE DataNew(down[1]) /\ down[1].kind \in Files
    BY <2>1, <2>4, NewFlow
  <2>5. CASE DataNew(down[1]) /\ down[1].kind = "null"
    <3>1. rpc = "data" /\ rpc' = "data" /\ InOrder(down[1]) /\ got' = Delivered(down[1])
      BY <2>5 DEF DataNew, DataSays
    <3>2. CASE Len(got) = size
      <4>1. got' = got
        BY <3>1, <3>2, <2>1, HeadUnit, DeliveredDoes DEF Base, ReceiverInv
      <4> QED BY <2>1, <3>1, <4>1, ThinFlow
    <3>3. CASE Len(got) # size
      <4>1. expect # 0
        BY <2>1, <2>5, <3>1, <3>3 DEF NullWaits
      <4>2. down[1].blk = 0
        BY <2>1, <2>5, HeadUnit DEF Base, UnitInv
      <4>3. 0 % SeqSpace = 0
        BY RetriesNat, ModSmall
      <4> QED BY <3>1, <4>1, <4>2, <4>3 DEF InOrder, SeqNo
    <3> QED BY <3>2, <3>3
  <2> QED BY <2>1, <2>3, <2>4, <2>5 DEF Blocks, Files
<1>3. CASE ReceiverTimeout \/ ReceiverBreaks \/ SenderStarts \/ ReceiverStarts
  <2>1. UNCHANGED <<size, sblk, got, down>> /\ (rpc' = "data" => rpc = "data")
    <3>1. CASE ReceiverTimeout
      BY <3>1, ReceiverTimeoutDoes DEF Base, senderVars, Ended, HandBad, Prompted, Closing
    <3>2. CASE ReceiverBreaks
      BY <3>2, ReceiverBreaksDoes DEF Base, senderVars, Ended
    <3>3. CASE SenderStarts
      BY <3>3, SenderStartDoes DEF receiverVars
    <3>4. CASE ReceiverStarts
      BY <3>4, ReceiverStartsDoes DEF Base, senderVars
    <3> QED BY <1>3, <3>1, <3>2, <3>3, <3>4
  <2> QED BY <2>1 DEF Flow, Files
<1>4. CASE LineSteps
  <2>0. /\ UNCHANGED <<size, senderVars, receiverVars>>
        /\ Thinned(down', down, 0) \/ down' = down
    BY <1>4, LineDoes DEF Base, LineSteps
  <2>1. CASE Thinned(down', down, 0)
    BY <2>0, <2>1, ThinFlow DEF senderVars, receiverVars
  <2>2. CASE down' = down
    BY <2>0, <2>2 DEF Flow, Files, senderVars, receiverVars
  <2> QED BY <2>0, <2>1, <2>2
<1>5. CASE UNCHANGED vars
  BY <1>5 DEF vars, senderVars, receiverVars, Flow, Files
<1> QED BY <1>1, <1>2, <1>3, <1>4, <1>5 DEF Next, SenderSteps, LineSteps

-----------------------------------------------------------------------------
(* While the receiver has not been fooled and the sink has not the whole   *)
(* file, every 'C' it sends comes before its second ACK.  So a sender never *)
(* gets past its EOT, which takes two ACKs and then a 'C'.                  *)

NoAck(q)     == \A i \in 1 .. Len(q) : q[i] # "ACK"
OneAck(q)    == \A i, j \in 1 .. Len(q) : i < j => ~(q[i] = "ACK" /\ q[j] = "ACK")
NoC(q)       == \A k \in 1 .. Len(q) : q[k] # "C"
AckThenC(q)  == \A i, k \in 1 .. Len(q) : i < k /\ q[i] = "ACK" => q[k] # "C"
AcksThenC(q) == \A i, j, k \in 1 .. Len(q) :
                  i < j /\ j < k /\ q[i] = "ACK" /\ q[j] = "ACK" => q[k] # "C"

Early == {"off", "start", "name"}
Mid   == {"ask", "data", "eot"}

HandStage ==
  rpc \in {"off", "hand"} =>
    /\ spc \in Early \cup {"done"}
    /\ NoAck(up)
    /\ \A i \in 1 .. Len(down) : down[i].kind \in {"name", "CAN", "junk"}
PromptStage ==
  rpc = "data" /\ prompt = "C" =>
    /\ spc # "close"
    /\ spc \in Mid => NoAck(up)
    /\ spc \in Early => OneAck(up)
PastStage ==
  /\ spc \in Early => AcksThenC(up)
  /\ spc \in Mid => AckThenC(up)
  /\ spc = "close" => NoC(up)
EndStage ==
  /\ spc # "null" /\ sres # "OK"
  /\ \A i \in 1 .. Len(down) : down[i].kind # "null"
Stage == HandStage /\ PromptStage /\ PastStage /\ EndStage

LEMMA KeptSays ==
  ASSUME NEW new, NEW old, NEW d \in Nat, Kept(new, old, d), Len(new) \in Nat, Len(old) \in Nat
  PROVE  /\ NoAck(old) => NoAck(new)
         /\ OneAck(old) => OneAck(new)
         /\ NoC(old) => NoC(new)
         /\ AckThenC(old) => AckThenC(new)
         /\ AcksThenC(old) => AcksThenC(new)
<1>1. PICK f \in [1 .. Len(new) -> 1 .. Len(old)] :
        /\ \A i \in 1 .. Len(new) : new[i] = old[f[i]] /\ i + d <= f[i]
        /\ \A i, j \in 1 .. Len(new) : i < j => f[i] < f[j]
  BY DEF Kept
<1>2. \A i \in 1 .. Len(new) : f[i] \in 1 .. Len(old) /\ new[i] = old[f[i]]
  BY <1>1
<1>3. (NoAck(old) => NoAck(new)) /\ (NoC(old) => NoC(new))
  BY <1>2 DEF NoAck, NoC
<1>4. (OneAck(old) => OneAck(new)) /\ (AckThenC(old) => AckThenC(new))
  <2>0. \A i, j \in 1 .. Len(new) : i < j =>
          /\ f[i] \in 1 .. Len(old) /\ f[j] \in 1 .. Len(old) /\ f[i] < f[j]
          /\ new[i] = old[f[i]] /\ new[j] = old[f[j]]
    BY ONLY <1>1, <1>2
  <2>1. OneAck(old) => OneAck(new)
    <3> SUFFICES ASSUME OneAck(old), NEW i \in 1 .. Len(new), NEW j \in 1 .. Len(new), i < j,
                        new[i] = "ACK", new[j] = "ACK"
                 PROVE  FALSE
      BY DEF OneAck
    <3> QED BY <2>0 DEF OneAck
  <2>2. AckThenC(old) => AckThenC(new)
    <3> SUFFICES ASSUME AckThenC(old), NEW i \in 1 .. Len(new), NEW k \in 1 .. Len(new), i < k,
                        new[i] = "ACK", new[k] = "C"
                 PROVE  FALSE
      BY DEF AckThenC
    <3> QED BY <2>0 DEF AckThenC
  <2> QED BY <2>1, <2>2
<1>5. ASSUME AcksThenC(old), NEW i \in 1 .. Len(new), NEW j \in 1 .. Len(new),
             NEW k \in 1 .. Len(new), i < j, j < k, new[i] = "ACK", new[j] = "ACK"
      PROVE  new[k] # "C"
  <2>1. f[i] < f[j] /\ f[j] < f[k]
    BY <1>1, <1>5
  <2>2. /\ f[i] \in 1 .. Len(old) /\ f[j] \in 1 .. Len(old) /\ f[k] \in 1 .. Len(old)
        /\ new[i] = old[f[i]] /\ new[j] = old[f[j]] /\ new[k] = old[f[k]]
    BY <1>2
  <2> QED BY <2>1, <2>2, <1>5 DEF AcksThenC
<1> QED BY <1>3, <1>4, <1>5 DEF AcksThenC

LEMMA TailSays ==
  ASSUME NEW q \in Seq(Answers), q # <<>>, NEW t, t = Tail(q), q[1] = "ACK"
  PROVE  /\ OneAck(q) => NoAck(t)
         /\ AckThenC(q) => NoC(t)
         /\ AcksThenC(q) => AckThenC(t)
<1>1. /\ Len(t) = Len(q) - 1 /\ Len(q) >= 1 /\ Len(q) \in Nat
      /\ \A i \in 1 .. Len(q) - 1 : t[i] = q[i + 1]
  BY TailKept
<1>2. \A i \in 1 .. Len(t) : t[i] = q[i + 1] /\ i + 1 \in 1 .. Len(q) /\ 1 < i + 1 /\ 1 \in 1 .. Len(q)
  BY <1>1
<1>3. (OneAck(q) => NoAck(t)) /\ (AckThenC(q) => NoC(t))
  BY <1>2 DEF OneAck, NoAck, AckThenC, NoC
<1>4. ASSUME AcksThenC(q), NEW i \in 1 .. Len(t), NEW k \in 1 .. Len(t), i < k, t[i] = "ACK"
      PROVE  t[k] # "C"
  <2>1. /\ i + 1 \in 1 .. Len(q) /\ k + 1 \in 1 .. Len(q) /\ 1 \in 1 .. Len(q)
        /\ 1 < i + 1 /\ i + 1 < k + 1 /\ q[i + 1] = "ACK" /\ t[k] = q[k + 1]
    BY <1>1, <1>2, <1>4
  <2> DEFINE a == i + 1
             b == k + 1
  <2>2. a \in 1 .. Len(q) /\ b \in 1 .. Len(q) /\ 1 < a /\ a < b /\ q[a] = "ACK" /\ t[k] = q[b]
    BY <2>1
  <2> HIDE DEF a, b
  <2> QED BY <2>1, <2>2, <1>4 DEF AcksThenC
<1> QED BY <1>3, <1>4 DEF AckThenC

(* Longer by answers that are not a 'C'. *)
Extends(new, old) ==
  /\ Len(new) \in Nat /\ Len(old) \in Nat /\ Len(old) <= Len(new)
  /\ \A i \in 1 .. Len(old) : new[i] = old[i]
  /\ \A i \in 1 .. Len(new) : i > Len(old) => new[i] # "C"
LEMMA ExtendsSays ==
  ASSUME NEW new, NEW old, Extends(new, old)
  PROVE  /\ NoC(old) => NoC(new)
         /\ AckThenC(old) => AckThenC(new)
         /\ AcksThenC(old) => AcksThenC(new)
  BY DEF Extends, NoC, AckThenC, AcksThenC

LEMMA OneMoreSays ==
  ASSUME Sorts, NEW e \in Answers
  PROVE  /\ e # "C" => Extends(up \o <<e>>, up)
         /\ e # "ACK" => /\ NoAck(up) => NoAck(up \o <<e>>)
                         /\ OneAck(up) => OneAck(up \o <<e>>)
         /\ NoAck(up) => AckThenC(up \o <<e>>)
         /\ OneAck(up) => AcksThenC(up \o <<e>>)
<1> DEFINE q == up \o <<e>>
<1>1. /\ q \in Seq(Answers) /\ Len(q) = Len(up) + 1 /\ Len(up) \in Nat
      /\ \A i \in 1 .. Len(up) : q[i] = up[i]
      /\ q[Len(up) + 1] = e
  BY OneMore DEF Sorts
<1> HIDE DEF q
<1>2. \A i \in 1 .. Len(q) : i \in 1 .. Len(up) \/ i = Len(up) + 1
  BY <1>1
<1>3. e # "C" => Extends(q, up)
  BY <1>1, <1>2 DEF Extends
<1>4. e # "ACK" => (NoAck(up) => NoAck(q)) /\ (OneAck(up) => OneAck(q))
  BY <1>1, <1>2 DEF NoAck, OneAck
<1>5. \A i, k \in 1 .. Len(q) : i < k => i \in 1 .. Len(up) /\ q[i] = up[i]
  BY <1>1
<1>6. NoAck(up) => AckThenC(q)
  BY <1>5 DEF NoAck, AckThenC
<1>7. OneAck(up) => AcksThenC(q)
  BY <1>5 DEF OneAck, AcksThenC
<1> QED BY <1>3, <1>4, <1>6, <1>7 DEF q

LEMMA NamedSays ==
  ASSUME Sorts, NoAck(up)
  PROVE  OneAck(up \o <<"ACK", "C">>) /\ AcksThenC(up \o <<"ACK", "C">>)
<1> DEFINE q == up \o <<"ACK", "C">>
<1>0. "ACK" \in Answers /\ "C" \in Answers
  BY DEF Answers
<1>1. /\ q \in Seq(Answers) /\ Len(q) = Len(up) + 2 /\ Len(up) \in Nat
      /\ \A i \in 1 .. Len(up) : q[i] = up[i]
      /\ q[Len(up) + 1] = "ACK" /\ q[Len(up) + 2] = "C"
  BY <1>0, TwoMore DEF Sorts
<1> HIDE DEF q
<1>2. \A i \in 1 .. Len(q) : i \in 1 .. Len(up) \/ i = Len(up) + 1 \/ i = Len(up) + 2
  BY <1>1
<1>3. \A i \in 1 .. Len(q) : q[i] = "ACK" => i = Len(up) + 1
  BY <1>1, <1>2 DEF NoAck
<1> QED BY <1>1, <1>3 DEF OneAck, AcksThenC, q

LEMMA ThinKinds ==
  ASSUME NEW d \in Nat, Thinned(down', down, d), NEW P, "junk" \in P,
         \A i \in 1 .. Len(down) : down[i].kind \in P
  PROVE  \A i \in 1 .. Len(down') : down'[i].kind \in P
  BY DEF Thinned, Junk, Unit

(* What the sender adds to the line, by its kind. *)
LEMMA SenderAdds ==
  ASSUME Base, SenderMoves, Sorts',
         NEW P, \A i \in 1 .. Len(down) : down[i].kind \in P,
         "CAN" \in P, Opened => "name" \in P, Parted => "null" \in P, Finished => "eot" \in P,
         Took => "data" \in P /\ "short" \in P,
         Again => InFlight.kind \in P
  PROVE  \A i \in 1 .. Len(down') : down'[i].kind \in P
<1>1. CASE down' = down
  BY <1>1
<1>2. ASSUME NEW e \in Units, NewUnit(e), e.kind \in P
      PROVE  \A i \in 1 .. Len(down') : down'[i].kind \in P
  <2>1. Len(down) \in Nat
    BY DEF Base, Sorts
  <2> QED BY <1>2, <2>1 DEF NewUnit
<1>3. CASE Stopped
  BY <1>1, <1>2, <1>3, UnitSorts, UnitFields, Appended DEF Stopped, Base
<1>4. CASE Again
  <2>1. InFlight \in Units /\ NewUnit(InFlight)
    BY <1>4, InFlightSort, Appended DEF Again, Base
  <2> QED BY <1>2, <1>4, <2>1
<1>5. CASE Idled \/ Waited
  BY <1>1, <1>5 DEF Idled, Waited
<1>6. CASE Opened \/ Finished \/ Parted \/ Took
  BY <1>2, <1>6, UnitSorts, UnitFields, Appended
     DEF Opened, Finished, Parted, Took, Sent, Base
<1> QED BY <1>3, <1>4, <1>5, <1>6 DEF SenderMoves, Advanced

LEMMA InFlightKind ==
  ASSUME spc \in Sending
  PROVE  InFlight.kind \in {spc, "short"} /\ (spc = "name" => InFlight.kind = "name")
         /\ (spc # "null" => InFlight.kind # "null")
  BY UnitFields DEF InFlight, Sending

LEMMA StageSender ==
  ASSUME Base, Base', Stage, SenderMoves, SenderRuns, UNCHANGED receiverVars,
         \/ up' = up /\ ~Advanced
         \/ up # <<>> /\ up' = Tail(up)
  PROVE  Stage'
<1> USE DEF Base
<1>0. up \in Seq(Answers) /\ Len(up) \in Nat /\ Len(up') \in Nat
  BY DEF Sorts
<1>1. Kept(up', up, 0)
  <2>1. CASE up' = up
    <3> DEFINE f == [i \in 1 .. Len(up) |-> i]
    <3>1. f \in [1 .. Len(up) -> 1 .. Len(up)]
      OBVIOUS
    <3>2. \A i \in 1 .. Len(up) : up[i] = up[f[i]] /\ i + 0 <= f[i]
      OBVIOUS
    <3>3. \A i, j \in 1 .. Len(up) : i < j => f[i] < f[j]
      OBVIOUS
    <3> HIDE DEF f
    <3>4. Kept(up, up, 0)
      BY <3>1, <3>2, <3>3 DEF Kept
    <3> QED BY <2>1, <3>4
  <2>2. CASE up # <<>> /\ up' = Tail(up)
    <3>1. Kept(up', up, 1)
      BY <1>0, <2>2, TailKept
    <3> QED BY <1>0, <3>1 DEF Kept
  <2> QED BY <2>1, <2>2
<1>2. /\ NoAck(up) => NoAck(up')
      /\ OneAck(up) => OneAck(up')
      /\ NoC(up) => NoC(up')
      /\ AckThenC(up) => AckThenC(up')
      /\ AcksThenC(up) => AcksThenC(up')
  BY <1>0, <1>1, KeptSays
<1>3. ASSUME up[1] = "ACK", up # <<>>, up' = Tail(up)
      PROVE  /\ OneAck(up) => NoAck(up')
             /\ AckThenC(up) => NoC(up')
             /\ AcksThenC(up) => AckThenC(up')
  BY <1>0, <1>3, TailSays
<1>4. UNCHANGED <<rpc, prompt>> /\ rpc \in {"off", "hand", "data", "close", "done"}
  BY DEF receiverVars, Sorts
<1>h. rpc \in {"off", "hand"} => NoAck(up) /\ spc \in {"start", "name"}
  BY DEF Stage, HandStage, SenderRuns, Early
<1>a. ASSUME up # <<>>, NoAck(up)
      PROVE  up[1] # "ACK"
  <2>1. Len(up) >= 1
    BY <1>0, <1>a, TailKept
  <2> QED BY <1>0, <1>a, <2>1 DEF NoAck
<1>c. ASSUME up # <<>>, NoC(up)
      PROVE  up[1] # "C"
  <2>1. Len(up) >= 1
    BY <1>0, <1>c, TailKept
  <2> QED BY <1>0, <1>c, <2>1 DEF NoC
<1>p. ~Parted
  <2>1. ASSUME Parted PROVE FALSE
    <3>1. spc = "close" /\ Advanced
      BY <2>1, <1>0 DEF Parted, SenderMoves, Advanced, Stopped, Again, Idled, Waited, Opened, Took, Finished, Asking,
                   Sending
    <3>2. up # <<>> /\ up[1] = "C"
      BY <2>1, <3>1 DEF Parted, Advanced, Waited, Took, Finished
    <3>3. NoC(up)
      BY <3>1 DEF Stage, PastStage
    <3> QED BY <1>c, <3>2, <3>3
  <2> QED BY <2>1
<1>5. EndStage'
  <2>1. spc' # "null" /\ sres' # "OK"
    BY <1>p DEF SenderMoves, Advanced, Stopped, Again, Idled, Waited, Opened, Took, Finished,
                Sent, Stage, EndStage
  <2>2. \A i \in 1 .. Len(down) : down[i].kind \in Kinds \ {"null"}
    BY UnitNat DEF Stage, EndStage
  <2>3. Again => InFlight.kind \in Kinds \ {"null"}
    <3>1. ASSUME Again PROVE InFlight.kind \in Kinds /\ InFlight.kind # "null"
      <4>1. spc \in Sending /\ spc # "null"
        BY <3>1 DEF Again, Stage, EndStage
      <4>2. InFlight \in Units
        BY <4>1, InFlightSort
      <4> QED BY <4>1, <4>2, InFlightKind DEF Units
    <3> QED BY <3>1
  <2>4. {"CAN", "name", "eot", "data", "short"} \subseteq Kinds \ {"null"}
    BY DEF Kinds, Blocks
  <2>5. \A i \in 1 .. Len(down') : down'[i].kind \in Kinds \ {"null"}
    <3> DEFINE P == Kinds \ {"null"}
    <3>1. \A i \in 1 .. Len(down) : down[i].kind \in P
      BY <2>2
    <3>2. "CAN" \in P /\ "name" \in P /\ "eot" \in P /\ "data" \in P /\ "short" \in P
      BY <2>4
    <3>3. Again => InFlight.kind \in P
      BY <2>3
    <3> HIDE DEF P
    <3>4. \A i \in 1 .. Len(down') : down'[i].kind \in P
      BY <3>1, <3>2, <3>3, <1>p, SenderAdds
    <3> QED BY <3>4 DEF P
  <2> QED BY <2>1, <2>5 DEF EndStage
<1>6. HandStage'
  <2>1. CASE rpc \notin {"off", "hand"}
    BY <1>4, <2>1 DEF HandStage
  <2>2. CASE rpc \in {"off", "hand"}
    <3>1. ~Took /\ ~Finished /\ ~Waited
      <4>1. ASSUME Waited PROVE FALSE
        <5>1. spc = "name" /\ spc' = "ask"
          BY <4>1, <2>2, <1>h DEF Waited
        <5>2. Advanced /\ up # <<>> /\ up[1] = "ACK"
          BY <5>1, <4>1 DEF SenderMoves, Advanced, Stopped, Again, Idled, Opened, Parted, Took,
                            Finished
        <5> QED BY <5>2, <2>2, <1>h, <1>a
      <4> QED BY <4>1, <2>2, <1>h DEF Took, Finished
    <3>2. spc' \in {"start", "name", "done"}
      BY <3>1, <1>p, <2>2, <1>h DEF SenderMoves, Advanced, Stopped, Again, Idled, Opened
    <3>3. \A i \in 1 .. Len(down') : down'[i].kind \in {"name", "CAN", "junk"}
      <4> DEFINE P == {"name", "CAN", "junk"}
      <4>1. \A i \in 1 .. Len(down) : down[i].kind \in P
        BY <2>2 DEF Stage, HandStage
      <4>2. Again => InFlight.kind \in P
        BY <2>2, <1>h, InFlightKind DEF Again, Sending
      <4>3. "CAN" \in P /\ "name" \in P
        OBVIOUS
      <4> HIDE DEF P
      <4>4. \A i \in 1 .. Len(down') : down'[i].kind \in P
        BY <4>1, <4>2, <4>3, <3>1, <1>p, SenderAdds
      <4> QED BY <4>4 DEF P
    <3> QED BY <1>2, <1>4, <1>h, <2>2, <3>2, <3>3 DEF HandStage, Early
  <2> QED BY <2>1, <2>2
<1>7. PromptStage'
  <2>1. CASE ~(rpc = "data" /\ prompt = "C")
    BY <1>4, <2>1 DEF PromptStage
  <2>2. CASE rpc = "data" /\ prompt = "C"
    <3>0. spc # "close" /\ (spc \in Mid => NoAck(up)) /\ (spc \in Early => OneAck(up))
      BY <2>2 DEF Stage, PromptStage
    <3>1. CASE Waited
      <4>1. up # <<>> /\ up' = Tail(up) /\ up[1] = "ACK"
        BY <3>1 DEF SenderMoves, Advanced, Stopped, Again, Idled, Opened, Parted, Took,
                    Finished, Waited
      <4>2. spc = "name" /\ spc' = "ask"
        BY <3>0, <3>1, <4>1, <1>a DEF Waited, Mid
      <4>3. NoAck(up')
        BY <1>3, <3>0, <4>1, <4>2 DEF Early
      <4> QED BY <4>2, <4>3 DEF PromptStage, Early
    <3>2. CASE ~Waited
      <4>1. \/ spc' = spc \/ spc' = "done" \/ (spc = "start" /\ spc' = "name")
            \/ spc \in Mid /\ spc' \in Mid
        BY <3>2, <1>p DEF SenderMoves, Advanced, Stopped, Again, Idled, Opened, Took, Finished,
                          Mid
      <4> QED BY <1>2, <3>0, <4>1 DEF PromptStage, Mid, Early
    <3> QED BY <3>1, <3>2
  <2> QED BY <2>1, <2>2
<1>8. PastStage'
  <2>0. /\ spc \in Early => AcksThenC(up)
        /\ spc \in Mid => AckThenC(up)
        /\ spc = "close" => NoC(up)
    BY DEF Stage, PastStage
  <2>1. CASE Waited
    <3>1. up # <<>> /\ up' = Tail(up) /\ up[1] = "ACK"
      BY <2>1 DEF SenderMoves, Advanced, Stopped, Again, Idled, Opened, Parted, Took,
                  Finished, Waited
    <3>2. (spc = "name" /\ spc' = "ask") \/ (spc = "eot" /\ spc' = "close")
      BY <2>1 DEF Waited
    <3> QED BY <1>3, <2>0, <3>1, <3>2 DEF PastStage, Early, Mid
  <2>2. CASE ~Waited
    <3>1. \/ spc' = spc \/ spc' = "done" \/ (spc = "start" /\ spc' = "name")
          \/ spc \in Mid /\ spc' \in Mid
      BY <2>2, <1>p DEF SenderMoves, Advanced, Stopped, Again, Idled, Opened, Took, Finished,
                        Mid
    <3> QED BY <1>2, <2>0, <3>1 DEF PastStage, Mid, Early
  <2> QED BY <2>1, <2>2
<1> QED BY <1>5, <1>6, <1>7, <1>8 DEF Stage

(* A move of the receiver that is not an answer to an EOT before any file. *)
Unfooled ==
  \/ Ended \/ HandBad \/ Silent \/ Named \/ Prompted \/ Closing
  \/ \E a \in {"ACK", "NAK"} : DataSays(a)
  \/ /\ rpc = "off" /\ rpc' = "hand" /\ up' = up \o <<"C">>
     /\ UNCHANGED <<got, expect, prompt, rtries, rres>>

LEMMA StageReceiver ==
  ASSUME Base, Stage, Unfooled, Len(got) # size, UNCHANGED <<size, senderVars>>,
         down' = down \/ \E d \in Nat : Thinned(down', down, d)
  PROVE  Stage'
<1> USE DEF Base
<1>0. /\ Sorts /\ UNCHANGED <<spc, sres>>
      /\ rpc \in {"off", "hand", "data", "close", "done"}
      /\ rpc \in {"off", "hand"} => prompt = "C"
      /\ prompt \in {"C", "NAK"}
      /\ Early \cap Mid = {} /\ "close" \notin Early \cup Mid /\ "done" \notin Early \cup Mid
  BY DEF senderVars, Sorts, ReceiverInv, Early, Mid
<1>a. {"ACK", "NAK", "C"} \subseteq Answers
  BY DEF Answers
<1>k. ASSUME NEW P, "junk" \in P, \A i \in 1 .. Len(down) : down[i].kind \in P
      PROVE  \A i \in 1 .. Len(down') : down'[i].kind \in P
  <2>1. CASE down' = down
    BY <1>k, <2>1
  <2>2. ASSUME NEW d \in Nat, Thinned(down', down, d)
        PROVE  \A i \in 1 .. Len(down') : down'[i].kind \in P
    BY <1>k, <2>2, ThinKinds
  <2> QED BY <2>1, <2>2
<1>s. /\ HandStage /\ PromptStage /\ PastStage /\ EndStage
  BY DEF Stage
<1>e. EndStage'
  <2> DEFINE P == Kinds \ {"null"}
  <2>1. "junk" \in P
    BY DEF Kinds, Blocks
  <2>2. \A i \in 1 .. Len(down) : down[i].kind \in P
    BY <1>s, UnitNat DEF EndStage
  <2>3. "null" \notin P
    OBVIOUS
  <2> HIDE DEF P
  <2>4. \A i \in 1 .. Len(down') : down'[i].kind \in P
    BY <1>k, <2>1, <2>2
  <2> QED BY <1>0, <1>s, <2>3, <2>4 DEF EndStage
<1>n. NoAck(up) => OneAck(up)
  BY DEF NoAck, OneAck
<1>h. ASSUME rpc \in {"off", "hand"}, rpc' = "hand", NoAck(up')
      PROVE  HandStage' /\ PromptStage' /\ PastStage'
  <2>1. spc \in Early \cup {"done"}
    BY <1>h, <1>s DEF HandStage
  <2>2. \A i \in 1 .. Len(down') : down'[i].kind \in {"name", "CAN", "junk"}
    <3> DEFINE P == {"name", "CAN", "junk"}
    <3>1. "junk" \in P /\ \A i \in 1 .. Len(down) : down[i].kind \in P
      BY <1>h, <1>s DEF HandStage
    <3> HIDE DEF P
    <3>2. \A i \in 1 .. Len(down') : down'[i].kind \in P
      BY <1>k, <3>1
    <3> QED BY <3>2 DEF P
  <2>3. AcksThenC(up')
    BY <1>h DEF NoAck, AcksThenC
  <2> QED BY <1>0, <1>h, <2>1, <2>2, <2>3 DEF HandStage, PromptStage, PastStage
<1>d. ASSUME rpc' \notin {"off", "hand"}, ~(rpc' = "data" /\ prompt' = "C"), PastStage'
      PROVE  Stage'
  BY <1>e, <1>d DEF Stage, HandStage, PromptStage
<1>x. ASSUME Extends(up', up)
      PROVE  PastStage'
  BY <1>0, <1>s, <1>x, ExtendsSays DEF PastStage
<1>1. CASE Ended
  <2>1. Extends(up', up)
    BY <1>0, <1>1 DEF Ended, Extends, Sorts
  <2> QED BY <1>1, <1>d, <1>x, <2>1 DEF Ended
<1>2. CASE HandBad \/ (rpc = "off" /\ rpc' = "hand" /\ up' = up \o <<"C">>)
  <2>1. rpc \in {"off", "hand"} /\ rpc' = "hand" /\ up' = up \o <<"C">>
    BY <1>2 DEF HandBad
  <2>2. NoAck(up) => NoAck(up \o <<"C">>)
    BY <1>0, <1>a, OneMoreSays
  <2>3. NoAck(up)
    BY <1>s, <2>1 DEF HandStage
  <2>4. NoAck(up')
    BY <2>1, <2>2, <2>3 DEF NoAck
  <2> QED BY <1>e, <1>h, <2>1, <2>4 DEF Stage
<1>3. CASE Silent
  <2>1. UNCHANGED <<rpc, got, prompt, up>>
    BY <1>3 DEF Silent, receiverVars
  <2>2. CASE rpc \in {"off", "hand"}
    <3>1. NoAck(up')
      BY <1>s, <2>1, <2>2 DEF HandStage, NoAck
    <3>2. CASE rpc = "hand"
      BY <1>e, <1>h, <2>1, <3>1, <3>2 DEF Stage
    <3>3. CASE rpc = "off"
      <4>1. \A i \in 1 .. Len(down') : down'[i].kind \in {"name", "CAN", "junk"}
        <5> DEFINE P == {"name", "CAN", "junk"}
        <5>1. "junk" \in P /\ \A i \in 1 .. Len(down) : down[i].kind \in P
          BY <1>s, <3>3 DEF HandStage
        <5> HIDE DEF P
        <5>2. \A i \in 1 .. Len(down') : down'[i].kind \in P
          BY <1>k, <5>1
        <5> QED BY <5>2 DEF P
      <4>2. HandStage'
        BY <1>0, <1>s, <2>1, <3>1, <3>3, <4>1 DEF HandStage
      <4>3. PromptStage' /\ PastStage'
        BY <1>0, <1>s, <2>1, <3>3 DEF PromptStage, PastStage, NoAck, OneAck, NoC, AckThenC,
                                      AcksThenC
      <4> QED BY <1>e, <4>2, <4>3 DEF Stage
    <3> QED BY <2>2, <3>2, <3>3
  <2>3. CASE rpc \notin {"off", "hand"}
    <3>1. PromptStage' /\ PastStage'
      BY <1>0, <1>s, <2>1 DEF PromptStage, PastStage, NoAck, OneAck, NoC, AckThenC, AcksThenC
    <3> QED BY <1>e, <2>1, <2>3, <3>1 DEF Stage, HandStage
  <2> QED BY <2>2, <2>3
<1>4. CASE Named
  <2>1. rpc = "hand" /\ rpc' = "data" /\ up' = up \o <<"ACK", "C">>
    BY <1>4 DEF Named
  <2>2. NoAck(up) /\ spc \in Early \cup {"done"}
    BY <1>s, <2>1 DEF HandStage
  <2>3. OneAck(up \o <<"ACK", "C">>) /\ AcksThenC(up \o <<"ACK", "C">>)
    BY <1>0, <2>2, NamedSays
  <2>4. OneAck(up') /\ AcksThenC(up')
    BY <2>1, <2>3 DEF OneAck, AcksThenC
  <2>5. spc' \notin Mid \cup {"close"}
    BY <1>0, <2>2
  <2>6. PromptStage' /\ PastStage'
    BY <2>4, <2>5 DEF PromptStage, PastStage
  <2> QED BY <1>e, <2>1, <2>6 DEF Stage, HandStage
<1>5. CASE Prompted
  <2>1. rpc = "data" /\ rpc' = "data" /\ prompt' = prompt /\ up' = up \o <<prompt>>
    BY <1>5 DEF Prompted
  <2>2. CASE prompt = "NAK"
    <3>1. Extends(up', up)
      BY <1>0, <1>a, <2>1, <2>2, OneMoreSays
    <3> QED BY <1>d, <1>x, <2>1, <2>2, <3>1
  <2>3. CASE prompt = "C"
    <3> DEFINE q == up \o <<"C">>
    <3>1. /\ NoAck(up) => NoAck(q) /\ AckThenC(q)
          /\ OneAck(up) => OneAck(q) /\ AcksThenC(q)
      BY <1>0, <1>a, OneMoreSays
    <3>2. up' = q
      BY <2>1, <2>3
    <3> HIDE DEF q
    <3>3. /\ NoAck(up) => NoAck(up') /\ AckThenC(up')
          /\ OneAck(up) => OneAck(up') /\ AcksThenC(up')
      BY <3>1, <3>2 DEF NoAck, OneAck, AckThenC, AcksThenC
    <3>4. /\ spc # "close"
          /\ spc \in Mid => NoAck(up)
          /\ spc \in Early => OneAck(up)
      BY <1>s, <2>1, <2>3 DEF PromptStage
    <3>5. PromptStage' /\ PastStage'
      BY <1>0, <3>3, <3>4 DEF PromptStage, PastStage
    <3> QED BY <1>e, <2>1, <3>5 DEF Stage, HandStage
  <2> QED BY <1>0, <2>2, <2>3
<1>6. ASSUME NEW a \in {"ACK", "NAK"}, DataSays(a) PROVE Stage'
  <2>1. rpc' = "data" /\ prompt' = "NAK" /\ up' = up \o <<a>>
    BY <1>6 DEF DataSays
  <2>2. Extends(up', up)
    BY <1>0, <1>a, <2>1, OneMoreSays
  <2> QED BY <1>d, <1>x, <2>1, <2>2
<1>7. ASSUME Closing PROVE FALSE
  BY <1>7 DEF Closing
<1> QED BY <1>1, <1>2, <1>3, <1>4, <1>5, <1>6, <1>7 DEF Unfooled

(* What the sender may believe, as long as no junk was answered as an EOT. *)
Believed == fooled \/ (Flow /\ (Len(got) # size => Stage))

(* Once the sink has the whole file it is given nothing more. *)
LEMMA FullStaysFull ==
  ASSUME LimitsAssumption, Base, [Next]_vars, Len(got) = size
  PROVE  Len(got') = size'
<1>1. CASE SenderSteps
  BY <1>1, SenderStepDoes DEF receiverVars
<1>2. CASE ReceiverSteps
  <2>1. ReceiverMoves /\ size' = size
    BY <1>2, ReceiverStepDoes
  <2>2. CASE got' = got
    BY <2>1, <2>2
  <2>3. ASSUME NEW u \in Units, DataNew(u) PROVE Len(got') = size'
    <3>1. Len(got) <= size /\ Delivered(u) = got
      BY DeliveredDoes DEF Base, ReceiverInv
    <3> QED BY <2>1, <2>3, <3>1 DEF DataNew
  <2> QED BY <2>1, <2>2, <2>3 DEF ReceiverMoves, Ended, HandBad, DataBad, Closing, Silent, HandEot,
                                  Named, Prompted, DataOld, receiverVars
<1>3. CASE SenderStarts \/ ReceiverStarts
  BY <1>3, SenderStartDoes, ReceiverStartsDoes DEF Base, receiverVars
<1>4. CASE LineSteps
  BY <1>4, LineDoes DEF LineSteps, Base, receiverVars
<1>5. CASE UNCHANGED vars
  BY <1>5 DEF vars, receiverVars
<1> QED BY <1>1, <1>2, <1>3, <1>4, <1>5 DEF Next, SenderSteps, ReceiverSteps, LineSteps

(* What the sender read or waited out changes `up` as it does the sender. *)
LEMMA SenderHears ==
  ASSUME LimitsAssumption, Base, SenderSteps
  PROVE  (up' = up /\ ~Advanced) \/ (up # <<>> /\ up' = Tail(up))
<1>0. sblk \in Nat
  BY DEF Base, Sorts
<1>1. CASE SenderReads
  BY <1>1, SenderReadsDoes DEF Base
<1>2. ASSUME Stopped \/ Again \/ Idled PROVE ~Advanced
  <2>1. Advanced => spc' # "done" /\ (spc' # spc \/ sblk' = sblk + 1)
    BY DEF Advanced, Opened, Parted, Waited, Took, Finished
  <2> QED BY <1>0, <1>2, <2>1 DEF Stopped, Again, Idled
<1>3. CASE SenderTimeout
  BY <1>2, <1>3, SenderTimeoutDoes DEF Base
<1>4. CASE SenderBreaks
  BY <1>2, <1>4, SenderBreaksDoes DEF Base
<1> QED BY <1>1, <1>3, <1>4 DEF SenderSteps

LEMMA StageNext ==
  ASSUME LimitsAssumption, Base, Base', Stage, Len(got) # size, [Next]_vars, ~fooled'
  PROVE  Stage'
<1>1. CASE SenderSteps
  BY <1>1, SenderStepDoes, SenderHears, StageSender
<1>2. CASE ReceiverReads
  <2>1. /\ down # <<>> /\ Thinned(down', down, 1)
        /\ UNCHANGED <<size, senderVars, late>>
        /\ \/ Ended \/ HandBad \/ DataBad \/ Closing \/ Silent
           \/ HandEot /\ ((down[1].kind = "junk" /\ fooled' = TRUE) \/ down[1].kind = "eot")
           \/ Named \/ DataOld(down[1]) \/ DataNew(down[1])
    BY <1>2, ReceiverReadsDoes DEF Base
  <2>2. ~HandEot
    <3>1. ASSUME HandEot, down[1].kind = "eot" PROVE FALSE
      <4>1. 1 \in 1 .. Len(down)
        BY <2>1, HeadUnit DEF Base
      <4> QED BY <3>1, <4>1 DEF HandEot, Stage, HandStage
    <3>2. HandEot => rpc = "hand" /\ rpc' = "hand" /\ up' = up \o <<"ACK", "C">>
      BY DEF HandEot, receiverVars
    <3>3. ASSUME HandEot PROVE FALSE
      <4>1. ~Ended /\ ~DataBad /\ ~Closing /\ ~Named /\ ~DataOld(down[1]) /\ ~DataNew(down[1])
        BY <3>2, <3>3 DEF Ended, DataBad, Closing, Named, DataOld, DataNew, DataSays
      <4>2. /\ up \in Seq(Answers) /\ "ACK" \in Answers /\ "C" \in Answers /\ Len(up) \in Nat
        BY DEF Base, Sorts, Answers
      <4>3. Len(up') = Len(up) + 2
        BY <3>2, <3>3, <4>2, TwoMore
      <4>4. ~HandBad
        <5>1. HandBad => Len(up') = Len(up) + 1
          BY <4>2, OneMore DEF HandBad
        <5> QED BY <4>2, <4>3, <5>1
      <4>5. ~Silent
        BY <4>2, <4>3 DEF Silent
      <4> QED BY <2>1, <3>1, <3>3, <4>1, <4>4, <4>5
    <3> QED BY <3>3
  <2>3. Unfooled
    BY <2>1, <2>2 DEF Unfooled, DataBad, DataOld, DataNew
  <2> QED BY <2>1, <2>3, StageReceiver
<1>3. CASE ReceiverTimeout
  BY <1>3, ReceiverTimeoutDoes, StageReceiver DEF Base, Unfooled
<1>4. CASE ReceiverBreaks
  BY <1>4, ReceiverBreaksDoes, StageReceiver DEF Base, Unfooled
<1>5. CASE ReceiverStarts
  BY <1>5, ReceiverStartsDoes, StageReceiver DEF Base, Unfooled
<1>6. CASE SenderStarts
  <2>1. /\ spc \in Early /\ spc' \in Early /\ spc' \notin Mid \cup {"close", "null"}
        /\ UNCHANGED <<sres, rpc, prompt, down, up>>
    BY <1>6, SenderStartDoes DEF receiverVars, Early, Mid
  <2> QED BY <2>1 DEF Stage, HandStage, PromptStage, PastStage, EndStage, NoAck, OneAck, NoC, AckThenC,
                      AcksThenC
<1>7. CASE LineSteps
  <2>0. /\ UNCHANGED <<size, senderVars, receiverVars>>
        /\ \/ up' = up /\ Thinned(down', down, 0)
           \/ down' = down /\ up' \in Seq(Answers) /\ Kept(up', up, 0)
    BY <1>7, LineDoes DEF Base, LineSteps
  <2>1. CASE up' = up /\ Thinned(down', down, 0)
    <3>1. Silent
      BY <2>0, <2>1 DEF Silent
    <3> QED BY <2>0, <2>1, <3>1, StageReceiver DEF Unfooled
  <2>2. CASE down' = down /\ up' \in Seq(Answers) /\ Kept(up', up, 0)
    <3>1. Len(up) \in Nat /\ Len(up') \in Nat
      BY <2>2 DEF Base, Sorts
    <3>2. /\ NoAck(up) => NoAck(up')
          /\ OneAck(up) => OneAck(up')
          /\ NoC(up) => NoC(up')
          /\ AckThenC(up) => AckThenC(up')
          /\ AcksThenC(up) => AcksThenC(up')
      BY <2>2, <3>1, KeptSays
    <3>3. UNCHANGED <<spc, sres, rpc, prompt, down>>
      BY <2>0, <2>2 DEF senderVars, receiverVars
    <3> QED BY <3>2, <3>3 DEF Stage, HandStage, PromptStage, PastStage, EndStage
  <2> QED BY <2>0, <2>1, <2>2
<1>8. CASE UNCHANGED vars
  BY <1>8 DEF vars, senderVars, receiverVars, Stage, HandStage, PromptStage, PastStage, EndStage,
              NoAck, OneAck, NoC, AckThenC, AcksThenC
<1> QED BY <1>1, <1>2, <1>3, <1>4, <1>5, <1>6, <1>7, <1>8
        DEF Next, SenderSteps, LineSteps

LEMMA FooledStays ==
  ASSUME LimitsAssumption, Base, [Next]_vars, fooled
  PROVE  fooled'
<1>1. CASE SenderSteps \/ ReceiverSteps
  BY <1>1, SenderStepDoes, ReceiverStepDoes
<1>2. CASE SenderStarts \/ ReceiverStarts
  BY <1>2, SenderStartDoes, ReceiverStartsDoes DEF Base
<1>3. CASE LineSteps
  BY <1>3, LineDoes DEF LineSteps, Base
<1>4. CASE UNCHANGED vars
  BY <1>4 DEF vars
<1> QED BY <1>1, <1>2, <1>3, <1>4 DEF Next, SenderSteps, ReceiverSteps, LineSteps

LEMMA BelievedNext ==
  ASSUME LimitsAssumption, Base, Base', Believed, [Next]_vars
  PROVE  Believed'
<1>1. CASE fooled
  BY <1>1, FooledStays DEF Believed
<1>2. CASE fooled'
  BY <1>2 DEF Believed
<1>3. CASE ~fooled /\ ~fooled'
  <2>1. Flow /\ (Len(got) # size => Stage)
    BY <1>3 DEF Believed
  <2>2. NullWaits
    <3>1. ASSUME Len(got) # size, down # <<>> PROVE down[1].kind # "null"
      <4>1. 1 \in 1 .. Len(down)
        BY <3>1, HeadUnit DEF Base
      <4> QED BY <2>1, <3>1, <4>1 DEF Stage, EndStage
    <3> QED BY <3>1 DEF NullWaits
  <2>3. Flow'
    BY <2>1, <2>2, FlowNext
  <2>4. Len(got') # size' => Stage'
    BY <1>3, <2>1, FullStaysFull, StageNext
  <2> QED BY <2>3, <2>4 DEF Believed
<1> QED BY <1>1, <1>2, <1>3

LEMMA BelievedInit ==
  ASSUME SizesAssumption, LimitsAssumption, Init
  PROVE  Believed
<1>1. Len(<<>>) = 0
  OBVIOUS
<1>2. Flow
  BY <1>1 DEF Init, Flow, Files
<1>3. Stage
  BY <1>1 DEF Init, Stage, HandStage, PromptStage, PastStage, EndStage, Early, Mid, NoAck,
              OneAck, NoC, AckThenC, AcksThenC
<1> QED BY <1>2, <1>3 DEF Believed

(* Where both ends are, what they hold and what is on the line.            *)
THEOREM Invariant == Spec => [](Base /\ Believed)
<1>0. SizesAssumption /\ LimitsAssumption
  BY SizesAssumption, LimitsAssumption
<1>1. Init => Base /\ Believed
  BY <1>0, BaseInit, BelievedInit
<1>2. Base /\ Believed /\ [Next]_vars => (Base /\ Believed)'
  BY <1>0, BaseNext, BelievedNext
<1> QED BY <1>1, <1>2, PTL DEF Spec

(* SentMeansDelivered, ymodem.c:562-600: a sender that returns YM_OK has    *)
(* had every block it took delivered, unless junk was answered as an EOT    *)
(* before the file; whatever the line loses, damages or delays.             *)
THEOREM SentBlocksArrived == Spec => []SentMeansDelivered
<1>1. Base /\ Believed => SentMeansDelivered
  <2> SUFFICES ASSUME Base, Believed, sres = "OK", ~fooled PROVE Len(got) = sblk
    BY DEF SentMeansDelivered
  <2>1. Len(got) \in Nat /\ sblk \in Nat /\ size \in Nat /\ sblk <= size /\ Len(got) <= sblk
    BY DEF Base, Sorts, SenderInv, Believed, Flow
  <2>2. Len(got) = size
    BY DEF Believed, Stage, EndStage
  <2> QED BY <2>1, <2>2
<1> QED BY <1>1, Invariant, PTL

-----------------------------------------------------------------------------
(* How far the sender can be ahead of the sink.  What is on the line, in     *)
(* both directions, was called for by a prompt or a retry; each answer on    *)
(* its way lets the sender take one block more, and each unit on its way     *)
(* draws one answer.  So the lead stays within the retries the two ends      *)
(* allow before the first block, and two for each wait that ran out early.   *)

Growing == {"name", "ask", "data"}
Offers  == HandshakeRetries + 2 + 2 * late
Budget  == Offers + BlockRetries

Unborn ==
  rpc = "off" =>
    /\ spc \in {"off", "start", "done"}
    /\ \A i \in 1 .. Len(down) : down[i].kind # "name"
Calling ==
  spc \in {"off", "start"} /\ rpc = "hand" => Len(up) <= rtries + 1
Offering ==
  spc = "name" /\ rpc = "hand" =>
    Len(up) + 2 * Len(down) <= Offers + stries

(* The sink's file will begin with the name at place j. *)
NameNear(j) ==
  /\ sblk <= Budget
  /\ SenderRuns => sblk + Len(up) + 2 * j <= Budget
  /\ spc \in Growing =>
       /\ Len(up) + Len(down) + j <= Budget
       /\ \A i \in 1 .. Len(down) : i >= j /\ down[i].kind \in Files =>
            sblk + Len(up) + i + j <= Budget + down[i].blk
NamesNear ==
  rpc = "hand" => \A j \in 1 .. Len(down) : down[j].kind = "name" => NameNear(j)

(* It has begun. *)
LineNear ==
  spc \in Growing =>
    /\ Len(up) + Len(down) <= Budget
    /\ \A i \in 1 .. Len(down) : down[i].kind \in Files =>
         sblk + Len(up) + i <= Budget + down[i].blk
AnswersNear ==
  /\ spc \in Growing =>
       \A i \in 1 .. Len(up) : up[i] = "ACK" => sblk + i <= Len(got) + Budget
  /\ SenderRuns =>
       \A c \in 1 .. Len(up) : up[c] = "C" => sblk + c <= Budget + 1
  /\ SenderRuns /\ prompt = "C" => sblk + Len(up) <= Budget + 1
EndNear ==
  spc = "null" \/ (\E i \in 1 .. Len(down) : down[i].kind = "null") => sblk <= Budget
DataNear ==
  rpc = "data" /\ Len(got) # size =>
    sblk <= Len(got) + Budget /\ EndNear /\ LineNear /\ AnswersNear
Near == Unborn /\ Calling /\ Offering /\ NamesNear /\ DataNear

LEMMA Numbers ==
  ASSUME LimitsAssumption, Base
  PROVE  /\ Budget \in Nat /\ Budget >= 2 /\ Offers \in Nat /\ late \in Nat
         /\ HandshakeRetries \in Nat /\ BlockRetries \in Nat
         /\ Budget = Offers + BlockRetries /\ HandshakeRetries + 2 <= Offers
         /\ Len(up) \in Nat /\ Len(down) \in Nat /\ Len(got) \in Nat
         /\ sblk \in Nat /\ size \in Nat /\ stries \in Nat /\ rtries \in Nat
<1>1. HandshakeRetries \in Nat /\ BlockRetries \in Nat /\ MaxLate \in Nat
  BY RetriesNat
<1>2. late \in 0 .. MaxLate
  BY DEF Base, Sorts
<1>3. late \in Nat
  BY <1>1, <1>2
<1>4. /\ Len(up) \in Nat /\ Len(down) \in Nat /\ Len(got) \in Nat
      /\ sblk \in Nat /\ size \in Nat /\ stries \in Nat /\ rtries \in Nat
  BY DEF Base, Sorts
<1> QED BY <1>1, <1>3, <1>4 DEF Budget, Offers

LEMMA NumbersNext ==
  ASSUME LimitsAssumption, Base, Base', late' = late \/ late' = late + 1
  PROVE  /\ Budget' \in Nat /\ Offers' \in Nat
         /\ Budget <= Budget' /\ Offers <= Offers'
         /\ late' = late + 1 => Budget' = Budget + 2 /\ Offers' = Offers + 2
         /\ Budget' = Offers' + BlockRetries
         /\ Len(up') \in Nat /\ Len(down') \in Nat /\ Len(got') \in Nat
         /\ sblk' \in Nat /\ size' \in Nat /\ stries' \in Nat /\ rtries' \in Nat
<1>n. /\ Budget \in Nat /\ Offers \in Nat /\ late \in Nat
      /\ HandshakeRetries \in Nat /\ BlockRetries \in Nat
      /\ Budget = Offers + BlockRetries
  BY Numbers
<1>1. Budget' = Offers' + BlockRetries
  BY DEF Budget
<1>2. late' = late => Offers' = Offers
  BY DEF Offers
<1>3. late' = late + 1 => Offers' = Offers + 2
  <2>1. \A h, l \in Nat : h + 2 + 2 * (l + 1) = (h + 2 + 2 * l) + 2
    OBVIOUS
  <2>2. late' = late + 1 => Offers' = HandshakeRetries + 2 + 2 * (late + 1)
    BY DEF Offers
  <2> QED BY <1>n, <2>1, <2>2 DEF Offers
<1>4. /\ Len(up') \in Nat /\ Len(down') \in Nat /\ Len(got') \in Nat
      /\ sblk' \in Nat /\ size' \in Nat /\ stries' \in Nat /\ rtries' \in Nat
  BY DEF Base, Sorts
<1>5. CASE late' = late
  <2>1. Offers' = Offers /\ Budget' = Budget /\ late' # late + 1
    BY <1>n, <1>1, <1>2, <1>5
  <2>2. \A n \in Nat : n <= n
    OBVIOUS
  <2> QED BY <1>n, <1>1, <1>4, <2>1, <2>2, Zenon
<1>6. CASE late' = late + 1
  <2>1. Offers' = Offers + 2
    BY <1>3, <1>6
  <2>2. \A n, m \in Nat : /\ n + 2 \in Nat /\ n <= n + 2
                          /\ (n + 2) + m = (n + m) + 2
    OBVIOUS
  <2>3. Budget' = Budget + 2
    BY <1>n, <1>1, <2>1, <2>2, Zenon
  <2>4. /\ Offers' \in Nat /\ Offers <= Offers' /\ Budget' \in Nat /\ Budget <= Budget'
    BY <1>n, <2>1, <2>2, <2>3, Zenon
  <2> QED BY <1>1, <1>4, <2>1, <2>3, <2>4, Zenon
<1> QED BY <1>5, <1>6

(* A step of the sender uses up h answers and takes at most h blocks. *)
SenderPaced(h) ==
  /\ Len(up') = Len(up) - h
  /\ \A i \in 1 .. Len(up') : up'[i] = up[i + h] /\ i + h \in 1 .. Len(up)
  /\ h = 1 => Len(up) >= 1
  /\ sblk' = sblk \/ (sblk' = sblk + 1 /\ h = 1)
  /\ sblk' = sblk + 1 => (spc = "data" /\ up[1] = "ACK") \/ spc = "ask"
  /\ spc' = "null" /\ spc # "null" => h = 1 /\ up[1] = "C"
  /\ spc' \in {"ask", "data"} => spc \in Growing
  /\ spc' = "name" => \/ spc = "name" /\ Again
                      \/ spc = "start" /\ h = 1 /\ stries' = 0 /\ Len(down) = 0
  /\ rpc = "off" => h = 0 /\ (spc \in {"start", "done"} => spc' \in {"start", "done"})
  /\ spc' \in {"off", "start"} => spc = spc'
  /\ \/ down' = down \/ spc' = "done" \/ h = 1
     \/ late' = late + 1
     \/ Len(up) = 0 /\ (ReceiverRuns => Len(down) = 0)
  /\ late' = late \/ late' = late + 1

LEMMA SenderPace ==
  ASSUME LimitsAssumption, Base, SenderSteps
  PROVE  \E h \in {0, 1} : SenderPaced(h)
<1>0. /\ SenderRuns /\ sblk \in Nat /\ Len(up) \in Nat /\ Len(down) \in Nat /\ late \in Nat
      /\ spc \in Asking \cup Sending
      /\ rpc = "off" => up = <<>>
      /\ spc = "start" => down = <<>>
  BY Numbers, SenderStepDoes DEF Base, Sorts, SenderRuns, ReceiverInv, SenderInv
<1>e. \A q : q = <<>> => Len(q) = 0
  OBVIOUS
<1>s. ASSUME Stopped \/ Again \/ Idled
      PROVE  /\ sblk' = sblk /\ (spc' = "null" => spc = "null")
             /\ spc' \in {"ask", "data"} => spc \in Growing
             /\ spc' = "name" => spc = "name" /\ Again
             /\ spc \in {"start", "done"} => spc' \in {"start", "done"}
             /\ spc' \in {"off", "start"} => spc = spc'
             /\ ~Again => down' = down \/ spc' = "done"
  BY <1>s DEF Stopped, Again, Idled, Growing, Asking, Sending
<1>1. CASE SenderReads
  <2>1. /\ up # <<>> /\ up' = Tail(up)
        /\ UNCHANGED <<size, receiverVars, late, fooled>>
        /\ Stopped \/ Again \/ Idled \/ Advanced
    BY <1>1, SenderReadsDoes DEF Base
  <2>2. /\ Len(up') = Len(up) - 1 /\ Len(up) >= 1
        /\ \A i \in 1 .. Len(up') : up'[i] = up[i + 1] /\ i + 1 \in 1 .. Len(up)
    BY <2>1, TailUp DEF Base
  <2>3. rpc # "off"
    BY <1>0, <2>1
  <2>4. CASE Stopped \/ Again \/ Idled
    <3>1. SenderPaced(1)
      BY <1>0, <1>s, <2>1, <2>2, <2>3, <2>4 DEF SenderPaced
    <3> QED BY <3>1
  <2>5. CASE Advanced
    <3>1. /\ sblk' = sblk \/ sblk' = sblk + 1
          /\ sblk' = sblk + 1 => (spc = "data" /\ up[1] = "ACK") \/ spc = "ask"
          /\ spc' = "null" => up[1] = "C"
          /\ spc' \in {"ask", "data"} => spc \in Growing
          /\ spc' = "name" => spc = "start" /\ stries' = 0
          /\ spc' \notin {"off", "start"}
      BY <1>0, <2>5 DEF Advanced, Opened, Parted, Waited, Took, Finished, Sent, Growing
    <3>2. SenderPaced(1)
      BY <1>0, <1>e, <2>1, <2>2, <2>3, <3>1 DEF SenderPaced
    <3> QED BY <3>2
  <2> QED BY <2>1, <2>4, <2>5
<1>2. CASE SenderTimeout
  <2>1. /\ up' = up /\ UNCHANGED <<size, receiverVars, fooled>>
        /\ Stopped \/ Again \/ Idled
        /\ \/ SenderQuiet /\ late' = late
           \/ late < MaxLate /\ late' = late + 1
    BY <1>2, SenderTimeoutDoes DEF Base
  <2>2. SenderPaced(0)
    BY <1>0, <1>e, <1>s, <2>1 DEF SenderPaced, SenderQuiet
  <2> QED BY <2>2
<1>3. CASE SenderBreaks
  <2>1. Stopped /\ UNCHANGED <<up, size, receiverVars, late, fooled>>
    BY <1>3, SenderBreaksDoes DEF Base
  <2>2. spc' = "done"
    BY <2>1 DEF Stopped
  <2>3. SenderPaced(0)
    BY <1>0, <1>s, <2>1, <2>2 DEF SenderPaced
  <2> QED BY <2>3
<1> QED BY <1>1, <1>2, <1>3 DEF SenderSteps

(* What it adds to the line. *)
LEMMA SenderAppends ==
  ASSUME Base, SenderMoves, SenderRuns
  PROVE  /\ down' = down \/ Len(down') = Len(down) + 1
         /\ \A i \in 1 .. Len(down) : i \in 1 .. Len(down') /\ down'[i] = down[i]
         /\ \A i \in 1 .. Len(down') :
              \/ i \in 1 .. Len(down)
              \/ /\ i = Len(down) + 1 /\ Len(down') = Len(down) + 1
                 /\ down'[i].kind = "name" <=> spc' = "name"
                 /\ down'[i].kind = "null" => spc' = "null"
                 /\ down'[i].kind \in {"data", "short"} => down'[i].blk = sblk'
<1>0. Len(down) \in Nat
  BY DEF Base, Sorts
<1>1. CASE down' = down
  BY <1>1
<1>2. ASSUME NEW e \in Units, GoodNewUnit(e)
      PROVE  /\ Len(down') = Len(down) + 1 /\ down'[Len(down) + 1] = e
             /\ \A i \in 1 .. Len(down) : down'[i] = down[i]
             /\ e.kind = "name" <=> spc' = "name"
             /\ e.kind = "null" => spc' = "null"
             /\ e.kind \in {"data", "short"} => e.blk = sblk'
  BY <1>2 DEF GoodNewUnit, NewUnit
<1>3. ASSUME NEW e \in Units, GoodNewUnit(e)
      PROVE  /\ \A i \in 1 .. Len(down) : i \in 1 .. Len(down') /\ down'[i] = down[i]
             /\ \A i \in 1 .. Len(down') : i \in 1 .. Len(down) \/ (i = Len(down) + 1 /\ down'[i] = e)
  BY <1>0, <1>2, <1>3
<1> QED BY <1>1, <1>2, <1>3, SenderSends

LEMMA NearSender ==
  ASSUME LimitsAssumption, Base, Base', Near, SenderSteps
  PROVE  Near'
<1> PICK h \in {0, 1} : SenderPaced(h)
  BY SenderPace
<1>p. /\ Len(up') = Len(up) - h
      /\ \A i \in 1 .. Len(up') : up'[i] = up[i + h] /\ i + h \in 1 .. Len(up)
      /\ h = 1 => Len(up) >= 1
      /\ sblk' = sblk \/ (sblk' = sblk + 1 /\ h = 1)
      /\ sblk' = sblk + 1 => (spc = "data" /\ up[1] = "ACK") \/ spc = "ask"
      /\ spc' = "null" /\ spc # "null" => h = 1 /\ up[1] = "C"
      /\ spc' \in {"ask", "data"} => spc \in Growing
      /\ spc' = "name" => \/ spc = "name" /\ Again
                          \/ spc = "start" /\ h = 1 /\ stries' = 0 /\ Len(down) = 0
      /\ rpc = "off" => h = 0 /\ (spc \in {"start", "done"} => spc' \in {"start", "done"})
      /\ spc' \in {"off", "start"} => spc = spc'
      /\ \/ down' = down \/ spc' = "done" \/ h = 1
         \/ late' = late + 1
         \/ Len(up) = 0 /\ (ReceiverRuns => Len(down) = 0)
      /\ late' = late \/ late' = late + 1
  BY DEF SenderPaced
<1>r. /\ SenderRuns /\ SenderMoves
      /\ UNCHANGED <<size, rpc, got, expect, prompt, rtries, rres>>
  BY SenderStepDoes DEF receiverVars
<1>d. /\ down' = down \/ Len(down') = Len(down) + 1
      /\ \A i \in 1 .. Len(down) : i \in 1 .. Len(down') /\ down'[i] = down[i]
      /\ \A i \in 1 .. Len(down') :
           \/ i \in 1 .. Len(down)
           \/ /\ i = Len(down) + 1 /\ Len(down') = Len(down) + 1
              /\ down'[i].kind = "name" <=> spc' = "name"
              /\ down'[i].kind = "null" => spc' = "null"
              /\ down'[i].kind \in {"data", "short"} => down'[i].blk = sblk'
  BY <1>r, SenderAppends
<1>n. /\ Budget \in Nat /\ Budget >= 2 /\ Offers \in Nat /\ late \in Nat
      /\ HandshakeRetries \in Nat /\ BlockRetries \in Nat
      /\ Len(up) \in Nat /\ Len(down) \in Nat /\ Len(got) \in Nat
      /\ sblk \in Nat /\ size \in Nat /\ stries \in Nat /\ rtries \in Nat
  BY Numbers
<1>m. /\ Budget' \in Nat /\ Offers' \in Nat
      /\ Len(up') \in Nat /\ Len(down') \in Nat /\ Len(got') \in Nat
      /\ sblk' \in Nat /\ size' \in Nat /\ stries' \in Nat /\ rtries' \in Nat
  BY <1>p, NumbersNext
<1>b. /\ Budget <= Budget' /\ Offers <= Offers'
      /\ late' = late + 1 => Budget' = Budget + 2 /\ Offers' = Offers + 2
  BY <1>p, NumbersNext
<1>o. Budget' = Offers' + BlockRetries /\ HandshakeRetries + 2 <= Offers
  BY <1>p, Numbers, NumbersNext
<1>u. /\ \A i \in 1 .. Len(down) : down[i].blk \in Nat
      /\ \A i \in 1 .. Len(down') : down'[i].blk \in Nat
  <2>1. \A i \in 1 .. Len(down') : down'[i] \in Units
    <3>1. down' \in Seq(Units)
      BY DEF Base, Sorts
    <3> QED BY <3>1, ElementOfSeq
  <2>2. \A u \in Units : u.blk \in Nat
    BY DEF Units
  <2> QED BY <2>1, <2>2, UnitNat DEF Base
<1>q. PICK K \in Nat, K1 \in Nat, F \in Nat, F1 \in Nat, U \in Nat, U1 \in Nat, D \in Nat,
           D1 \in Nat, G \in Nat, s \in Nat, s1 \in Nat, r \in Nat, r1 \in Nat :
        /\ K = Budget /\ K1 = Budget' /\ F = Offers /\ F1 = Offers'
        /\ U = Len(up) /\ U1 = Len(up') /\ D = Len(down) /\ D1 = Len(down') /\ G = Len(got)
        /\ s = sblk /\ s1 = sblk' /\ r = stries /\ r1 = stries'
  BY <1>n, <1>m
<1>g. h \in Nat /\ (h = 0 \/ h = 1) /\ U1 = U - h /\ (h = 1 => U >= 1)
  BY <1>p, <1>q
<1>k. /\ K <= K1 /\ F <= F1 /\ 2 <= K
      /\ late' = late + 1 => K1 = K + 2 /\ F1 = F + 2
  BY <1>b, <1>n, <1>q
<1>v. s1 = s \/ (s1 = s + 1 /\ h = 1)
  BY <1>p, <1>q
<1>w. (down' = down => D1 = D) /\ (D1 = D \/ D1 = D + 1)
  BY <1>d, <1>q
<1>x. /\ \A i \in 1 .. U1 : up'[i] = up[i + h] /\ i + h \in 1 .. U
      /\ s1 = s + 1 => (spc = "data" /\ up[1] = "ACK") \/ spc = "ask"
      /\ spc' = "null" /\ spc # "null" => h = 1 /\ up[1] = "C"
      /\ spc' \in {"ask", "data"} => spc \in Growing
      /\ spc' = "name" => \/ spc = "name" /\ Again
                          \/ spc = "start" /\ h = 1 /\ r1 = 0 /\ D = 0
      /\ down' = down \/ spc' = "done" \/ h = 1 \/ late' = late + 1
           \/ (U = 0 /\ (ReceiverRuns => D = 0))
  BY <1>p, <1>q
<1>y. /\ \A i \in 1 .. D : i \in 1 .. D1 /\ down'[i] = down[i]
      /\ \A i \in 1 .. D1 :
           \/ i \in 1 .. D
           \/ /\ i = D + 1 /\ D1 = D + 1
              /\ down'[i].kind = "name" <=> spc' = "name"
              /\ down'[i].kind = "null" => spc' = "null"
              /\ down'[i].kind \in {"data", "short"} => down'[i].blk = s1
  BY <1>d, <1>q
<1>z. /\ \A i \in 1 .. D : down[i].blk \in Nat
      /\ \A i \in 1 .. D1 : down'[i].blk \in Nat
  BY <1>u, <1>q
<1>c. BlockRetries \in Nat /\ HandshakeRetries \in Nat /\ rtries \in Nat
      /\ K1 = F1 + BlockRetries /\ HandshakeRetries + 2 <= F
  BY <1>n, <1>o, <1>q
<1>s. ASSUME spc' # "done", ~(U = 0 /\ D = 0), ReceiverRuns
      PROVE  U1 + D1 + K <= U + D + K1
  BY <1>s, <1>x, <1>g, <1>v, <1>y, <1>w, <1>k
<1>f. Files = {"name", "data", "short"}
  BY DEF Files
<1>1. Unborn'
  <2> SUFFICES ASSUME rpc = "off"
               PROVE  spc' \in {"start", "done"} /\ \A i \in 1 .. D1 : down'[i].kind # "name"
    BY <1>r, <1>q DEF Unborn
  <2>1. spc \in {"off", "start", "done"} /\ \A i \in 1 .. D : down[i].kind # "name"
    BY <1>q DEF Near, Unborn
  <2>2. spc # "off"
    BY <1>r DEF SenderRuns
  <2>3. spc' \in {"start", "done"}
    BY <1>p, <2>1, <2>2
  <2>4. \A i \in 1 .. D1 : down'[i].kind # "name"
    BY <1>y, <2>1, <2>3
  <2> QED BY <2>3, <2>4
<1>2. Calling'
  <2> SUFFICES ASSUME spc' \in {"off", "start"}, rpc = "hand"
               PROVE  U1 <= rtries + 1
    BY <1>r, <1>q DEF Calling
  <2>1. U <= rtries + 1
    BY <1>p, <1>q DEF Near, Calling
  <2> QED BY <1>g, <1>c, <2>1
<1>3. Offering'
  <2> SUFFICES ASSUME spc' = "name", rpc = "hand"
               PROVE  U1 + 2 * D1 <= F1 + r1
    BY <1>r, <1>q DEF Offering
  <2>0. ReceiverRuns
    BY DEF ReceiverRuns
  <2>1. CASE spc = "name" /\ Again
    <3>1. r1 = r + 1
      BY <2>1, <1>q DEF Again
    <3>2. U + 2 * D <= F + r
      BY <2>1, <1>q DEF Near, Offering
    <3>3. D1 <= D + 1
      BY <1>y, <1>w
    <3>4. CASE h = 1
      BY <1>x, <1>g, <1>v, <1>k, <1>c, <3>1, <3>2, <3>3, <3>4
    <3>5. CASE down' = down
      BY <1>w, <1>g, <1>k, <3>1, <3>2, <3>5
    <3>6. CASE late' = late + 1
      BY <1>x, <1>g, <1>v, <1>k, <1>c, <3>1, <3>2, <3>3, <3>6
    <3>7. CASE U = 0 /\ D = 0
      BY <1>x, <1>g, <1>v, <1>k, <1>c, <3>1, <3>3, <3>7
    <3> QED BY <1>x, <1>g, <1>v, <2>0, <3>4, <3>5, <3>6, <3>7
  <2>2. CASE spc = "start" /\ h = 1 /\ r1 = 0 /\ D = 0
    <3>1. U <= rtries + 1 /\ rtries <= HandshakeRetries
      BY <2>2, <1>q DEF Near, Calling, Base, ReceiverInv
    <3>2. D1 <= 1
      BY <1>y, <1>w, <2>2
    <3> QED BY <1>x, <1>g, <1>v, <1>k, <1>c, <2>2, <3>1, <3>2
  <2> QED BY <1>x, <1>g, <1>v, <2>1, <2>2
<1>4. NamesNear'
  <2> SUFFICES ASSUME rpc = "hand", NEW j \in 1 .. D1, down'[j].kind = "name"
               PROVE  NameNear(j)'
    BY <1>r, <1>q DEF NamesNear
  <2>0. ReceiverRuns /\ j \in Nat
    BY DEF ReceiverRuns
  <2>1. CASE spc' = "name"
    <3>1. U1 + 2 * D1 <= F1 + r1
      BY <1>3, <1>r, <2>1, <1>q DEF Offering
    <3>2. s1 = 0 /\ r1 <= BlockRetries
      BY <2>1, <1>q DEF Base, SenderInv, Sending
    <3>3. U1 + 2 * D1 <= K1
      BY <3>1, <3>2, <1>c
    <3>4. s1 + U1 + 2 * j <= K1 /\ U1 + D1 + j <= K1
      BY <3>2, <3>3
    <3>5. \A i \in 1 .. D1 : s1 + U1 + i + j <= K1 + down'[i].blk
      BY <3>2, <3>3, <1>z
    <3>6. s1 <= K1
      BY <3>2
    <3> QED BY <3>4, <3>5, <3>6, <1>q DEF NameNear
  <2>2. CASE spc' # "name"
    <3>1. j \in 1 .. D /\ down[j].kind = "name"
      BY <1>y, <1>w, <2>2
    <3>2. /\ s <= K
          /\ s + U + 2 * j <= K
          /\ spc \in Growing =>
               /\ U + D + j <= K
               /\ \A i \in 1 .. D : i >= j /\ down[i].kind \in Files =>
                    s + U + i + j <= K + down[i].blk
      BY <1>r, <3>1, <1>q DEF Near, NamesNear, NameNear
    <3>3. s1 <= K1 /\ s1 + U1 + 2 * j <= K1
      BY <1>x, <1>g, <1>v, <1>k, <2>0, <3>2
    <3>4. ASSUME spc' \in Growing
          PROVE  /\ U1 + D1 + j <= K1
                 /\ \A i \in 1 .. D1 : i >= j /\ down'[i].kind \in Files =>
                      s1 + U1 + i + j <= K1 + down'[i].blk
      <4>1. spc \in Growing /\ spc' # "done"
        BY <1>x, <1>g, <1>v, <2>2, <3>4 DEF Growing
      <4>2. U1 + D1 + K <= U + D + K1
        BY <1>s, <2>0, <3>1, <4>1
      <4>3. U1 + D1 + j <= K1
        BY <3>2, <4>1, <4>2, <2>0
      <4>4. ASSUME NEW i \in 1 .. D1, i >= j, down'[i].kind \in Files
            PROVE  s1 + U1 + i + j <= K1 + down'[i].blk
        <5>1. CASE i \in 1 .. D
          <6>1. down'[i] = down[i] /\ down[i].blk \in Nat
            BY <1>y, <1>w, <1>z, <5>1
          <6>2. s + U + i + j <= K + down[i].blk
            BY <3>2, <4>1, <4>4, <5>1, <6>1
          <6> QED BY <1>x, <1>g, <1>v, <1>k, <2>0, <6>1, <6>2
        <5>2. CASE i \notin 1 .. D
          <6>1. i = D + 1 /\ D1 = D + 1 /\ down'[i].blk = s1
            BY <1>y, <1>w, <1>f, <2>2, <4>4, <5>2
          <6> QED BY <4>3, <6>1, <2>0
        <5> QED BY <5>1, <5>2
      <4> QED BY <4>3, <4>4
    <3> QED BY <3>3, <3>4, <1>q DEF NameNear
  <2> QED BY <2>1, <2>2
<1>5. DataNear'
  <2> SUFFICES ASSUME rpc = "data", G # size
               PROVE  /\ s1 <= G + K1
                      /\ EndNear' /\ LineNear' /\ AnswersNear'
    BY <1>r, <1>q DEF DataNear
  <2>0. /\ ReceiverRuns /\ spc # "start" /\ spc # "off"
        /\ s <= G + K /\ EndNear /\ LineNear /\ AnswersNear
        /\ prompt = "C" => G = 0
    BY <1>q DEF ReceiverRuns, Near, DataNear, Base, SenderInv, ReceiverInv
  <2>g. spc' \in Growing => spc \in Growing
    BY <1>x, <1>g, <1>v, <2>0 DEF Growing
  <2>1. s1 <= G + K1
    <3>1. CASE s1 = s
      BY <3>1, <2>0, <1>k
    <3>2. CASE s1 = s + 1 /\ spc = "data" /\ up[1] = "ACK"
      <4>1. 1 \in 1 .. U
        BY <1>x, <1>g, <1>v, <3>2
      <4>2. s + 1 <= G + K
        BY <2>0, <3>2, <4>1, <1>q DEF AnswersNear, Growing
      <4> QED BY <3>2, <4>2, <1>k
    <3>3. CASE s1 = s + 1 /\ spc = "ask"
      <4>1. s = 0
        BY <3>3, <1>q DEF Base, SenderInv
      <4> QED BY <3>3, <4>1, <1>k
    <3> QED BY <1>x, <1>g, <1>v, <3>1, <3>2, <3>3
  <2>2. EndNear'
    <3> SUFFICES ASSUME spc' = "null" \/ \E i \in 1 .. D1 : down'[i].kind = "null"
                 PROVE  s1 <= K1
      BY <1>q DEF EndNear
    <3>1. spc' = "null" \/ \E i \in 1 .. D : down[i].kind = "null"
      BY <1>y, <1>w
    <3>2. CASE \E i \in 1 .. D : down[i].kind = "null"
      <4>1. s <= K /\ spc = "null"
        BY <2>0, <3>2, <1>r, <1>q DEF EndNear, Base, UnitInv, SenderRuns
      <4>2. s1 = s
        BY <1>x, <1>g, <1>v, <4>1
      <4> QED BY <4>1, <4>2, <1>k
    <3>3. CASE spc' = "null" /\ spc = "null"
      <4>1. s <= K
        BY <2>0, <3>3, <1>q DEF EndNear
      <4>2. s1 = s
        BY <1>x, <1>g, <1>v, <3>3
      <4> QED BY <4>1, <4>2, <1>k
    <3>4. CASE spc' = "null" /\ spc # "null"
      <4>1. h = 1 /\ up[1] = "C" /\ 1 \in 1 .. U
        BY <1>x, <1>g, <1>v, <3>4
      <4>2. s + 1 <= K + 1
        BY <2>0, <1>r, <4>1, <1>q DEF AnswersNear
      <4>3. s1 = s
        <5>1. SenderInv' /\ spc' = "null" /\ spc \notin {"ask", "data"}
          <6>1. ASSUME spc \in {"ask", "data"} PROVE FALSE
            BY <1>r, <3>4, <6>1, <1>q DEF SenderMoves, Stopped, Again, Idled, Advanced, Opened, Parted,
                                    Waited, Took, Finished
          <6> QED BY <3>4, <6>1, <1>q DEF Base
        <5> QED BY <1>x, <1>g, <1>v, <5>1
      <4> QED BY <4>2, <4>3, <1>k
    <3> QED BY <3>1, <3>2, <3>3, <3>4
  <2>3. LineNear'
    <3> SUFFICES ASSUME spc' \in Growing
                 PROVE  /\ U1 + D1 <= K1
                        /\ \A i \in 1 .. D1 : down'[i].kind \in Files =>
                             s1 + U1 + i <= K1 + down'[i].blk
      BY <1>q DEF LineNear
    <3>1. /\ U + D <= K
          /\ \A i \in 1 .. D : down[i].kind \in Files =>
               s + U + i <= K + down[i].blk
      BY <2>0, <2>g, <1>q DEF LineNear
    <3>2. U1 + D1 <= K1
      <4>1. CASE U = 0 /\ D = 0
        BY <4>1, <1>g, <1>k, <1>w
      <4>2. CASE ~(U = 0 /\ D = 0)
        <5>1. spc' # "done"
          BY DEF Growing
        <5> QED BY <1>s, <2>0, <3>1, <4>2, <5>1
      <4> QED BY <4>1, <4>2
    <3>3. ASSUME NEW i \in 1 .. D1, down'[i].kind \in Files
          PROVE  s1 + U1 + i <= K1 + down'[i].blk
      <4>1. CASE i \in 1 .. D
        <5>1. down'[i] = down[i] /\ down[i].blk \in Nat
          BY <1>y, <1>w, <1>z, <4>1
        <5>2. s + U + i <= K + down[i].blk
          BY <3>1, <3>3, <4>1, <5>1
        <5> QED BY <1>x, <1>g, <1>v, <1>k, <5>1, <5>2
      <4>2. CASE i \notin 1 .. D
        <5>1. i = D + 1 /\ D1 = D + 1
          BY <1>y, <1>w, <4>2
        <5>2. down'[i].blk = s1
          <6>1. CASE down'[i].kind = "name"
            <7>1. spc' = "name" /\ down'[i].blk = 0
              BY <1>y, <1>w, <4>2, <6>1, <1>q DEF Base, UnitInv
            <7> QED BY <7>1, <1>q DEF Base, SenderInv
          <6> QED BY <1>y, <1>w, <1>f, <3>3, <4>2, <6>1
        <5> QED BY <3>2, <5>1, <5>2
      <4> QED BY <4>1, <4>2
    <3> QED BY <3>2, <3>3
  <2>4. AnswersNear'
    <3>1. ASSUME spc' \in Growing, NEW i \in 1 .. U1, up'[i] = "ACK"
          PROVE  s1 + i <= G + K1
      <4>1. i + h \in 1 .. U /\ up[i + h] = "ACK" /\ spc \in Growing
        BY <1>x, <1>g, <1>v, <2>g, <3>1
      <4> DEFINE g == i + h
      <4>2. g \in 1 .. U /\ up[g] = "ACK"
        BY <4>1
      <4> HIDE DEF g
      <4>3. s + g <= G + K
        BY <2>0, <4>1, <4>2, <1>q DEF AnswersNear
      <4>4. s + i + h <= G + K
        BY <4>3 DEF g
      <4> QED BY <4>4, <1>x, <1>g, <1>v, <1>k
    <3>2. ASSUME NEW c \in 1 .. U1, up'[c] = "C"
          PROVE  s1 + c <= K1 + 1
      <4>1. c + h \in 1 .. U /\ up[c + h] = "C"
        BY <1>x, <1>g, <1>v, <3>2
      <4> DEFINE g == c + h
      <4>2. g \in 1 .. U /\ up[g] = "C"
        BY <4>1
      <4> HIDE DEF g
      <4>3. s + g <= K + 1
        BY <1>r, <2>0, <4>2, <1>q DEF AnswersNear
      <4>4. s + c + h <= K + 1
        BY <4>3 DEF g
      <4> QED BY <4>4, <1>x, <1>g, <1>v, <1>k
    <3>3. prompt = "C" => s1 + U1 <= K1 + 1
      <4>1. prompt = "C" => s + U <= K + 1
        BY <1>r, <2>0, <1>q DEF AnswersNear
      <4> QED BY <4>1, <1>x, <1>g, <1>v, <1>k
    <3> QED BY <1>r, <3>1, <3>2, <3>3, <1>q DEF AnswersNear
  <2> QED BY <2>1, <2>2, <2>3, <2>4
<1> QED BY <1>1, <1>2, <1>3, <1>4, <1>5, <1>q DEF Near

-----------------------------------------------------------------------------
(* The receiver's side of the lead.                                        *)

(* Nothing is counted once the sink has the file or the receiver is past it. *)
LEMMA NearPast ==
  ASSUME rpc' \notin {"off", "hand"}, ~(rpc' = "data" /\ Len(got') # size')
  PROVE  Near'
  BY DEF Near, Unborn, Calling, Offering, NamesNear, DataNear

LEMMA SameThins == Thinned(down, down, 0) \/ Len(down) \notin Nat
<1> SUFFICES ASSUME Len(down) \in Nat PROVE Thinned(down, down, 0)
  OBVIOUS
<1> DEFINE f == [i \in 1 .. Len(down) |-> i]
<1>1. f \in [1 .. Len(down) -> 1 .. Len(down)]
  OBVIOUS
<1>2. \A i \in 1 .. Len(down) : (down[i] = down[f[i]] \/ down[i] = Junk) /\ i + 0 <= f[i]
  OBVIOUS
<1>3. \A i, j \in 1 .. Len(down) : i < j => f[i] < f[j]
  OBVIOUS
<1> HIDE DEF f
<1> QED BY <1>1, <1>2, <1>3 DEF Thinned

(* What of the line was there before, and at least d places further on. *)
LEMMA ThinPlaces ==
  ASSUME Sorts, NEW d \in {0, 1}, Thinned(down', down, d)
  PROVE  \E f \in [1 .. Len(down') -> 1 .. Len(down)] :
           /\ \A i \in 1 .. Len(down') :
                /\ f[i] \in 1 .. Len(down) /\ i + d <= f[i]
                /\ down'[i].kind \in Files \cup {"null"} => down'[i] = down[f[i]]
           /\ \A i, j \in 1 .. Len(down') : j <= i => f[j] <= f[i]
<1>1. PICK f \in [1 .. Len(down') -> 1 .. Len(down)] :
        /\ \A i \in 1 .. Len(down') : (down'[i] = down[f[i]] \/ down'[i] = Junk) /\ i + d <= f[i]
        /\ \A i, j \in 1 .. Len(down') : i < j => f[i] < f[j]
  BY DEF Thinned
<1>2. Junk.kind \notin Files \cup {"null"}
  BY DEF Junk, Unit, Files
<1>3. \A i \in 1 .. Len(down') : f[i] \in 1 .. Len(down)
  BY <1>1
<1>4. \A i, j \in 1 .. Len(down') : j <= i => f[j] <= f[i]
  <2> SUFFICES ASSUME NEW i \in 1 .. Len(down'), NEW j \in 1 .. Len(down'), j <= i
               PROVE  f[j] <= f[i]
    OBVIOUS
  <2>1. f[i] \in Int /\ f[j] \in Int
    BY <1>3
  <2>2. CASE j = i
    BY <2>1, <2>2
  <2>3. CASE j < i
    BY <1>1, <2>1, <2>3
  <2> QED BY <2>2, <2>3
<1> QED BY <1>1, <1>2, <1>3, <1>4

LEMMA NearHand ==
  ASSUME LimitsAssumption, Base, Base', Near, rpc = "hand", rpc' = "hand", late' = late,
         UNCHANGED <<size, senderVars>>, NEW d \in {0, 1}, Thinned(down', down, d),
         Len(up') <= Len(up) + 2 * d, Len(down') + d <= Len(down), rtries <= rtries'
  PROVE  Near'
<1>n. /\ Budget \in Nat /\ Offers \in Nat /\ Len(up) \in Nat /\ Len(down) \in Nat /\ sblk \in Nat
      /\ stries \in Nat /\ rtries \in Nat
      /\ Len(up') \in Nat /\ Len(down') \in Nat /\ rtries' \in Nat
  BY Numbers, NumbersNext
<1>q. PICK K \in Nat, F \in Nat, U \in Nat, U1 \in Nat, D \in Nat, D1 \in Nat, s \in Nat, r \in Nat :
        /\ K = Budget /\ F = Offers
        /\ U = Len(up) /\ U1 = Len(up') /\ D = Len(down) /\ D1 = Len(down')
        /\ s = sblk /\ r = stries
  BY <1>n
<1>e. Budget' = K /\ Offers' = F /\ UNCHANGED <<spc, sblk, stries, SenderRuns>>
  BY <1>q DEF Budget, Offers, senderVars, SenderRuns
<1>m. PICK c \in Nat : c = d /\ (c = 0 \/ c = 1) /\ U1 <= U + c + c /\ D1 + c <= D
  BY <1>q
<1>1. Unborn' /\ DataNear'
  BY DEF Unborn, DataNear
<1>2. Calling'
  <2> SUFFICES ASSUME spc \in {"off", "start"} PROVE U1 <= rtries' + 1
    BY <1>e, <1>q, <1>n DEF Calling
  <2>1. U <= rtries + 1 /\ D = 0
    <3>1. down = <<>>
      BY DEF Base, SenderInv
    <3>2. Len(<<>>) = 0
      OBVIOUS
    <3> QED BY <1>q, <3>1, <3>2 DEF Near, Calling
  <2>2. U1 <= U
    BY <1>m, <2>1
  <2>3. PICK p \in Nat, p1 \in Nat : p = rtries /\ p1 = rtries' /\ p <= p1 /\ U <= p + 1
    BY <1>n, <2>1
  <2>a. \A a, b, k, e \in Nat : a <= b /\ b <= k + 1 /\ k <= e => a <= e + 1
    OBVIOUS
  <2>4. U1 <= p1 + 1
    BY <2>2, <2>3, <2>a, Zenon
  <2> QED BY <2>3, <2>4
<1>3. Offering'
  <2> SUFFICES ASSUME spc = "name" PROVE U1 + 2 * D1 <= F + r
    BY <1>e, <1>q DEF Offering
  <2>1. U + 2 * D <= F + r
    BY <1>q DEF Near, Offering
  <2> QED BY <1>m, <2>1
<1>4. NamesNear'
  <2>f. PICK f \in [1 .. Len(down') -> 1 .. Len(down)] :
          /\ \A i \in 1 .. Len(down') :
               /\ f[i] \in 1 .. Len(down) /\ i + d <= f[i]
               /\ down'[i].kind \in Files \cup {"null"} => down'[i] = down[f[i]]
          /\ \A i, j \in 1 .. Len(down') : j <= i => f[j] <= f[i]
    BY ThinPlaces DEF Base
  <2> SUFFICES ASSUME NEW j \in 1 .. Len(down'), down'[j].kind = "name"
               PROVE  NameNear(j)'
    BY DEF NamesNear
  <2>1. PICK m \in 1 .. Len(down) : m = f[j] /\ j + d <= m /\ down[m].kind = "name"
    BY <2>f DEF Files
  <2>p. PICK x \in Nat, y \in Nat : x = j /\ y = m
    BY <1>n
  <2>2. x = j /\ y = m /\ x + c <= y
    BY <1>m, <2>1, <2>p
  <2>3. /\ s <= K
        /\ SenderRuns => s + U + 2 * y <= K
        /\ spc \in Growing => U + D + y <= K
    BY <1>q, <2>1, <2>2 DEF Near, NamesNear, NameNear
  <2>4. ASSUME SenderRuns PROVE s + U1 + 2 * j <= K
    <3>1. s + U1 + 2 * x <= K
      BY <1>m, <2>2, <2>3, <2>4
    <3> QED BY <2>2, <3>1
  <2>5. ASSUME spc \in Growing PROVE U1 + D1 + j <= K
    <3>1. U1 + D1 + x <= K
      BY <1>m, <2>2, <2>3, <2>5
    <3> QED BY <2>2, <3>1
  <2>6. ASSUME spc \in Growing, NEW i \in 1 .. Len(down'), i >= j, down'[i].kind \in Files
        PROVE  s + U1 + i + j <= K + down'[i].blk
    <3>1. PICK g \in 1 .. Len(down) : g = f[i] /\ i + d <= g /\ m <= g /\ down'[i] = down[g]
      BY <2>f, <2>1, <2>6
    <3>2. s + U + g + m <= K + down[g].blk
      BY <1>q, <2>1, <2>6, <3>1 DEF Near, NamesNear, NameNear
    <3>a. i \in Nat
      BY <1>n
    <3>b. g \in Nat
      BY <1>n
    <3>p. PICK v \in Nat, w \in Nat : v = i /\ w = g
      BY <3>a, <3>b, Zenon
    <3>3. v = i /\ w = g /\ v + c <= w
      BY <1>m, <3>1, <3>p
    <3>4. PICK b \in Nat : b = down[g].blk
      BY UnitNat DEF Base
    <3>5. s + U + w + y <= K + b
      BY <2>2, <3>2, <3>3, <3>4
    <3>6. s + U1 + v + x <= K + b
      BY <1>m, <2>2, <3>3, <3>5
    <3> QED BY <2>2, <3>1, <3>3, <3>4, <3>6
  <2> QED BY <1>e, <1>q, <2>3, <2>4, <2>5, <2>6 DEF NameNear
<1> QED BY <1>1, <1>2, <1>3, <1>4 DEF Near

LEMMA NearHandWaits ==
  ASSUME LimitsAssumption, Base, Base', Near, HandBad, down' = down,
         UNCHANGED <<size, senderVars>>,
         \/ ReceiverQuiet /\ late' = late
         \/ late' = late + 1
  PROVE  Near'
<1>n. /\ Budget \in Nat /\ Offers \in Nat /\ Len(up) \in Nat /\ Len(down) \in Nat /\ sblk \in Nat
      /\ stries \in Nat /\ rtries \in Nat /\ HandshakeRetries \in Nat
      /\ HandshakeRetries + 2 <= Offers
      /\ late' = late + 1 => Budget' = Budget + 2 /\ Offers' = Offers + 2
      /\ Budget' \in Nat /\ Offers' \in Nat
  BY Numbers, NumbersNext
<1>0. rpc = "hand" /\ rpc' = "hand" /\ rtries' = rtries + 1 /\ Len(up') = Len(up) + 1
  <2>1. up \in Seq(Answers) /\ "C" \in Answers
    BY DEF Base, Sorts, Answers
  <2>2. Len(up \o <<"C">>) = Len(up) + 1
    BY <2>1, OneMore
  <2> QED BY <2>2 DEF HandBad
<1>q. PICK K \in Nat, F \in Nat, F1 \in Nat, U \in Nat, D \in Nat, s \in Nat, r \in Nat :
        /\ K = Budget /\ F = Offers /\ F1 = Offers'
        /\ U = Len(up) /\ D = Len(down) /\ s = sblk /\ r = stries
  BY <1>n
<1>e. UNCHANGED <<spc, sblk, stries, SenderRuns>>
  BY DEF senderVars, SenderRuns
<1>1. Unborn' /\ DataNear'
  BY <1>0 DEF Unborn, DataNear
<1>2. Calling'
  BY <1>0, <1>e, <1>n DEF Near, Calling
<1>3. Offering'
  <2> SUFFICES ASSUME spc = "name" PROVE (U + 1) + 2 * D <= F1 + r
    BY <1>0, <1>e, <1>q DEF Offering
  <2>1. CASE late' = late + 1
    <3>1. U + 2 * D <= F + r /\ F1 = F + 2
      BY <1>0, <1>n, <1>q, <2>1 DEF Near, Offering
    <3> QED BY <3>1
  <2>2. CASE ReceiverQuiet /\ late' = late
    <3>1. D = 0 /\ U = 0 /\ F1 = F
      <4>1. down = <<>> /\ up = <<>>
        BY <2>2 DEF ReceiverQuiet, SenderRuns
      <4>2. Len(<<>>) = 0
        OBVIOUS
      <4> QED BY <1>q, <2>2, <4>1, <4>2 DEF Offers
    <3>2. 2 <= F
      BY <1>n, <1>q
    <3> QED BY <3>1, <3>2
  <2> QED BY <2>1, <2>2
<1>4. NamesNear'
  <2> SUFFICES ASSUME NEW j \in 1 .. Len(down), down[j].kind = "name" PROVE NameNear(j)'
    BY DEF NamesNear
  <2>1. late' = late + 1
    <3>1. down # <<>>
      <4>1. Len(<<>>) = 0
        OBVIOUS
      <4> QED BY <1>n, <4>1
    <3> QED BY <3>1 DEF ReceiverQuiet
  <2>2. Budget' = K + 2 /\ j \in Nat
    BY <1>n, <1>q, <2>1
  <2>3. /\ s <= K
        /\ SenderRuns => s + U + 2 * j <= K
        /\ spc \in Growing =>
             /\ U + D + j <= K
             /\ \A i \in 1 .. Len(down) : i >= j /\ down[i].kind \in Files =>
                  s + U + i + j <= K + down[i].blk
    BY <1>0, <1>q DEF Near, NamesNear, NameNear
  <2>4. /\ s <= K + 2
        /\ SenderRuns => s + (U + 1) + 2 * j <= K + 2
        /\ spc \in Growing => (U + 1) + D + j <= K + 2
    BY <2>2, <2>3
  <2>5. ASSUME spc \in Growing, NEW i \in 1 .. Len(down), i >= j, down[i].kind \in Files
        PROVE  s + (U + 1) + i + j <= (K + 2) + down[i].blk
    <3>1. PICK b \in Nat : b = down[i].blk
      BY UnitNat DEF Base
    <3>2. s + U + i + j <= K + b
      BY <2>3, <2>5, <3>1
    <3>3. s + (U + 1) + i + j <= (K + 2) + b
      BY <2>2, <3>2
    <3> QED BY <3>1, <3>3
  <2> QED BY <1>0, <1>e, <1>q, <2>2, <2>4, <2>5 DEF NameNear
<1> QED BY <1>1, <1>2, <1>3, <1>4 DEF Near

(* The name is read and answered with an ACK and a 'C'. *)
LEMMA NearNamed ==
  ASSUME LimitsAssumption, Base, Base', Near, Named, late' = late, down # <<>>,
         down[1].kind = "name", Thinned(down', down, 1), Len(down') + 1 <= Len(down),
         UNCHANGED <<size, senderVars>>
  PROVE  Near'
<1>n. /\ Budget \in Nat /\ Len(up) \in Nat /\ Len(down) \in Nat /\ sblk \in Nat
      /\ Len(down') \in Nat /\ 1 \in 1 .. Len(down)
  BY Numbers, NumbersNext, HeadUnit DEF Base
<1>0. /\ rpc = "hand" /\ rpc' = "data" /\ Len(got) = 0 /\ Len(got') = 0 /\ prompt' = prompt
      /\ Len(up') = Len(up) + 2
      /\ \A i \in 1 .. Len(up) : up'[i] = up[i]
      /\ UNCHANGED <<spc, sblk, SenderRuns>>
  <2>1. up \in Seq(Answers) /\ "C" \in Answers /\ "ACK" \in Answers
    BY DEF Base, Sorts, Answers
  <2>2. /\ Len(up \o <<"ACK", "C">>) = Len(up) + 2
        /\ \A i \in 1 .. Len(up) : (up \o <<"ACK", "C">>)[i] = up[i]
    BY <2>1, TwoMore
  <2> QED BY <2>2 DEF Named, Base, ReceiverInv, senderVars, SenderRuns
<1>q. PICK K \in Nat, U \in Nat, D \in Nat, D1 \in Nat, s \in Nat :
        K = Budget /\ U = Len(up) /\ D = Len(down) /\ D1 = Len(down') /\ s = sblk
  BY <1>n
<1>e. Budget' = K
  BY <1>q DEF Budget, Offers
<1>1. /\ s <= K
      /\ SenderRuns => s + U + 2 <= K
      /\ spc \in Growing =>
           /\ U + D + 1 <= K
           /\ \A i \in 1 .. Len(down) : down[i].kind \in Files =>
                s + U + i + 1 <= K + down[i].blk
  <2>1. NameNear(1)
    BY <1>n, <1>0 DEF Near, NamesNear
  <2>2. \A i \in 1 .. Len(down) : i >= 1
    OBVIOUS
  <2> QED BY <2>1, <2>2, <1>q DEF NameNear
<1>g. spc \in Growing => SenderRuns
  BY DEF Growing, SenderRuns
<1>2. LineNear'
  <2> SUFFICES ASSUME spc \in Growing
               PROVE  /\ (U + 2) + D1 <= K
                      /\ \A i \in 1 .. Len(down') : down'[i].kind \in Files =>
                           s + (U + 2) + i <= K + down'[i].blk
    BY <1>0, <1>e, <1>q DEF LineNear
  <2>1. D1 + 1 <= D
    BY <1>q
  <2>2. (U + 2) + D1 <= K
    BY <1>1, <2>1
  <2>f. PICK f \in [1 .. Len(down') -> 1 .. Len(down)] :
          /\ \A i \in 1 .. Len(down') :
               /\ f[i] \in 1 .. Len(down) /\ i + 1 <= f[i]
               /\ down'[i].kind \in Files \cup {"null"} => down'[i] = down[f[i]]
          /\ \A i, j \in 1 .. Len(down') : j <= i => f[j] <= f[i]
    BY ThinPlaces DEF Base
  <2>3. ASSUME NEW i \in 1 .. Len(down'), down'[i].kind \in Files
        PROVE  s + (U + 2) + i <= K + down'[i].blk
    <3>1. PICK g \in 1 .. Len(down) : g = f[i] /\ i + 1 <= g /\ down'[i] = down[g]
      BY <2>f, <2>3
    <3>2. s + U + g + 1 <= K + down[g].blk
      BY <1>1, <2>3, <3>1
    <3>3. PICK b \in Nat : b = down[g].blk
      BY UnitNat DEF Base
    <3>4. i \in Nat
      BY <1>n
    <3>5. g \in Nat
      BY <1>n
    <3>6. \A x, y \in Nat : x + 1 <= y /\ s + U + y + 1 <= K + b => s + (U + 2) + x <= K + b
      OBVIOUS
    <3> QED BY <3>1, <3>2, <3>3, <3>4, <3>5, <3>6
  <2> QED BY <2>2, <2>3
<1>3. AnswersNear'
  <2>u. PICK U1 \in Nat : U1 = U + 2 /\ U1 = Len(up')
    BY <1>0, <1>q
  <2>1. ASSUME SenderRuns, NEW i \in 1 .. U1 PROVE s + i <= K
    BY <1>1, <2>1, <2>u
  <2>2. SenderRuns => s + U1 <= K + 1
    BY <1>1, <2>u
  <2>3. ASSUME SenderRuns, NEW i \in 1 .. U1 PROVE s + i <= K + 1
    BY <2>1, <2>3
  <2> QED BY <1>0, <1>e, <1>g, <1>q, <2>u, <2>1, <2>2, <2>3 DEF AnswersNear
<1>4. Unborn' /\ Calling' /\ Offering' /\ NamesNear'
  BY <1>0 DEF Unborn, Calling, Offering, NamesNear
<1>5. sblk' <= Len(got') + Budget' /\ EndNear'
  BY <1>0, <1>e, <1>q, <1>1 DEF EndNear
<1> QED BY <1>2, <1>3, <1>4, <1>5 DEF Near, DataNear

LEMMA NearData ==
  ASSUME LimitsAssumption, Base, Base', Near, rpc = "data", rpc' = "data",
         Len(got) # size, Len(got) <= Len(got'), late' = late,
         UNCHANGED <<size, senderVars>>,
         NEW d \in {0, 1}, Thinned(down', down, d),
         Len(up') <= Len(up) + d, Len(down') + d <= Len(down),
         spc \in Growing =>
           \A i \in 1 .. Len(up') : up'[i] = "ACK" => sblk + i <= Len(got') + Budget,
         \A i \in 1 .. Len(up') : up'[i] = "C" =>
           \E g \in 1 .. Len(up) : i <= g /\ up[g] = "C",
         prompt' = "C" => prompt = "C" /\ Len(up') <= Len(up)
  PROVE  Near'
<1>n. /\ Budget \in Nat /\ Len(up) \in Nat /\ Len(down) \in Nat /\ sblk \in Nat /\ Len(got) \in Nat
      /\ Len(down') \in Nat /\ Len(up') \in Nat /\ Len(got') \in Nat
  BY Numbers, NumbersNext
<1>e. UNCHANGED <<spc, sblk, Budget, SenderRuns>>
  BY DEF Budget, Offers, senderVars, SenderRuns
<1>0. sblk <= Len(got) + Budget /\ EndNear /\ LineNear /\ AnswersNear
  BY DEF Near, DataNear
<1>f. PICK f \in [1 .. Len(down') -> 1 .. Len(down)] :
        /\ \A i \in 1 .. Len(down') :
             /\ f[i] \in 1 .. Len(down) /\ i + d <= f[i]
             /\ down'[i].kind \in Files \cup {"null"} => down'[i] = down[f[i]]
        /\ \A i, j \in 1 .. Len(down') : j <= i => f[j] <= f[i]
  BY ThinPlaces DEF Base
<1>1. sblk' <= Len(got') + Budget'
  <2>1. \A s, g, h, k \in Nat : s <= g + k /\ g <= h => s <= h + k
    OBVIOUS
  <2> QED BY <1>0, <1>e, <1>n, <2>1
<1>2. EndNear'
  <2>1. ASSUME NEW i \in 1 .. Len(down'), down'[i].kind = "null"
        PROVE  \E g \in 1 .. Len(down) : down[g].kind = "null"
    BY <1>f, <2>1
  <2> QED BY <1>0, <1>e, <2>1 DEF EndNear
<1>3. LineNear'
  <2> SUFFICES ASSUME spc \in Growing
               PROVE  /\ Len(up') + Len(down') <= Budget
                      /\ \A i \in 1 .. Len(down') : down'[i].kind \in Files =>
                           sblk + Len(up') + i <= Budget + down'[i].blk
    BY <1>e DEF LineNear
  <2>1. Len(up') + Len(down') <= Budget
    <3>1. Len(up) + Len(down) <= Budget
      BY <1>0 DEF LineNear
    <3>2. \A u, v, x, y, c, k \in Nat : v <= u + c /\ y + c <= x /\ u + x <= k => v + y <= k
      OBVIOUS
    <3>3. d \in Nat
      OBVIOUS
    <3> QED BY <1>n, <3>1, <3>2, <3>3
  <2>2. ASSUME NEW i \in 1 .. Len(down'), down'[i].kind \in Files
        PROVE  sblk + Len(up') + i <= Budget + down'[i].blk
    <3>1. PICK g \in 1 .. Len(down) : g = f[i] /\ i + d <= g /\ down'[i] = down[g]
      BY <1>f, <2>2
    <3>2. sblk + Len(up) + g <= Budget + down[g].blk
      BY <1>0, <2>2, <3>1 DEF LineNear
    <3>3. down[g].blk \in Nat
      BY UnitNat DEF Base
    <3>4. i \in Nat /\ g \in Nat /\ d \in Nat
      BY <1>n
    <3>5. \A s, u, v, c, x, y, k, b \in Nat :
            v <= u + c /\ x + c <= y /\ s + u + y <= k + b => s + v + x <= k + b
      OBVIOUS
    <3> QED BY ONLY <1>n, <3>1, <3>2, <3>3, <3>4, <3>5, Len(up') <= Len(up) + d
  <2> QED BY <2>1, <2>2
<1>4. AnswersNear'
  <2>1. ASSUME SenderRuns, NEW c \in 1 .. Len(up'), up'[c] = "C"
        PROVE  sblk + c <= Budget + 1
    <3>1. PICK g \in 1 .. Len(up) : c <= g /\ up[g] = "C"
      BY <2>1
    <3>2. sblk + g <= Budget + 1
      BY <1>0, <2>1, <3>1 DEF AnswersNear
    <3>3. c \in Nat /\ g \in Nat
      BY <1>n
    <3>4. \A s, x, y, k \in Nat : x <= y /\ s + y <= k + 1 => s + x <= k + 1
      OBVIOUS
    <3> QED BY <1>n, <3>1, <3>2, <3>3, <3>4
  <2>2. ASSUME SenderRuns, prompt' = "C"
        PROVE  sblk + Len(up') <= Budget + 1
    <3>1. sblk + Len(up) <= Budget + 1
      BY <1>0, <2>2 DEF AnswersNear
    <3>2. \A s, x, y, k \in Nat : x <= y /\ s + y <= k + 1 => s + x <= k + 1
      OBVIOUS
    <3> QED BY <1>n, <2>2, <3>1, <3>2
  <2> QED BY <1>e, <2>1, <2>2 DEF AnswersNear
<1>5. Unborn' /\ Calling' /\ Offering' /\ NamesNear'
  BY DEF Unborn, Calling, Offering, NamesNear
<1> QED BY <1>1, <1>2, <1>3, <1>4, <1>5 DEF Near, DataNear

LEMMA NearPrompted ==
  ASSUME LimitsAssumption, Base, Base', Near, Prompted, down' = down,
         UNCHANGED <<size, senderVars>>, Len(got) # size,
         \/ ReceiverQuiet /\ late' = late
         \/ late' = late + 1
  PROVE  Near'
<1>n. /\ Budget \in Nat /\ Budget >= 2 /\ Len(up) \in Nat /\ Len(down) \in Nat /\ sblk \in Nat
      /\ Len(got) \in Nat
      /\ Budget' \in Nat /\ Budget <= Budget' /\ (late' = late + 1 => Budget' = Budget + 2)
  BY Numbers, NumbersNext
<1>0. /\ rpc = "data" /\ rpc' = "data" /\ got' = got /\ prompt' = prompt
      /\ prompt \in {"C", "NAK"} /\ (prompt = "C" => Len(got) = 0)
      /\ Len(up') = Len(up) + 1 /\ up'[Len(up) + 1] = prompt
      /\ \A i \in 1 .. Len(up) : up'[i] = up[i]
      /\ UNCHANGED <<spc, sblk, SenderRuns>>
  <2>1. up \in Seq(Answers) /\ prompt \in Answers /\ prompt \in {"C", "NAK"}
    BY DEF Base, Sorts, Answers
  <2>2. /\ Len(up \o <<prompt>>) = Len(up) + 1
        /\ \A i \in 1 .. Len(up) : (up \o <<prompt>>)[i] = up[i]
        /\ (up \o <<prompt>>)[Len(up) + 1] = prompt
    BY <2>1, OneMore
  <2> QED BY <2>1, <2>2 DEF Prompted, Base, ReceiverInv, senderVars, SenderRuns
<1>q. PICK K \in Nat, K1 \in Nat, U \in Nat, D \in Nat, G \in Nat, s \in Nat :
        K = Budget /\ K1 = Budget' /\ U = Len(up) /\ D = Len(down) /\ G = Len(got) /\ s = sblk
  BY <1>n
<1>g. spc \in Growing => SenderRuns
  BY DEF Growing, SenderRuns
<1>1. /\ s <= G + K /\ EndNear
      /\ spc \in Growing =>
           /\ U + D <= K
           /\ \A i \in 1 .. D : down[i].kind \in Files => s + U + i <= K + down[i].blk
           /\ \A i \in 1 .. U : up[i] = "ACK" => s + i <= G + K
      /\ SenderRuns =>
           /\ \A i \in 1 .. U : up[i] = "C" => s + i <= K + 1
           /\ prompt = "C" => s + U <= K + 1
  BY <1>0, <1>q DEF Near, DataNear, LineNear, AnswersNear
<1>k. 2 <= K /\ K <= K1
  BY <1>n, <1>q
<1>2. SenderRuns => \/ K1 = K + 2
                    \/ U = 0 /\ D = 0
  <2>1. Len(<<>>) = 0
    OBVIOUS
  <2> QED BY <1>n, <1>q, <2>1 DEF ReceiverQuiet
<1>3. EndNear'
  BY <1>0, <1>1, <1>k, <1>q DEF EndNear
<1>4. LineNear'
  <2> SUFFICES ASSUME spc \in Growing
               PROVE  /\ (U + 1) + D <= K1
                      /\ \A i \in 1 .. D : down[i].kind \in Files =>
                           s + (U + 1) + i <= K1 + down[i].blk
    BY <1>0, <1>q DEF LineNear
  <2>1. (U + 1) + D <= K1
    BY <1>1, <1>2, <1>g, <1>k
  <2>2. ASSUME NEW i \in 1 .. D, down[i].kind \in Files
        PROVE  s + (U + 1) + i <= K1 + down[i].blk
    <3>1. PICK b \in Nat : b = down[i].blk
      BY <1>q, UnitNat DEF Base
    <3>2. s + U + i <= K + b
      BY <1>1, <2>2, <3>1
    <3>3. s + (U + 1) + i <= K1 + b
      BY <1>2, <1>g, <3>2
    <3> QED BY <3>1, <3>3
  <2> QED BY <2>1, <2>2
<1>5. AnswersNear'
  <2>u. PICK U1 \in Nat : U1 = U + 1 /\ U1 = Len(up')
    BY <1>0, <1>q
  <2>v. \A i \in 1 .. U1 : (i \in 1 .. U /\ up'[i] = up[i]) \/ (i = U + 1 /\ up'[i] = prompt)
    BY <1>0, <1>q, <2>u
  <2>1. ASSUME spc \in Growing, NEW i \in 1 .. U1, up'[i] = "ACK"
        PROVE  s + i <= G + K1
    <3>1. i \in 1 .. U /\ up[i] = "ACK"
      BY <1>0, <2>1, <2>v
    <3>2. s + i <= G + K
      BY <1>1, <2>1, <3>1
    <3> QED BY <1>k, <3>1, <3>2
  <2>2. ASSUME SenderRuns, prompt = "C" PROVE s + U1 <= K1 + 1
    <3>1. CASE K1 = K + 2
      BY ONLY <1>1, <2>2, <2>u, <3>1, U \in Nat, K \in Nat, s \in Nat
    <3>2. CASE U = 0 /\ D = 0
      <4>1. G = 0
        BY <1>0, <1>q, <2>2
      <4> QED BY <1>1, <1>k, <2>u, <3>2, <4>1
    <3> QED BY <1>2, <2>2, <3>1, <3>2
  <2>3. ASSUME SenderRuns, NEW i \in 1 .. U1, up'[i] = "C"
        PROVE  s + i <= K1 + 1
    <3>1. CASE i \in 1 .. U /\ up[i] = "C"
      <4>1. s + i <= K + 1
        BY <1>1, <2>3, <3>1
      <4> QED BY <1>k, <3>1, <4>1
    <3>2. CASE i = U + 1 /\ prompt = "C"
      BY <2>2, <2>3, <2>u, <3>2
    <3> QED BY <2>3, <2>v, <3>1, <3>2
  <2> QED BY <1>0, <1>q, <2>u, <2>1, <2>2, <2>3 DEF AnswersNear
<1>6. Unborn' /\ Calling' /\ Offering' /\ NamesNear'
  BY <1>0 DEF Unborn, Calling, Offering, NamesNear
<1>7. sblk' <= Len(got') + Budget'
  <2>1. s <= G + K1
    BY <1>1, <1>k
  <2> QED BY <1>0, <1>q, <2>1
<1> QED BY <1>3, <1>4, <1>5, <1>6, <1>7 DEF Near, DataNear

-----------------------------------------------------------------------------
(* With fewer blocks ahead than there are numbers, a number means its block. *)

(* The block the sink takes is the one that is due, and the one it takes    *)
(* for a repetition is its last.                                            *)
LEMMA TakenIsDue ==
  ASSUME LimitsAssumption, Base, Flow, Near, Budget + 1 < SeqSpace,
         rpc = "data", Len(got) # size, down # <<>>, down[1].kind \in Files
  PROVE  /\ InOrder(down[1]) => down[1].blk = Len(got) + 1
         /\ Repeated(down[1]) => down[1].blk = Len(got)
<1>n. /\ Budget \in Nat /\ Len(got) \in Nat /\ sblk \in Nat /\ SeqSpace \in Nat /\ SeqSpace > 1
      /\ 1 \in 1 .. Len(down) /\ down[1].blk \in Nat
  <2>1. 1 \in 1 .. Len(down)
    BY HeadUnit DEF Base
  <2> QED BY <2>1, Numbers, RetriesNat, UnitNat DEF Base
<1>q. PICK K \in Nat, G \in Nat, S \in Nat, b \in Nat :
        /\ K = Budget /\ G = Len(got) /\ S = SeqSpace /\ b = down[1].blk
  BY <1>n
<1>1. G <= b /\ b <= G + K /\ K + 1 < S /\ S > 1
  <2>1. b <= sblk
    BY <1>n, <1>q DEF Base, UnitInv
  <2>2. sblk <= G + K
    BY <1>q DEF Near, DataNear
  <2>3. b <= G + K
    BY <1>n, <1>q, <2>1, <2>2
  <2> QED BY <1>n, <1>q, <2>3 DEF Flow
<1>2. expect = (G + 1) % S
  BY <1>q DEF Base, ReceiverInv, Due
<1>3. ASSUME InOrder(down[1]) PROVE b = G + 1
  <2>1. G + 1 <= b
    BY <1>n, <1>q, <1>3, NewIsNew
  <2>2. b % S = (G + 1) % S
    BY <1>2, <1>3, <1>q DEF InOrder, SeqNo
  <2> DEFINE m == G + 1
  <2>3. m \in Nat /\ m <= b /\ b - m < S
    BY <1>1, <2>1
  <2>4. m % S = b % S
    BY <2>2
  <2> HIDE DEF m
  <2>5. m = b
    BY <1>1, <2>3, <2>4, ModApart
  <2> QED BY <2>5 DEF m
<1>4. ASSUME Repeated(down[1]) PROVE b = G
  <2>1. b % S = (((G + 1) % S) + S - 1) % S
    BY <1>2, <1>4, <1>q DEF Repeated, SeqNo
  <2>2. G % S = b % S
    BY <1>1, <2>1, ModPred
  <2>3. b - G < S
    BY <1>1
  <2> QED BY <1>1, <2>2, <2>3, ModApart
<1> QED BY <1>q, <1>3, <1>4

(* The empty name that closes the batch is no block of the file. *)
LEMMA NullIsNotDue ==
  ASSUME LimitsAssumption, Base, Flow, Near, Budget + 1 < SeqSpace,
         rpc = "data", Len(got) # size,
         spc = "null" \/ \E i \in 1 .. Len(down) : down[i].kind = "null"
  PROVE  expect # 0
<1>n. Budget \in Nat /\ Len(got) \in Nat /\ sblk \in Nat /\ SeqSpace \in Nat /\ SeqSpace > 1
  BY Numbers, RetriesNat
<1>1. sblk <= Budget
  BY DEF Near, DataNear, EndNear
<1>2. Len(got) <= sblk
  BY DEF Flow
<1>3. PICK m \in 0 .. SeqSpace - 1 : m = Len(got) + 1 /\ m # 0
  BY <1>n, <1>1, <1>2
<1>4. m % SeqSpace = m
  BY <1>n, <1>3, ModSmall
<1> QED BY <1>3, <1>4 DEF Base, ReceiverInv, Due

LEMMA NullIsKept ==
  ASSUME LimitsAssumption, Base, Flow, Near, Budget + 1 < SeqSpace
  PROVE  NullWaits
<1> SUFFICES ASSUME rpc = "data", Len(got) # size, down # <<>>, down[1].kind = "null"
             PROVE  expect # 0
  BY DEF NullWaits
<1>1. 1 \in 1 .. Len(down)
  BY HeadUnit DEF Base
<1> QED BY <1>1, NullIsNotDue

(* A block is answered; the answer is due if it lets the sender go on. *)
LEMMA NearAnswered ==
  ASSUME LimitsAssumption, Base, Base', Near, Len(got) # size,
         NEW a \in {"ACK", "NAK"}, DataSays(a), late' = late,
         UNCHANGED <<size, senderVars>>, Len(got) <= Len(got'),
         Thinned(down', down, 1), Len(down') + 1 <= Len(down),
         a = "ACK" /\ spc \in Growing => sblk + (Len(up) + 1) <= Len(got') + Budget
  PROVE  Near'
<1>n. /\ Budget \in Nat /\ Len(up) \in Nat /\ sblk \in Nat /\ Len(got) \in Nat /\ Len(got') \in Nat
  BY Numbers, NumbersNext
<1>1. /\ rpc = "data" /\ rpc' = "data" /\ prompt' # "C"
      /\ Len(up') = Len(up) + 1 /\ up'[Len(up) + 1] = a
      /\ \A i \in 1 .. Len(up) : up'[i] = up[i]
  <2>1. up \in Seq(Answers) /\ a \in Answers
    BY DEF Base, Sorts, Answers
  <2> QED BY <2>1, OneMore DEF DataSays
<1>2. \A i \in 1 .. Len(up') : (i \in 1 .. Len(up) /\ up'[i] = up[i]) \/ (i = Len(up) + 1 /\ up'[i] = a)
  BY <1>n, <1>1
<1>3. ASSUME spc \in Growing, NEW i \in 1 .. Len(up'), up'[i] = "ACK"
      PROVE  sblk + i <= Len(got') + Budget
  <2>1. CASE i \in 1 .. Len(up) /\ up[i] = "ACK"
    <3>1. sblk + i <= Len(got) + Budget
      BY <1>1, <1>3, <2>1 DEF Near, DataNear, AnswersNear
    <3>2. i \in Nat
      BY <1>n, <2>1
    <3>3. \A s, x, g, h, k \in Nat : s + x <= g + k /\ g <= h => s + x <= h + k
      OBVIOUS
    <3> QED BY <1>n, <3>1, <3>2, <3>3
  <2>2. CASE i = Len(up) + 1 /\ a = "ACK"
    BY <1>3, <2>2
  <2> QED BY <1>2, <1>3, <2>1, <2>2
<1>4. ASSUME NEW i \in 1 .. Len(up'), up'[i] = "C"
      PROVE  \E g \in 1 .. Len(up) : i <= g /\ up[g] = "C"
  <2>1. i \in 1 .. Len(up) /\ up[i] = "C"
    BY <1>2, <1>4
  <2>2. i <= i
    BY <1>n, <2>1
  <2> QED BY <2>1, <2>2
<1>5. Len(up') <= Len(up) + 1
  BY <1>n, <1>1
<1> QED BY <1>1, <1>3, <1>4, <1>5, NearData

LEMMA NearBlock ==
  ASSUME LimitsAssumption, Base, Base', Near, Flow, Budget + 1 < SeqSpace,
         Len(got) # size, rpc' = "data", Len(got') # size', down # <<>>,
         DataOld(down[1]) \/ DataNew(down[1]), down[1].kind \in Blocks,
         late' = late, UNCHANGED <<size, senderVars>>,
         Thinned(down', down, 1), Len(down') + 1 <= Len(down)
  PROVE  Near'
<1>n. /\ Budget \in Nat /\ Len(up) \in Nat /\ sblk \in Nat /\ Len(got) \in Nat
      /\ 1 \in 1 .. Len(down) /\ down[1] \in Units /\ down[1].blk \in Nat
  <2>1. 1 \in 1 .. Len(down)
    BY HeadUnit DEF Base
  <2> QED BY <2>1, Numbers, UnitNat DEF Base
<1>0. DataSays("ACK") /\ rpc = "data" /\ LineNear
  BY DEF DataOld, DataNew, DataSays, Near, DataNear
<1>1. /\ DataOld(down[1]) => got' = got /\ Repeated(down[1])
      /\ DataNew(down[1]) => Len(got') = Len(got) + 1 /\ InOrder(down[1])
  BY <1>n, DeliveredDoes DEF DataOld, DataNew, Base, ReceiverInv
<1>2. CASE down[1].kind \in Files
  <2>1. down[1].blk = Len(got')
    BY <1>0, <1>1, <1>2, TakenIsDue
  <2>2. spc \in Growing => sblk + Len(up) + 1 <= Budget + down[1].blk
    BY <1>0, <1>2, <1>n DEF LineNear
  <2>3. \A s, u, k, b \in Nat : s + u + 1 <= k + b => s + (u + 1) <= b + k
    OBVIOUS
  <2>4. spc \in Growing => sblk + (Len(up) + 1) <= Len(got') + Budget
    BY <1>n, <2>1, <2>2, <2>3
  <2>5. Len(got) <= Len(got')
    BY <1>1, <1>n
  <2> QED BY <1>0, <2>4, <2>5, NearAnswered
<1>3. CASE down[1].kind = "null"
  <2>1. spc \notin Growing /\ down[1].blk = 0
    BY <1>3, <1>n DEF Base, UnitInv, Growing
  <2>2. Len(got) <= Len(got')
    BY <1>1, <1>n
  <2> QED BY <1>0, <2>1, <2>2, NearAnswered
<1> QED BY <1>2, <1>3 DEF Blocks, Files

LEMMA NearReads ==
  ASSUME LimitsAssumption, Base, Base', Near, Flow, Budget + 1 < SeqSpace, ReceiverReads,
         Len(got) = size => Len(got') = size'
  PROVE  Near'
<1>1. /\ down # <<>> /\ Thinned(down', down, 1) /\ Len(down') + 1 <= Len(down)
      /\ UNCHANGED <<size, senderVars>> /\ late' = late /\ ReceiverRuns
      /\ \/ Ended \/ HandBad \/ DataBad \/ Closing
         \/ Silent \/ HandEot
         \/ Named /\ down[1].kind = "name"
         \/ DataOld(down[1]) /\ down[1].kind \in Blocks
         \/ DataNew(down[1]) /\ down[1].kind \in Blocks
  BY ReceiverReadsDoes DEF Base
<1>n. /\ Len(up) \in Nat /\ rtries \in Nat /\ up \in Seq(Answers) /\ {"C", "ACK", "NAK"} \subseteq Answers
      /\ Len(got) \in Nat
  BY ONLY Base DEF Base, Sorts, Answers
<1>2. CASE rpc' \notin {"off", "hand"} /\ ~(rpc' = "data" /\ Len(got') # size')
  BY <1>2, NearPast
<1>3. CASE Ended \/ Closing
  BY <1>2, <1>3 DEF Ended, Closing
<1>4. CASE HandBad
  <2>1. /\ Len(up') = Len(up) + 1 /\ rpc = "hand" /\ rpc' = "hand" /\ rtries' = rtries + 1
    BY <1>4, <1>n, OneMore DEF HandBad
  <2>2. Len(up') <= Len(up) + 2 * 1 /\ rtries <= rtries'
    BY <2>1, <1>n
  <2> QED BY <1>1, <2>1, <2>2, NearHand
<1>5. CASE HandEot
  <2>1. /\ Len(up') = Len(up) + 2 /\ rpc = "hand" /\ rpc' = "hand" /\ rtries' = rtries
    BY <1>5, <1>n, TwoMore DEF HandEot, receiverVars
  <2>2. Len(up') <= Len(up) + 2 * 1 /\ rtries <= rtries'
    BY <2>1, <1>n
  <2> QED BY <1>1, <2>1, <2>2, NearHand
<1>6. CASE Silent
  <2>1. up' = up /\ rpc' = rpc /\ rtries' = rtries /\ got' = got /\ prompt' = prompt
    BY <1>6 DEF Silent, receiverVars
  <2>2. Len(up') <= Len(up) + 2 * 1 /\ rtries <= rtries' /\ Len(up') <= Len(up) + 1
        /\ Len(got) <= Len(got') /\ Len(up') <= Len(up)
    BY <2>1, <1>n
  <2>3. CASE rpc = "hand"
    BY <1>1, <2>1, <2>2, <2>3, NearHand
  <2>4. CASE rpc = "data" /\ Len(got) # size
    <3>1. ASSUME spc \in Growing, NEW i \in 1 .. Len(up'), up'[i] = "ACK"
          PROVE  sblk + i <= Len(got') + Budget
      BY <2>1, <2>4, <3>1 DEF Near, DataNear, AnswersNear
    <3>2. \A i \in 1 .. Len(up') : i <= i
      BY <2>1, <1>n
    <3>3. \A i \in 1 .. Len(up') : up'[i] = "C" => \E g \in 1 .. Len(up) : i <= g /\ up[g] = "C"
      BY <2>1, <3>2
    <3> QED BY <1>1, <2>1, <2>2, <2>4, <3>1, <3>3, NearData
  <2>5. rpc # "off" /\ rpc \in {"hand", "data", "close", "done"}
    BY <1>1 DEF ReceiverRuns, Base, Sorts
  <2> QED BY <1>1, <1>2, <2>1, <2>3, <2>4, <2>5
<1>7. CASE Named /\ down[1].kind = "name"
  BY <1>1, <1>7, NearNamed
<1>8. CASE DataBad
  <2>1. DataSays("NAK") /\ got' = got /\ rpc' = "data" /\ Len(got) <= Len(got')
    BY <1>8, <1>n DEF DataBad, DataSays
  <2>2. CASE Len(got) # size
    BY <1>1, <2>1, <2>2, NearAnswered
  <2>3. CASE Len(got) = size
    BY <1>2, <2>1, <2>3
  <2> QED BY <2>2, <2>3
<1>9. CASE (DataOld(down[1]) \/ DataNew(down[1])) /\ down[1].kind \in Blocks
  <2>1. rpc' = "data"
    BY <1>9 DEF DataOld, DataNew, DataSays
  <2>2. CASE Len(got') = size'
    BY <1>2, <2>1, <2>2
  <2>3. CASE Len(got') # size'
    <3>1. Len(got) # size
      BY <2>3
    <3> QED BY <1>1, <1>9, <2>1, <2>3, <3>1, NearBlock
  <2> QED BY <2>2, <2>3
<1> QED BY <1>1, <1>3, <1>4, <1>5, <1>6, <1>7, <1>8, <1>9

LEMMA NearWaits ==
  ASSUME LimitsAssumption, Base, Base', Near, ReceiverTimeout \/ ReceiverBreaks,
         Len(got) = size => Len(got') = size'
  PROVE  Near'
<1>1. CASE ReceiverTimeout
  <2>1. /\ UNCHANGED <<size, senderVars, down, fooled>>
        /\ Ended \/ HandBad \/ Prompted \/ Closing
        /\ \/ ReceiverQuiet /\ late' = late
           \/ late' = late + 1
    BY <1>1, ReceiverTimeoutDoes DEF Base
  <2>2. CASE Ended \/ Closing
    BY <2>2, NearPast DEF Ended, Closing
  <2>3. CASE HandBad
    BY <2>1, <2>3, NearHandWaits
  <2>4. CASE Prompted
    <3>1. CASE Len(got) # size
      BY <2>1, <2>4, <3>1, NearPrompted
    <3>2. CASE Len(got) = size
      BY <2>4, <3>2, NearPast DEF Prompted
    <3> QED BY <3>1, <3>2
  <2> QED BY <2>1, <2>2, <2>3, <2>4
<1>2. CASE ReceiverBreaks
  <2>1. Ended
    BY <1>2, ReceiverBreaksDoes DEF Base
  <2> QED BY <2>1, NearPast DEF Ended
<1> QED BY <1>1, <1>2

LEMMA NearReceiverStarts ==
  ASSUME LimitsAssumption, Base, Base', Near, ReceiverStarts
  PROVE  Near'
<1>1. /\ rpc = "off" /\ rpc' = "hand" /\ up' = up \o <<"C">>
      /\ UNCHANGED <<rtries, senderVars, down, late>>
  BY ReceiverStartsDoes DEF Base
<1>2. /\ spc \in {"off", "start", "done"}
      /\ \A i \in 1 .. Len(down) : down[i].kind # "name"
  BY <1>1 DEF Near, Unborn
<1>3. Len(up') = 1
  <2>1. up = <<>> /\ up \in Seq(Answers) /\ "C" \in Answers
    BY <1>1 DEF Base, ReceiverInv, Sorts, Answers
  <2>2. Len(up \o <<"C">>) = Len(up) + 1 /\ Len(<<>>) = 0
    BY <2>1, OneMore
  <2> QED BY <1>1, <2>1, <2>2
<1>4. Calling'
  <2>1. rtries' \in Nat
    BY DEF Base, Sorts
  <2>2. \A r \in Nat : 1 <= r + 1
    OBVIOUS
  <2> QED BY <1>3, <2>1, <2>2 DEF Calling
<1>5. Unborn' /\ Offering' /\ NamesNear' /\ DataNear'
  BY <1>1, <1>2 DEF Unborn, Offering, NamesNear, DataNear, senderVars
<1> QED BY <1>4, <1>5 DEF Near

LEMMA NearSenderStarts ==
  ASSUME LimitsAssumption, Base, Base', Near, SenderStarts
  PROVE  Near'
<1>1. /\ spc = "off" /\ spc' = "start"
      /\ UNCHANGED <<sblk, rpc, rtries, got, down, up, late>>
  BY SenderStartDoes DEF receiverVars
<1>2. rpc \notin {"data", "close"} /\ Len(down) = 0
  <2>1. rpc \notin {"data", "close"} /\ down = <<>>
    BY <1>1 DEF Base, SenderInv
  <2>2. Len(<<>>) = 0
    OBVIOUS
  <2> QED BY <2>1, <2>2
<1>3. Unborn' /\ Calling'
  BY <1>1 DEF Near, Unborn, Calling
<1>4. Offering' /\ DataNear'
  BY <1>1, <1>2 DEF Offering, DataNear
<1>5. NamesNear'
  <2>1. ~\E j \in 1 .. Len(down) : TRUE
    BY <1>2
  <2> QED BY <1>1, <2>1 DEF NamesNear
<1> QED BY <1>3, <1>4, <1>5 DEF Near

(* The line only takes away. *)
LEMMA NearLess ==
  ASSUME LimitsAssumption, Base, Base', Near,
         UNCHANGED <<size, senderVars, receiverVars, late>>,
         Thinned(down', down, 0), Len(down') <= Len(down),
         Kept(up', up, 0), Len(up') <= Len(up)
  PROVE  Near'
<1>n. /\ Len(up) \in Nat /\ rtries \in Nat /\ Len(got) \in Nat /\ Len(up') \in Nat /\ Len(down) \in Nat
      /\ Budget \in Nat /\ sblk \in Nat /\ Len(down') \in Nat
  BY Numbers, NumbersNext
<1>1. UNCHANGED <<rpc, got, prompt, rtries, spc, sblk>>
  BY DEF senderVars, receiverVars
<1>2. /\ Len(up') <= Len(up) + 2 * 0 /\ Len(down') + 0 <= Len(down) /\ rtries <= rtries'
      /\ Len(up') <= Len(up) + 0 /\ Len(got) <= Len(got')
  BY <1>1, <1>n
<1>f. PICK f \in [1 .. Len(up') -> 1 .. Len(up)] :
        \A i \in 1 .. Len(up') : up'[i] = up[f[i]] /\ i + 0 <= f[i]
  BY DEF Kept
<1>3. \A i \in 1 .. Len(up') : f[i] \in 1 .. Len(up) /\ i <= f[i] /\ up'[i] = up[f[i]]
  BY <1>f, <1>n
<1>4. CASE rpc = "hand"
  BY <1>1, <1>2, <1>4, NearHand
<1>5. CASE rpc = "data" /\ Len(got) # size
  <2>1. ASSUME spc \in Growing, NEW i \in 1 .. Len(up'), up'[i] = "ACK"
        PROVE  sblk + i <= Len(got') + Budget
    <3>1. PICK g \in 1 .. Len(up) : i <= g /\ up[g] = "ACK"
      BY <1>3, <2>1
    <3>2. sblk + g <= Len(got) + Budget
      BY <1>5, <2>1, <3>1 DEF Near, DataNear, AnswersNear
    <3>3. i \in Nat /\ g \in Nat
      BY <1>n
    <3>4. \A s, x, y, h, k \in Nat : s + y <= h + k /\ x <= y => s + x <= h + k
      OBVIOUS
    <3> QED BY <1>1, <1>n, <3>1, <3>2, <3>3, <3>4
  <2>2. \A i \in 1 .. Len(up') : up'[i] = "C" => \E g \in 1 .. Len(up) : i <= g /\ up[g] = "C"
    BY <1>3
  <2> QED BY <1>1, <1>2, <1>5, <2>1, <2>2, NearData
<1>6. CASE rpc = "off"
  <2>1. \A i \in 1 .. Len(down') : down'[i].kind = "name" =>
          \E g \in 1 .. Len(down) : down[g].kind = "name"
    BY ThinPlaces DEF Base, Files
  <2>2. Unborn'
    BY <1>1, <1>6, <2>1 DEF Near, Unborn
  <2>3. Calling' /\ Offering' /\ NamesNear' /\ DataNear'
    BY <1>1, <1>6 DEF Calling, Offering, NamesNear, DataNear
  <2> QED BY <2>2, <2>3 DEF Near
<1>7. CASE rpc \notin {"off", "hand"} /\ ~(rpc = "data" /\ Len(got) # size)
  BY <1>1, <1>7, NearPast
<1> QED BY <1>4, <1>5, <1>6, <1>7

LEMMA SameKept ==
  ASSUME Base
  PROVE  Kept(up, up, 0) /\ Thinned(down, down, 0)
<1>1. Len(up) \in Nat /\ Len(down) \in Nat
  BY DEF Base, Sorts
<1> DEFINE f == [i \in 1 .. Len(up) |-> i]
<1>2. f \in [1 .. Len(up) -> 1 .. Len(up)]
  OBVIOUS
<1>3. \A i \in 1 .. Len(up) : up[i] = up[f[i]] /\ i + 0 <= f[i]
  BY <1>1
<1>4. \A i, j \in 1 .. Len(up) : i < j => f[i] < f[j]
  OBVIOUS
<1> HIDE DEF f
<1> QED BY <1>1, <1>2, <1>3, <1>4, SameThins DEF Kept

LEMMA NearNext ==
  ASSUME LimitsAssumption, Base, Base', Flow, Near, Budget + 1 < SeqSpace, [Next]_vars
  PROVE  Near'
<1>0. Len(got) = size => Len(got') = size'
  BY FullStaysFull
<1>n. Len(up) \in Nat /\ Len(down) \in Nat
  BY ONLY Base DEF Base, Sorts
<1>1. CASE SenderSteps
  BY <1>1, NearSender
<1>2. CASE ReceiverReads
  BY <1>0, <1>2, NearReads
<1>3. CASE ReceiverTimeout \/ ReceiverBreaks
  BY <1>0, <1>3, NearWaits
<1>4. CASE ReceiverStarts \/ SenderStarts
  BY <1>4, NearReceiverStarts, NearSenderStarts
<1>5. CASE LineSteps
  <2>1. /\ UNCHANGED <<size, senderVars, receiverVars, late>>
        /\ \/ up' = up /\ Thinned(down', down, 0) /\ Len(down') <= Len(down)
           \/ down' = down /\ Kept(up', up, 0) /\ Len(up') <= Len(up)
    BY <1>5, LineDoes DEF LineSteps, Base
  <2>2. CASE up' = up /\ Thinned(down', down, 0) /\ Len(down') <= Len(down)
    <3>1. Kept(up', up, 0) /\ Len(up') <= Len(up)
      BY <1>n, <2>2, SameKept
    <3> QED BY <2>1, <2>2, <3>1, NearLess
  <2>3. CASE down' = down /\ Kept(up', up, 0) /\ Len(up') <= Len(up)
    <3>1. Thinned(down', down, 0) /\ Len(down') <= Len(down)
      BY <1>n, <2>3, SameKept
    <3> QED BY <2>1, <2>3, <3>1, NearLess
  <2> QED BY <2>1, <2>2, <2>3
<1>6. CASE UNCHANGED vars
  <2>1. /\ UNCHANGED <<size, senderVars, receiverVars, late>> /\ up' = up /\ down' = down
    BY <1>6 DEF vars
  <2>2. /\ Kept(up', up, 0) /\ Len(up') <= Len(up)
        /\ Thinned(down', down, 0) /\ Len(down') <= Len(down)
    BY <1>n, <2>1, SameKept
  <2> QED BY <2>1, <2>2, NearLess
<1> QED BY <1>1, <1>2, <1>3, <1>4, <1>5, <1>6 DEF Next, SenderSteps, LineSteps

LEMMA NearInit ==
  ASSUME LimitsAssumption, Init
  PROVE  Near
<1>1. Len(<<>>) = 0
  OBVIOUS
<1> QED BY <1>1 DEF Init, Near, Unborn, Calling, Offering, NamesNear, DataNear

-----------------------------------------------------------------------------
(* What the sink is given.                                                 *)

(* Behind a block that was filled up comes none. *)
Filled == \E i \in 1 .. Len(got) : got[i] = Filler
Rest == Filled => short /\ Len(got) = sblk

(* What keeps the file in its order, as long as the numbers do not wrap. *)
Orderly == Flow /\ Near /\ Rest

LEMMA GivenInOrder ==
  ASSUME LimitsAssumption, Base, Orderly, Budget + 1 < SeqSpace,
         Len(got) # size, down # <<>>, down[1].kind \in Blocks, DataNew(down[1])
  PROVE  /\ Len(got) < sblk /\ ~Filled
         /\ \/ got' = Append(got, Len(got) + 1)
            \/ got' = Append(got, Filler) /\ short /\ Len(got) + 1 = sblk
<1>n. /\ Len(got) \in Nat /\ sblk \in Nat /\ down[1] \in Units /\ 1 \in 1 .. Len(down)
      /\ down[1].blk \in Nat
  <2>1. 1 \in 1 .. Len(down)
    BY HeadUnit DEF Base
  <2> QED BY <2>1, HeadUnit, UnitNat DEF Base, Sorts
<1>1. rpc = "data" /\ InOrder(down[1]) /\ got' = Append(got, Content(down[1]))
  BY <1>n, DeliveredDoes DEF DataNew, DataSays, Base, ReceiverInv
<1>2. down[1].kind # "null"
  <2> SUFFICES ASSUME down[1].kind = "null" PROVE FALSE
    OBVIOUS
  <2>1. expect # 0
    BY <1>1, <1>n, NullIsNotDue DEF Orderly
  <2>2. down[1].blk = 0
    BY <1>n DEF Base, UnitInv
  <2>3. 0 % SeqSpace = 0
    BY RetriesNat, ModSmall
  <2> QED BY <1>1, <2>1, <2>2, <2>3 DEF InOrder, SeqNo
<1>3. down[1].kind \in Files
  BY <1>2 DEF Blocks, Files
<1>4. down[1].blk = Len(got) + 1
  BY <1>1, <1>3, TakenIsDue DEF Orderly
<1>5. down[1].blk <= sblk
  BY <1>3, <1>n DEF Base, UnitInv
<1>6. Len(got) < sblk /\ ~Filled
  BY <1>n, <1>4, <1>5 DEF Orderly, Rest
<1>7. CASE down[1].kind = "name"
  <2>1. down[1].blk = 0
    BY <1>7, <1>n DEF Base, UnitInv
  <2> QED BY <1>n, <1>4, <2>1
<1>8. CASE down[1].kind = "data"
  BY <1>1, <1>4, <1>6, <1>8 DEF Content
<1>9. CASE down[1].kind = "short"
  <2>1. short /\ down[1].blk = sblk
    BY <1>9, <1>n DEF Base, UnitInv
  <2> QED BY <1>1, <1>4, <1>6, <1>9, <2>1 DEF Content
<1> QED BY <1>3, <1>7, <1>8, <1>9 DEF Files

(* What one step does to what the sink has. *)
Given ==
  /\ Len(got) < sblk /\ ~Filled /\ UNCHANGED <<sblk, short>>
  /\ \E e \in Nat : /\ got' = Append(got, e)
                    /\ e = Len(got) + 1 \/ (e = Filler /\ short /\ Len(got) + 1 = sblk)

LEMMA GivenByRead ==
  ASSUME LimitsAssumption, Base, Orderly, Budget + 1 < SeqSpace, ReceiverReads
  PROVE  UNCHANGED <<sblk, short>> /\ (got' = got \/ Given)
<1>1. /\ down # <<>> /\ UNCHANGED <<size, senderVars>>
      /\ \/ Ended \/ HandBad \/ DataBad \/ Closing
         \/ Silent \/ HandEot \/ Named
         \/ DataOld(down[1])
         \/ DataNew(down[1]) /\ down[1].kind \in Blocks
  BY ReceiverReadsDoes DEF Base
<1>2. UNCHANGED <<sblk, short>>
  BY <1>1 DEF senderVars
<1>3. CASE DataNew(down[1]) /\ down[1].kind \in Blocks
  <2>1. CASE Len(got) = size
    <3>1. got' = got
      BY <1>1, <1>3, <2>1, HeadUnit, DeliveredDoes DEF Base, ReceiverInv, DataNew
    <3> QED BY <1>2, <3>1
  <2>2. CASE Len(got) # size
    <3>1. /\ Len(got) < sblk /\ ~Filled
          /\ \/ got' = Append(got, Len(got) + 1)
             \/ got' = Append(got, Filler) /\ short /\ Len(got) + 1 = sblk
      BY <1>1, <1>3, <2>2, GivenInOrder
    <3>2. Len(got) + 1 \in Nat /\ Filler \in Nat
      BY DEF Base, Sorts, Filler
    <3> QED BY <1>2, <3>1, <3>2 DEF Given
  <2> QED BY <2>1, <2>2
<1>4. CASE ~(DataNew(down[1]) /\ down[1].kind \in Blocks)
  <2>1. got' = got
    BY <1>1, <1>4 DEF Ended, HandBad, DataBad, Closing, Silent, HandEot, Named, DataOld,
                      receiverVars
  <2> QED BY <1>2, <2>1
<1> QED BY <1>3, <1>4

LEMMA GivenByNext ==
  ASSUME LimitsAssumption, Base, Orderly, Budget + 1 < SeqSpace, [Next]_vars
  PROVE  (Steady /\ got' = got) \/ Given
<1>1. CASE SenderSteps
  BY <1>1, SenderStepDoes, SenderSends DEF receiverVars
<1>2. CASE ReceiverReads
  BY <1>2, GivenByRead DEF Steady
<1>3. CASE ~(SenderSteps \/ ReceiverReads)
  <2>1. got' = got /\ UNCHANGED <<sblk, short>>
    <3>1. CASE ReceiverTimeout
      BY <3>1, ReceiverTimeoutDoes DEF Base, senderVars, Ended, HandBad, Prompted, Closing
    <3>2. CASE ReceiverBreaks
      BY <3>2, ReceiverBreaksDoes DEF Base, senderVars, Ended
    <3>3. CASE SenderStarts
      BY <3>3, SenderStartDoes DEF receiverVars
    <3>4. CASE ReceiverStarts
      BY <3>4, ReceiverStartsDoes DEF Base, senderVars
    <3>5. CASE LineSteps
      BY <3>5, LineDoes DEF LineSteps, Base, senderVars, receiverVars
    <3>6. CASE UNCHANGED vars
      BY <3>6 DEF vars, senderVars, receiverVars
    <3> QED BY <1>3, <3>1, <3>2, <3>3, <3>4, <3>5, <3>6 DEF Next, SenderSteps, LineSteps
  <2> QED BY <2>1 DEF Steady
<1> QED BY <1>1, <1>2, <1>3

(* What the sink has: the file's own blocks, each in its place, of which    *)
(* the last may be one the sender filled up.                                *)
InPlace ==
  \A i \in 1 .. Len(got) : got[i] = i \/ (got[i] = Filler /\ i = Len(got) /\ short)

LEMMA GivenDoes ==
  ASSUME Base, Given
  PROVE  \E e \in Nat :
           /\ e = Len(got) + 1 \/ (e = Filler /\ short /\ Len(got) + 1 = sblk)
           /\ Len(got') = Len(got) + 1 /\ got'[Len(got) + 1] = e /\ Len(got) \in Nat
           /\ \A i \in 1 .. Len(got) : got'[i] = got[i]
           /\ \A i \in 1 .. Len(got') : i \in 1 .. Len(got) \/ i = Len(got) + 1
<1>1. PICK e \in Nat : /\ got' = Append(got, e)
                       /\ e = Len(got) + 1 \/ (e = Filler /\ short /\ Len(got) + 1 = sblk)
  BY DEF Given
<1>2. /\ Len(got') = Len(got) + 1 /\ got'[Len(got) + 1] = e /\ Len(got) \in Nat
      /\ \A i \in 1 .. Len(got) : got'[i] = got[i]
  BY <1>1, AppendFacts DEF Base, Sorts
<1>3. \A i \in 1 .. Len(got') : i \in 1 .. Len(got) \/ i = Len(got) + 1
  BY <1>2
<1> QED BY <1>1, <1>2, <1>3

LEMMA RestNext ==
  ASSUME LimitsAssumption, Base, Orderly, Budget + 1 < SeqSpace, [Next]_vars
  PROVE  Rest'
<1>1. CASE Steady /\ got' = got
  <2>1. short => sblk' = sblk /\ short' = short
    BY <1>1 DEF Steady, Base, Sorts
  <2> QED BY <1>1, <2>1 DEF Orderly, Rest, Filled
<1>2. CASE Given
  <2>1. PICK e \in Nat :
           /\ e = Len(got) + 1 \/ (e = Filler /\ short /\ Len(got) + 1 = sblk)
           /\ Len(got') = Len(got) + 1 /\ got'[Len(got) + 1] = e /\ Len(got) \in Nat
           /\ \A i \in 1 .. Len(got) : got'[i] = got[i]
           /\ \A i \in 1 .. Len(got') : i \in 1 .. Len(got) \/ i = Len(got) + 1
    BY <1>2, GivenDoes
  <2>2. ~Filled /\ UNCHANGED <<sblk, short>>
    BY <1>2 DEF Given
  <2>3. Filled' => e = Filler
    BY <2>1, <2>2 DEF Filled
  <2>4. Len(got) + 1 # Filler
    BY <2>1 DEF Filler
  <2> QED BY <2>1, <2>2, <2>3, <2>4 DEF Rest
<1> QED BY <1>1, <1>2, GivenByNext

LEMMA InPlaceNext ==
  ASSUME LimitsAssumption, Base, Orderly, InPlace, Budget + 1 < SeqSpace, [Next]_vars
  PROVE  InPlace'
<1>1. CASE Steady /\ got' = got
  <2>1. short => short' = short
    BY <1>1 DEF Steady, Base, Sorts
  <2> QED BY <1>1, <2>1 DEF InPlace
<1>2. CASE Given
  <2>1. PICK e \in Nat :
           /\ e = Len(got) + 1 \/ (e = Filler /\ short /\ Len(got) + 1 = sblk)
           /\ Len(got') = Len(got) + 1 /\ got'[Len(got) + 1] = e /\ Len(got) \in Nat
           /\ \A i \in 1 .. Len(got) : got'[i] = got[i]
           /\ \A i \in 1 .. Len(got') : i \in 1 .. Len(got) \/ i = Len(got) + 1
    BY <1>2, GivenDoes
  <2>2. \A i \in 1 .. Len(got) : got[i] = i
    BY <1>2 DEF Given, Filled, InPlace
  <2>3. short' = short
    BY <1>2 DEF Given
  <2> QED BY <2>1, <2>2, <2>3 DEF InPlace
<1> QED BY <1>1, <1>2, GivenByNext

-----------------------------------------------------------------------------
(* The transfer implements Transfer.                                       *)

promised == <<size, sblk, got, sres, rres>>

LEMMA SenderPromises ==
  ASSUME LimitsAssumption, Base, Base', SenderSteps
  PROVE  [Promise!Next]_promised
<1>1. SenderRuns /\ SenderMoves /\ UNCHANGED <<size, receiverVars>>
  BY SenderStepDoes
<1>2. sres = "RUN" /\ UNCHANGED <<size, got, rres>>
  BY <1>1 DEF SenderRuns, receiverVars, Base, Sorts, SenderInv
<1>3. CASE Stopped
  <2>1. sres' # "RUN" /\ sblk' = sblk
    BY <1>3 DEF Stopped, Base, SenderInv
  <2> QED BY <1>2, <2>1 DEF Promise!Next, Promise!SenderEnds
<1>4. CASE Took
  <2>1. sblk < size /\ sblk' = sblk + 1 /\ sres' = sres
    BY <1>4 DEF Took, Sent
  <2> QED BY <1>2, <2>1 DEF Promise!Next, Promise!Take
<1>5. CASE Again \/ Idled \/ Opened \/ Parted \/ Waited \/ Finished
  <2>1. sblk' = sblk /\ sres' = sres
    BY <1>5 DEF Again, Idled, Opened, Parted, Waited, Finished, Sent
  <2> QED BY <1>2, <2>1 DEF promised
<1> QED BY <1>1, <1>3, <1>4, <1>5 DEF SenderMoves, Advanced

LEMMA EndPromises ==
  ASSUME Base, Base', ReceiverRuns, UNCHANGED <<size, senderVars>>, Ended
  PROVE  [Promise!Next]_promised
<1>1. rres = "RUN" /\ rres' # "RUN" /\ UNCHANGED <<size, sblk, got, sres>>
  BY DEF ReceiverRuns, Ended, senderVars, Base, Sorts, ReceiverInv
<1>2. rres' = "OK" => Len(got) = size
  BY DEF Ended, Base, ReceiverInv
<1> QED BY <1>1, <1>2 DEF Promise!Next, Promise!ReceiverEnds

LEMMA ReadPromises ==
  ASSUME LimitsAssumption, Base, Base', Orderly, Budget + 1 < SeqSpace, ReceiverReads
  PROVE  [Promise!Next]_promised
<1>1. /\ down # <<>> /\ ReceiverRuns /\ UNCHANGED <<size, senderVars>>
      /\ \/ Ended \/ HandBad \/ DataBad \/ Closing
         \/ Silent \/ HandEot \/ Named
         \/ DataOld(down[1])
         \/ DataNew(down[1]) /\ down[1].kind \in Blocks
  BY ReceiverReadsDoes DEF Base
<1>2. UNCHANGED <<size, sblk, sres>>
  BY <1>1 DEF senderVars
<1>3. CASE Ended
  BY <1>1, <1>3, EndPromises
<1>4. CASE HandBad \/ DataBad \/ Closing \/ Silent \/ HandEot \/ Named \/ DataOld(down[1])
  <2>1. got' = got /\ rres' = rres
    BY <1>4 DEF HandBad, DataBad, Closing, Silent, HandEot, Named, DataOld, DataSays, receiverVars
  <2> QED BY <1>2, <2>1 DEF promised
<1>5. CASE DataNew(down[1]) /\ down[1].kind \in Blocks
  <2>1. rres' = rres /\ rres = "RUN"
    BY <1>1, <1>5 DEF DataNew, DataSays, ReceiverRuns, Base, Sorts, ReceiverInv
  <2>2. CASE Len(got) = size
    <3>1. got' = got
      BY <1>1, <1>5, <2>2, HeadUnit, DeliveredDoes DEF Base, ReceiverInv, DataNew
    <3> QED BY <1>2, <2>1, <3>1 DEF promised
  <2>3. CASE Len(got) # size
    <3>1. /\ Len(got) < sblk /\ ~Filled
          /\ got' \in {Append(got, Len(got) + 1), Append(got, Filler)}
      BY <1>1, <1>5, <2>3, GivenInOrder
    <3>2. Filler \notin {got[i] : i \in DOMAIN got}
      <4>1. DOMAIN got = 1 .. Len(got)
        BY DEF Base, Sorts
      <4> QED BY <3>1, <4>1 DEF Filled
    <3>3. Promise!Deliver
      BY <1>2, <2>1, <3>1, <3>2 DEF Promise!Deliver
    <3> QED BY <3>3 DEF Promise!Next
  <2> QED BY <2>2, <2>3
<1> QED BY <1>1, <1>3, <1>4, <1>5

LEMMA PromiseNext ==
  ASSUME LimitsAssumption, Base, Base', Orderly, Budget + 1 < SeqSpace, [Next]_vars
  PROVE  [Promise!Next]_promised
<1>1. CASE SenderSteps
  BY <1>1, SenderPromises
<1>2. CASE ReceiverReads
  BY <1>2, ReadPromises
<1>3. CASE ReceiverTimeout \/ ReceiverBreaks
  <2>1. /\ ReceiverRuns /\ UNCHANGED <<size, senderVars>>
        /\ Ended \/ HandBad \/ Prompted \/ Closing
    BY <1>3, ReceiverTimeoutDoes, ReceiverBreaksDoes DEF Base
  <2>2. CASE Ended
    BY <2>1, <2>2, EndPromises
  <2>3. CASE HandBad \/ Prompted \/ Closing
    <3>1. UNCHANGED <<size, sblk, got, sres, rres>>
      BY <2>1, <2>3 DEF HandBad, Prompted, Closing, senderVars
    <3> QED BY <3>1 DEF promised
  <2> QED BY <2>1, <2>2, <2>3
<1>4. CASE SenderStarts \/ ReceiverStarts \/ LineSteps \/ UNCHANGED vars
  <2>1. UNCHANGED <<size, sblk, got, sres, rres>>
    <3>1. CASE SenderStarts
      BY <3>1, SenderStartDoes DEF receiverVars
    <3>2. CASE ReceiverStarts
      BY <3>2, ReceiverStartsDoes DEF Base, senderVars
    <3>3. CASE LineSteps
      BY <3>3, LineDoes DEF LineSteps, Base, senderVars, receiverVars
    <3>4. CASE UNCHANGED vars
      BY <3>4 DEF vars, senderVars, receiverVars
    <3> QED BY <1>4, <3>1, <3>2, <3>3, <3>4
  <2> QED BY <2>1 DEF promised
<1> QED BY <1>1, <1>2, <1>3, <1>4 DEF Next, SenderSteps, LineSteps

LEMMA FewEnough ==
  ASSUME LimitsAssumption, Base,
         HandshakeRetries + BlockRetries + 3 + 2 * MaxLate < SeqSpace
  PROVE  Budget + 1 < SeqSpace
<1>1. /\ HandshakeRetries \in Nat /\ BlockRetries \in Nat /\ MaxLate \in Nat /\ SeqSpace \in Nat
      /\ late \in Nat /\ late <= MaxLate
  BY RetriesNat DEF Base, Sorts
<1> QED BY <1>1 DEF Budget, Offers

(* As long as waits that run out early do not let the sender run ahead by   *)
(* as many blocks as there are numbers (each lets it gain two), the blocks   *)
(* arrive in order.                                                         *)
THEOREM NumbersSuffice ==
  ASSUME HandshakeRetries + BlockRetries + 3 + 2 * MaxLate < SeqSpace
  PROVE  Spec => [](Base /\ Orderly /\ InPlace)
<1> DEFINE Ordered == Base /\ Orderly /\ InPlace
<1>0. SizesAssumption /\ LimitsAssumption
  BY SizesAssumption, LimitsAssumption
<1>1. Init => Ordered
  <2> SUFFICES ASSUME Init PROVE Base /\ Orderly /\ InPlace
    OBVIOUS
  <2>1. Base /\ Near
    BY <1>0, BaseInit, NearInit
  <2>2. Len(<<>>) = 0
    OBVIOUS
  <2>3. Flow /\ Rest /\ InPlace
    BY <2>2 DEF Init, Flow, Files, Rest, Filled, InPlace
  <2> QED BY <2>1, <2>3 DEF Orderly
<1>2. Ordered /\ [Next]_vars => Ordered'
  <2> SUFFICES ASSUME Base, Orderly, InPlace, [Next]_vars PROVE (Base /\ Orderly /\ InPlace)'
    OBVIOUS
  <2>1. Base'
    BY <1>0, BaseNext
  <2>2. Budget + 1 < SeqSpace
    BY <1>0, FewEnough
  <2>3. Near'
    BY <1>0, <2>1, <2>2, NearNext DEF Orderly
  <2>4. Flow'
    BY <1>0, <2>1, <2>2, NullIsKept, FlowNext DEF Orderly
  <2>5. Rest' /\ InPlace'
    BY <1>0, <2>2, RestNext, InPlaceNext
  <2> QED BY <2>1, <2>3, <2>4, <2>5 DEF Orderly
<1> QED BY <1>1, <1>2, PTL DEF Spec

(* TransferKept, ymodem.h:124-134: whatever the line loses, damages or      *)
(* delays, the sink is given the blocks the sender took, in their order and *)
(* each once, and YM_OK from the receiver means that there were no fewer     *)
(* than the file has.                                                       *)
THEOREM TransferImplemented ==
  ASSUME HandshakeRetries + BlockRetries + 3 + 2 * MaxLate < SeqSpace
  PROVE  Spec => TransferKept
<1>0. SizesAssumption /\ LimitsAssumption
  BY SizesAssumption, LimitsAssumption
<1>1. Init => Promise!Init
  BY SizesAssumption DEF Init, Promise!Init, SizesAssumption
<1>2. Base /\ Orderly /\ Base' /\ [Next]_vars => [Promise!Next]_promised
  BY <1>0, FewEnough, PromiseNext
<1> QED BY <1>1, <1>2, NumbersSuffice, PTL DEF Spec, TransferKept, Promise!Spec, promised

(* ymodem.c:577-581.  What WholeFile should say, and the code does keep: a  *)
(* receiver that returns YM_OK has given its sink the file, block by block, *)
(* but for the end of a last block that the sender's source did not have.   *)
FileOrFilled ==
  rres = "OK" =>
    /\ Len(got) = size
    /\ \A i \in 1 .. size : got[i] = i \/ (got[i] = Filler /\ i = size /\ short)

(* FileOrFilled, for every file and line, under the same bound on the       *)
(* numbers: what a receiver's YM_OK is worth to `fs` and `blob`.            *)
THEOREM OkMeansTheFile ==
  ASSUME HandshakeRetries + BlockRetries + 3 + 2 * MaxLate < SeqSpace
  PROVE  Spec => []FileOrFilled
<1>1. Base /\ InPlace => FileOrFilled
  BY DEF Base, ReceiverInv, InPlace, FileOrFilled
<1> QED BY <1>1, NumbersSuffice, PTL
=============================================================================
