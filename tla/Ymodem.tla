------------------------------- MODULE Ymodem -------------------------------
(***************************************************************************)
(* One file sent by ymodem_send() and received by ymodem_recv()             *)
(* (svc/ymodem.c), the two ends of a serial line that loses, damages and    *)
(* delays.                                                                  *)
(*                                                                         *)
(* An end is one thread that sends and then waits for a byte; one action is *)
(* what it does from one wait to the next.  A block on the line is one      *)
(* unit: its kind and its place in the file, from which its sequence number *)
(* follows.  A damaged block is "junk": what the receiver makes of its      *)
(* bytes is open, except that no junk passes the CRC.  Replies are single   *)
(* bytes without a check: the line may lose them, and is assumed not to     *)
(* turn one into another.  CAN x 5 is one unit, "CAN".                      *)
(***************************************************************************)
EXTENDS Naturals, Sequences

CONSTANTS
  Sizes,              \* the files sent, in data blocks
  SeqSpace,           \* sequence numbers: 256 in the code
  BlockRetries,       \* YM_BLOCK_RETRIES
  HandshakeRetries,   \* YM_HANDSHAKE_RETRIES
  MaxLate             \* bound: waits that run out though an answer was coming

ASSUME SizesAssumption == Sizes \subseteq Nat
ASSUME LimitsAssumption ==
  /\ SeqSpace \in Nat \ {0, 1}
  /\ {BlockRetries, HandshakeRetries, MaxLate} \subseteq Nat

VARIABLES
  size,       \* src->size, in blocks
  spc,        \* what the sender waits for
  sblk,       \* its current data block
  short,      \* its source ended within that block
  stries,     \* its attempts or timeouts in this wait
  sres,       \* its result: "RUN" until it has one
  rpc,        \* the loop of ym_recv_run the receiver is in
  got,        \* what the sink was given
  expect, prompt,
  rtries,     \* attempts
  rres,
  down,       \* the line to the receiver
  up,         \* the line to the sender
  late,       \* waits that ran out too early, so far
  fooled      \* history: junk was taken for an EOT before any file

senderVars   == <<spc, sblk, short, stries, sres>>
receiverVars == <<rpc, got, expect, prompt, rtries, rres>>
vars == <<size, senderVars, receiverVars, down, up, late, fooled>>

Filler  == 0
Unit(k, b) == [kind |-> k, blk |-> b]
Blocks  == {"name", "data", "short", "null"}
SeqNo(u) == u.blk % SeqSpace
Results == {"CANCEL", "TIMEOUT", "SOURCE", "IO", "SINK", "PROTO"}

Init ==
  /\ size \in Sizes
  /\ spc = "off" /\ sblk = 0 /\ short = FALSE /\ stries = 0 /\ sres = "RUN"
  /\ rpc = "off" /\ got = <<>> /\ expect = 1 /\ prompt = "C" /\ rtries = 0
  /\ rres = "RUN"
  /\ down = <<>> /\ up = <<>> /\ late = 0 /\ fooled = FALSE

-----------------------------------------------------------------------------
(* The sender: wait_start, send_block, wait_c and send_eot are its waits.   *)

Asking  == {"start", "ask", "close"}           \* wait_start, wait_c, wait_c
Sending == {"name", "data", "eot", "null"}     \* awaiting an ACK
Reply   == [p \in Asking \cup Sending |-> IF p \in Asking THEN "C" ELSE "ACK"]

(* What send_block or send_eot puts on the line, again on each retry.       *)
InFlight == Unit(IF spc = "data" /\ short THEN "short" ELSE spc,
                 IF spc = "data" THEN sblk ELSE 0)

(* ymodem_send: every error is announced to the other end.                  *)
SenderStops(res) ==
  /\ spc' = "done" /\ sres' = res
  /\ down' = IF res = "OK" THEN down ELSE Append(down, Unit("CAN", 0))
  /\ UNCHANGED <<sblk, short, stries>>

Waits(p) ==
  /\ spc' = p /\ stries' = 0
  /\ UNCHANGED <<sblk, short, sres, down>>

Sends(p, b) ==
  /\ spc' = p /\ stries' = 0 /\ sblk' = b
  /\ down' = Append(down, Unit(p, IF p = "data" THEN b ELSE 0))
  /\ UNCHANGED <<short, sres>>

(* A source that ends within a block: the block is padded and sent, and the *)
(* EOT follows.                                                             *)
SendsShort ==
  /\ spc' = "data" /\ stries' = 0 /\ sblk' = sblk + 1 /\ short' = TRUE
  /\ down' = Append(down, Unit("short", sblk + 1))
  /\ UNCHANGED sres

(* The data loop of ym_run.  The source may fail, and may end before `size`. *)
NextBlock ==
  \/ /\ sblk < size /\ ~short
     /\ Sends("data", sblk + 1) \/ SendsShort \/ SenderStops("SOURCE")
  \/ Sends("eot", sblk)

Answered ==
  \/ spc = "start" /\ Sends("name", 0)
  \/ spc = "name"  /\ Waits("ask")
  \/ spc \in {"ask", "data"} /\ NextBlock
  \/ spc = "eot"   /\ Waits("close")
  \/ spc = "close" /\ Sends("null", sblk)
  \/ spc = "null"  /\ SenderStops("OK")

(* One attempt more, or the last was used up.                               *)
TriesUncounted == stries' = stries
CountsTry == stries' = stries + 1

Resend ==
  \/ /\ stries = BlockRetries
     /\ SenderStops("TIMEOUT")
  \/ /\ stries < BlockRetries
     /\ CountsTry
     /\ down' = Append(down, InFlight)
     /\ UNCHANGED <<spc, sblk, short, sres>>

SenderRuns == spc \notin {"off", "done"}

SenderReads ==
  /\ SenderRuns /\ up # <<>>
  /\ up' = Tail(up)
  /\ \/ Head(up) = "CAN" /\ SenderStops("CANCEL")
     \/ Head(up) = Reply[spc] /\ Answered
     \/ /\ Head(up) \notin {"CAN", Reply[spc]}
        /\ \/ spc \in Sending /\ Resend
           \/ spc \in Asking /\ UNCHANGED <<senderVars, down>>
  /\ UNCHANGED <<size, receiverVars, late, fooled>>

AskRetries == IF spc = "start" THEN HandshakeRetries ELSE BlockRetries

SenderWaitsOut ==
  /\ SenderRuns
  /\ \/ spc \in Sending /\ Resend
     \/ /\ spc \in Asking /\ stries = AskRetries
        /\ SenderStops("TIMEOUT")
     \/ /\ spc \in Asking /\ stries < AskRetries
        /\ stries' = stries + 1
        /\ UNCHANGED <<spc, sblk, short, sres, down>>
  /\ UNCHANGED <<size, receiverVars, up, fooled>>

SenderStarts ==
  /\ spc = "off"
  /\ spc' = "start"
  /\ UNCHANGED <<size, sblk, short, stries, sres, receiverVars, down, up, late,
                 fooled>>

(* Ctrl+C or a kill at the sending end, or a transport that fails.          *)
SenderBreaks ==
  /\ SenderRuns
  /\ \E res \in {"CANCEL", "IO"} : SenderStops(res)
  /\ UNCHANGED <<size, receiverVars, up, late, fooled>>

-----------------------------------------------------------------------------
(* The receiver: the three loops of ym_recv_run.                            *)

ReceiverRuns == rpc \notin {"off", "done"}

ReceiverStops(res, reply) ==
  /\ rpc' = "done" /\ rres' = res
  /\ up' = up \o reply \o (IF res = "OK" THEN <<>> ELSE <<"CAN">>)
  /\ UNCHANGED <<got, expect, prompt, rtries>>

Replies(reply) == up' = up \o reply

(* A wait of the handshake or the batch close that brought nothing good.    *)
TryAgain(limit, reply) ==
  \/ /\ rtries = limit
     /\ ReceiverStops("TIMEOUT", <<>>)
  \/ /\ rtries < limit
     /\ rtries' = rtries + 1
     /\ Replies(reply)
     /\ UNCHANGED <<rpc, got, expect, prompt, rres>>

(* recv_drain: what had arrived is thrown away, and the cut may fall within *)
(* a block.                                                                 *)
Drained(line) ==
  LET rest(k) == SubSeq(line, k, Len(line))
  IN {rest(k) : k \in 1 .. Len(line) + 1}
     \cup {[rest(k) EXCEPT ![1] = Unit("junk", 0)] :
             k \in {j \in DOMAIN line : line[j].kind \in Blocks}}

(* A block whose header was seen and whose body is not good.                *)
BadBlock ==
  \/ rpc = "hand"  /\ TryAgain(HandshakeRetries, <<"C">>)
  \/ /\ rpc = "data"
     /\ rtries' = 0 /\ prompt' = "NAK"
     /\ Replies(<<"NAK">>)
     /\ UNCHANGED <<rpc, got, expect, rres>>
  \/ rpc = "close" /\ TryAgain(BlockRetries, <<"NAK">>)

(* The declared size is the contract.                                       *)
AcceptsEotEarly == TRUE
AcceptsEot == Len(got) = size

Eot ==
  \/ /\ rpc = "hand"
     /\ Replies(<<"ACK", "C">>)
     /\ UNCHANGED receiverVars
  \/ /\ rpc = "data" /\ ~AcceptsEot
     /\ ReceiverStops("PROTO", <<>>)
  \/ /\ rpc = "data" /\ AcceptsEot
     /\ rpc' = "close" /\ rtries' = 0
     /\ Replies(<<"ACK", "C">>)
     /\ UNCHANGED <<got, expect, prompt, rres>>
  \/ /\ rpc = "close"
     /\ Replies(<<"ACK">>)
     /\ UNCHANGED receiverVars

(* Block 0; the sink may refuse the file.  An empty name closes a batch     *)
(* that brought none.  A data block whose number wrapped to 0 has no name.   *)
NameBlock(u) ==
  \/ /\ u.kind = "name"
     /\ rpc' = "data" /\ rtries' = 0
     /\ Replies(<<"ACK", "C">>)
     /\ UNCHANGED <<got, expect, prompt, rres>>
  \/ u.kind = "name" /\ ReceiverStops("SINK", <<>>)
  \/ u.kind = "null" /\ ReceiverStops("CANCEL", <<"ACK">>)
  \/ u.kind \in {"data", "short"} /\ ReceiverStops("PROTO", <<>>)

Repeated(u) == SeqNo(u) = (expect + SeqSpace - 1) % SeqSpace

(* Past the declared size nothing is written.  A block that is no data at   *)
(* all would show as a place the file does not have.                        *)
Content(u) == CASE u.kind = "data"  -> u.blk
                [] u.kind = "short" -> Filler
                [] OTHER            -> size + 1

Delivered(u) == IF Len(got) = size THEN got ELSE Append(got, Content(u))

NextSeq == (expect + 1) % SeqSpace

InOrderUnchecked(u) == ~Repeated(u)
InOrder(u) == SeqNo(u) = expect

DataBlock(u) ==
  \/ /\ Repeated(u)
     /\ rtries' = 0 /\ prompt' = "NAK"
     /\ Replies(<<"ACK">>)
     /\ UNCHANGED <<rpc, got, expect, rres>>
  \/ /\ InOrder(u)
     /\ got' = Delivered(u)
     /\ expect' = NextSeq
     /\ rtries' = 0 /\ prompt' = "NAK"
     /\ Replies(<<"ACK">>)
     /\ UNCHANGED <<rpc, rres>>
  \/ InOrder(u) /\ Len(got) < size /\ ReceiverStops("SINK", <<>>)
  \/ ~Repeated(u) /\ ~InOrder(u) /\ ReceiverStops("PROTO", <<>>)

(* The closing block is the empty name; a data block whose number wrapped   *)
(* to 0 passes for it if its first byte is 0.                               *)
CloseBlock(u) ==
  \/ SeqNo(u) = 0 /\ u.kind # "name" /\ ReceiverStops("OK", <<"ACK">>)
  \/ (SeqNo(u) # 0 \/ u.kind # "null") /\ ReceiverStops("PROTO", <<>>)

GoodBlock(u) ==
  \/ rpc = "hand" /\ SeqNo(u) = 0 /\ NameBlock(u)
  \/ rpc = "data" /\ DataBlock(u)
  \/ rpc = "close" /\ CloseBlock(u)

(* wait_hdr and what follows it.  Junk may hold nothing that looks like a   *)
(* header, an EOT, two CANs, or a header with a body that is not good.      *)
Reads(u) ==
  \/ u.kind = "CAN" /\ ReceiverStops("CANCEL", <<>>)
  \/ u.kind = "eot" /\ Eot
  \/ u.kind \in Blocks /\ GoodBlock(u)
  \/ u.kind = "junk" /\ UNCHANGED <<receiverVars, up>>
  \/ u.kind = "junk" /\ ReceiverStops("CANCEL", <<>>)

ReceiverReads ==
  /\ ReceiverRuns /\ down # <<>>
  /\ LET u == Head(down)
     IN \/ /\ Reads(u)
           /\ down' = Tail(down)
           /\ UNCHANGED fooled
        \/ /\ u.kind = "junk" /\ Eot
           /\ down' = Tail(down)
           /\ fooled' = (fooled \/ rpc = "hand")
        \/ /\ \/ u.kind = "junk"
              \/ u.kind \in Blocks /\ rpc = "hand" /\ SeqNo(u) # 0
           /\ BadBlock
           /\ down' \in Drained(Tail(down))
           /\ UNCHANGED fooled
  /\ UNCHANGED <<size, senderVars, late>>

ReceiverWaitsOut ==
  /\ \/ rpc = "hand"  /\ TryAgain(HandshakeRetries, <<"C">>)
     \/ rpc = "data"  /\ TryAgain(BlockRetries, <<prompt>>)
     \/ rpc = "close" /\ TryAgain(BlockRetries, <<"C">>)
  /\ UNCHANGED <<size, senderVars, down, fooled>>

ReceiverStarts ==
  /\ rpc = "off"
  /\ rpc' = "hand"
  /\ Replies(<<"C">>)
  /\ UNCHANGED <<size, got, expect, prompt, rtries, rres, senderVars, down, late,
                 fooled>>

ReceiverBreaks ==
  /\ ReceiverRuns
  /\ \E res \in {"CANCEL", "IO"} : ReceiverStops(res, <<>>)
  /\ UNCHANGED <<size, senderVars, down, late, fooled>>

-----------------------------------------------------------------------------
(* Time.  A wait runs out when nothing can arrive any more until the other  *)
(* end waits out too; the line may be slow enough for it to run out sooner.  *)

SenderQuiet   == up = <<>> /\ (ReceiverRuns => down = <<>>)
ReceiverQuiet == down = <<>> /\ (SenderRuns => up = <<>>)

TooLate(quiet) ==
  \/ quiet /\ UNCHANGED late
  \/ ~quiet /\ late < MaxLate /\ late' = late + 1

SenderTimeout   == SenderWaitsOut /\ TooLate(SenderQuiet)
ReceiverTimeout == ReceiverWaitsOut /\ TooLate(ReceiverQuiet)

(* What the line does to what it carries.  What it does for an end that has *)
(* returned makes no difference.                                            *)
Without(line, i) == SubSeq(line, 1, i - 1) \o SubSeq(line, i + 1, Len(line))

LosesDown == /\ ReceiverRuns
             /\ \E i \in DOMAIN down : down' = Without(down, i)
             /\ UNCHANGED <<size, senderVars, receiverVars, up, late, fooled>>
LosesUp   == /\ SenderRuns
             /\ \E i \in DOMAIN up : up' = Without(up, i)
             /\ UNCHANGED <<size, senderVars, receiverVars, down, late, fooled>>
Damages   == /\ ReceiverRuns
             /\ \E i \in DOMAIN down :
                  /\ down[i].kind \in Blocks
                  /\ down' = [down EXCEPT ![i] = Unit("junk", 0)]
             /\ UNCHANGED <<size, senderVars, receiverVars, up, late, fooled>>

Next ==
  \/ SenderStarts \/ SenderReads \/ SenderTimeout \/ SenderBreaks
  \/ ReceiverStarts \/ ReceiverReads \/ ReceiverTimeout \/ ReceiverBreaks
  \/ LosesDown \/ LosesUp \/ Damages

Spec == Init /\ [][Next]_vars

(* An end that waits is woken by a byte or by its timeout. *)
Fairness ==
  /\ WF_vars(SenderReads)
  /\ WF_vars(ReceiverReads)
  /\ WF_vars(SenderTimeout /\ SenderQuiet)
  /\ WF_vars(ReceiverTimeout /\ ReceiverQuiet)

FairSpec == Spec /\ Fairness

-----------------------------------------------------------------------------
TypeOK ==
  /\ size \in Sizes
  /\ spc \in {"off", "done"} \cup Asking \cup Sending
  /\ sblk \in 0 .. size
  /\ short \in BOOLEAN
  /\ stries \in 0 .. BlockRetries + HandshakeRetries
  /\ sres \in {"RUN", "OK"} \cup Results
  /\ rpc \in {"off", "hand", "data", "close", "done"}
  /\ \A i \in DOMAIN got : got[i] \in 0 .. size
  /\ expect \in 0 .. SeqSpace - 1
  /\ prompt \in {"C", "NAK"}
  /\ rtries \in 0 .. BlockRetries + HandshakeRetries
  /\ rres \in {"RUN", "OK"} \cup Results
  /\ \A i \in DOMAIN down : down[i].kind \in Blocks \cup {"eot", "CAN", "junk"}
  /\ \A i \in DOMAIN up : up[i] \in {"C", "ACK", "NAK", "CAN"}
  /\ late \in 0 .. MaxLate

Promise == INSTANCE Transfer WITH
  Filler <- Filler, size <- size, sent <- sblk, got <- got,
  sender <- sres, receiver <- rres

(* ymodem.h:124-134.  What the sink gets is the file, in order and without   *)
(* duplicates, and the receiver says YM_OK only when the sink has it all.    *)
TransferKept == Promise!Spec

(* A sender that says YM_OK has had every block it sent delivered, unless    *)
(* the receiver took junk for an EOT and acknowledged it before the file.    *)
SentMeansDelivered == sres = "OK" => (Len(got) = sblk \/ fooled)

(* ymodem.c:562-600.  A block is NAKed without counting, and a prompt does   *)
(* not count the header it brings; both ends return all the same, on a line  *)
(* that damages and loses all it likes.                                      *)
BothReturn == /\ (spc = "start") ~> (spc = "done")
              /\ (rpc = "hand") ~> (rpc = "done")

(* ymodem.c:558-560: a timeout re-prompts "with 'C' before the first data    *)
(* block, NAK afterwards".  The sender that has no data block to repeat      *)
(* waits for a 'C' and hears nothing else.                                   *)
PromptsWithC ==
  (rpc = "data" /\ spc = "ask" /\ \A i \in DOMAIN up : up[i] # "C") => prompt = "C"

(* ymodem.c:577-581: a sender that stops early "must NOT be able to reach    *)
(* the closing block and be reported as success".                            *)
WholeFile == rres = "OK" => got = [i \in 1 .. size |-> i]
=============================================================================
