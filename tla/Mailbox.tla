------------------------------- MODULE Mailbox -------------------------------
(***************************************************************************)
(* What a listener's message vectors promise, whichever thread fills them. *)
(* Messages are posted into a box; the one consumer takes everything in    *)
(* the box at once, goes through that batch in order and retires it before *)
(* it takes the next one.                                                  *)
(*                                                                         *)
(* RequestHandoff (receive thread to game thread) and ResponseHandoff      *)
(* (game threads to send thread) implement this module.                    *)
(***************************************************************************)
EXTENDS Naturals, Sequences

CONSTANT Message

VARIABLES
  box,        \* posted and not taken yet
  batch,      \* taken by the consumer
  pos,        \* how many messages of the batch the consumer is done with
  posted,     \* history: every message ever posted, in order
  consumed    \* history: every message the consumer is done with, in order

vars == <<box, batch, pos, posted, consumed>>

Init ==
  /\ box = <<>>
  /\ batch = <<>>
  /\ pos = 0
  /\ posted = <<>>
  /\ consumed = <<>>

Post(m) ==
  /\ box' = Append(box, m)
  /\ posted' = Append(posted, m)
  /\ UNCHANGED <<batch, pos, consumed>>

Collect ==
  /\ batch = <<>>
  /\ batch' = box
  /\ box' = <<>>
  /\ UNCHANGED <<pos, posted, consumed>>

Consume ==
  /\ pos < Len(batch)
  /\ pos' = pos + 1
  /\ consumed' = Append(consumed, batch[pos + 1])
  /\ UNCHANGED <<box, batch, posted>>

Retire ==
  /\ pos = Len(batch)
  /\ batch' = <<>>
  /\ pos' = 0
  /\ UNCHANGED <<box, posted, consumed>>

Next ==
  \/ \E m \in Message : Post(m)
  \/ Collect
  \/ Consume
  \/ Retire

Spec == Init /\ [][Next]_vars

-----------------------------------------------------------------------------
TypeOK ==
  /\ box \in Seq(Message)
  /\ batch \in Seq(Message)
  /\ pos \in 0 .. Len(batch)
  /\ posted \in Seq(Message)
  /\ consumed \in Seq(Message)

(***************************************************************************)
(* Every posted message is in exactly one of three places: consumed, left  *)
(* in the batch, or in the box, and the three, read in that order, are the *)
(* messages in the order they were posted. Nothing is lost, duplicated or  *)
(* reordered.                                                              *)
(***************************************************************************)
Fifo ==
  LET done == Len(consumed)
      left == Len(batch) - pos
  IN  /\ Len(posted) = done + left + Len(box)
      /\ \A k \in 1 .. done : consumed[k] = posted[k]
      /\ \A k \in 1 .. left : batch[pos + k] = posted[done + k]
      /\ \A k \in 1 .. Len(box) : box[k] = posted[done + left + k]
=============================================================================
