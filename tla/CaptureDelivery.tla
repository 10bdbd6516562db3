--------------------------- MODULE CaptureDelivery ---------------------------
(***************************************************************************)
(* What the transfer of captures promises, without slots, sockets, files   *)
(* or acknowledgements. A capture is [boot, seq, data]. Captures are       *)
(* published on the board; the host makes them durable one at a time, in   *)
(* sequence order; the board forgets one only after that, or all of them   *)
(* in a reset.                                                             *)
(***************************************************************************)
EXTENDS Integers

VARIABLES
  published,                    \* every capture ever published
  pending,                      \* the ones the board still holds
  delivered                     \* the ones durably stored by the host

Init ==
  /\ published = {}
  /\ pending = {}
  /\ delivered = {}

(* A capture is newer than every earlier one of its boot.                  *)
Publish(c) ==
  /\ \A d \in published : d.boot = c.boot => d.seq < c.seq
  /\ published' = published \cup {c}
  /\ pending' = pending \cup {c}
  /\ UNCHANGED delivered

(* The host stores the oldest capture of its boot that it does not have.   *)
Deliver(c) ==
  /\ \A d \in published : d.boot = c.boot /\ d.seq < c.seq => d \in delivered
  /\ delivered' = delivered \cup {c}
  /\ UNCHANGED <<published, pending>>

(* The board may forget a capture only once the host has it.               *)
Release(c) ==
  /\ c \in delivered
  /\ pending' = pending \ {c}
  /\ UNCHANGED <<published, delivered>>

(* A board reset empties the pool.                                         *)
Forget ==
  /\ pending' = {}
  /\ UNCHANGED <<published, delivered>>

Next ==
  \/ \E c \in published' : Publish(c)
  \/ \E c \in published : Deliver(c)
  \/ \E c \in pending : Release(c)
  \/ Forget

Spec == Init /\ [][Next]_<<published, pending, delivered>>
=============================================================================
