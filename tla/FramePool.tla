------------------------------ MODULE FramePool ------------------------------
(***************************************************************************)
(* The DDR frame pool of sonar_frames.c: PoolCount slots, each with a state *)
(* and the sequence number of its metadata. The experiment task acquires   *)
(* and publishes slots, the Ethernet task takes and finishes them; every   *)
(* call runs inside taskENTER_CRITICAL, so each operation is atomic.       *)
(*                                                                         *)
(* The operations are stated as relations on `state' (the slot states) and *)
(* `seq' (the sequence numbers): the one slot a C loop stops at is the one *)
(* slot that satisfies the operator.                                       *)
(***************************************************************************)
EXTENDS Integers

CONSTANT PoolCount              \* SONAR_ACQ_POOL_COUNT

ASSUME PoolCountAssumption == PoolCount \in Nat \ {0}

Slot == 0 .. PoolCount - 1
NoSlot == -1
FrameState == {"FREE", "FILLING", "READY", "SENDING"}

(* Variant with a bug: a slot that is being sent counts as free.           *)
FirstUnfilled(state, i) ==
  /\ state[i] # "FILLING"
  /\ \A j \in Slot : j < i => state[j] = "FILLING"

(* sonar_frames_acquire returns the first FREE slot ...                    *)
FirstFree(state, i) ==
  /\ state[i] = "FREE"
  /\ \A j \in Slot : j < i => state[j] # "FREE"

(* ... or -1 when there is none.                                           *)
PoolFull(state) == \A i \in Slot : state[i] # "FREE"

Acquired(state, i) == [state EXCEPT ![i] = "FILLING"]

(* sonar_frames_publish refuses a slot that is not FILLING.                *)
Publishable(state, i) == state[i] = "FILLING"

Published(state, i) == [state EXCEPT ![i] = "READY"]

(* The slots a batch that began when `through' was the latest may send.    *)
Sendable(state, seq, through, i) == state[i] = "READY" /\ seq[i] <= through

(* Variant with a bug: the newest one.                                     *)
NewestSendable(state, seq, through, i) ==
  /\ Sendable(state, seq, through, i)
  /\ \A j \in Slot : Sendable(state, seq, through, j) => seq[j] <= seq[i]

(* sonar_frames_take picks the sendable slot with the lowest sequence      *)
(* number, the first of them when two are equal.                           *)
OldestSendable(state, seq, through, i) ==
  /\ Sendable(state, seq, through, i)
  /\ \A j \in Slot : Sendable(state, seq, through, j) =>
       \/ seq[i] < seq[j]
       \/ seq[i] = seq[j] /\ i <= j

Taken(state, i) == [state EXCEPT ![i] = "SENDING"]

(* Variants with a bug: the slot is freed without an ACK, a frame that was *)
(* not acknowledged is not offered again, an acknowledged one is.          *)
FreedAnyway(state, i, ack) == [state EXCEPT ![i] = "FREE"]
NotRetried(state, i, ack) == IF ack THEN [state EXCEPT ![i] = "FREE"] ELSE state
NeverFreed(state, i, ack) == [state EXCEPT ![i] = "READY"]

(* sonar_frames_finish: an acknowledged slot is free, any other one is     *)
(* ready again; a slot that is not SENDING is left alone.                  *)
Finished(state, i, ack) ==
  IF state[i] = "SENDING"
  THEN [state EXCEPT ![i] = IF ack THEN "FREE" ELSE "READY"]
  ELSE state

(* sonar_frames_latest: n is the highest READY sequence number, or 0.      *)
IsLatest(state, seq, n) ==
  /\ \A i \in Slot : state[i] = "READY" => seq[i] <= n
  /\ n = 0 \/ \E i \in Slot : state[i] = "READY" /\ seq[i] = n
=============================================================================
