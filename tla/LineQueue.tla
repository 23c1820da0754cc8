------------------------------ MODULE LineQueue ------------------------------
(***************************************************************************)
(* What the agent's NDJSON spool promises to the code that pushes lines    *)
(* into it and to the operator who reads the other end: a bounded FIFO     *)
(* that, when it is full, forgets its oldest line and counts it.           *)
(*                                                                         *)
(* A line is the serial number of the push that stored it.  The sink is    *)
(* everything that reached stdout, the spool file or the collector.        *)
(***************************************************************************)
EXTENDS Naturals, Sequences

CONSTANTS
  Limits,       \* the capacities the queue may be given
  FirstLimit    \* the capacity it is created with

VARIABLES
  queue,        \* the lines held, oldest first
  limit,        \* the capacity, 0 while there is no storage
  accepted,     \* how many lines were accepted so far
  discards,     \* how many of them were forgotten because the queue was full
  out,          \* the lines that reached the sink, in order
  doubtful      \* bodies sent without a confirmation, and which were stored

lqVars == <<queue, limit, accepted, discards, out, doubtful>>

(* The first n lines of the queue, and what is left without them. *)
Front(n) == SubSeq(queue, 1, n)
Rest(n)  == SubSeq(queue, n + 1, Len(queue))

LQInit ==
  /\ queue = <<>>
  /\ limit = FirstLimit
  /\ accepted = 0
  /\ discards = 0
  /\ out = <<>>
  /\ doubtful = <<>>

(* Accept a line there is room for. *)
Accept ==
  /\ Len(queue) < limit
  /\ queue' = Append(queue, accepted + 1)
  /\ accepted' = accepted + 1
  /\ UNCHANGED <<limit, discards, out, doubtful>>

(* Accept a line in place of the oldest one. *)
Displace ==
  /\ limit > 0
  /\ Len(queue) = limit
  /\ queue' = Append(Rest(1), accepted + 1)
  /\ accepted' = accepted + 1
  /\ discards' = discards + 1
  /\ UNCHANGED <<limit, out, doubtful>>

(* Take n lines off the front; the first k of them reach the sink. *)
Release(n, k) ==
  /\ n \in 0..Len(queue)
  /\ k \in 0..n
  /\ queue' = Rest(n)
  /\ out' = out \o Front(k)
  /\ UNCHANGED <<limit, accepted, discards, doubtful>>

(* The first n lines are sent, and nobody knows whether they arrived. *)
Doubt(n) ==
  /\ n \in 0..Len(queue)
  /\ doubtful' = Append(doubtful, [body |-> Front(n), stored |-> FALSE])
  /\ UNCHANGED <<queue, limit, accepted, discards, out>>

(* They did arrive, at some time. *)
Arrive(i) ==
  /\ ~doubtful[i].stored
  /\ doubtful' = [doubtful EXCEPT ![i] = [body |-> doubtful[i].body, stored |-> TRUE]]
  /\ out' = out \o doubtful[i].body
  /\ UNCHANGED <<queue, limit, accepted, discards>>

(* New storage of another capacity, or none at all: what was held is gone. *)
Replace(c) ==
  /\ queue' = <<>>
  /\ limit' = c
  /\ UNCHANGED <<accepted, discards, out, doubtful>>

LQNext ==
  \/ Accept
  \/ Displace
  \/ \E n \in 0..Len(queue) : \E k \in 0..n : Release(n, k)
  \/ \E n \in 0..Len(queue) : Doubt(n)
  \/ \E i \in 1..Len(doubtful) : Arrive(i)
  \/ \E c \in Limits \cup {0} : Replace(c)

LQSpec == LQInit /\ [][LQNext]_lqVars
=============================================================================
