------------------------------- MODULE Outbox -------------------------------
(***************************************************************************)
(* What the transactional outbox promises its users, with no workers,      *)
(* leases, clocks or retries: every accepted job is open until its effects *)
(* are applied to the business tables, once, or until it is given up; a    *)
(* job that was given up can be reopened or written off by an operator.    *)
(*                                                                         *)
(* TaskStore implements this specification (see TaskStore!Abstract and     *)
(* TaskStoreProofs!Refinement).                                            *)
(***************************************************************************)
EXTENDS Naturals

CONSTANT Key            \* idempotency keys

VARIABLES
  phase,                \* "absent" | "open" | "dead" | "done"
  applied               \* how often the effects of the job were committed

vars == <<phase, applied>>

Phase == {"absent", "open", "dead", "done"}

TypeOK ==
  /\ phase \in [Key -> Phase]
  /\ applied \in [Key -> {0, 1}]

Init ==
  /\ phase = [k \in Key |-> "absent"]
  /\ applied = [k \in Key |-> 0]

\* A job of key k is durable for the first time.
Accept(k) ==
  /\ phase[k] = "absent"
  /\ phase' = [phase EXCEPT ![k] = "open"]
  /\ UNCHANGED applied

\* The effects of a set of open jobs are committed together with their
\* completion: never one without the other, never twice.
Apply(S) ==
  /\ S # {}
  /\ \A k \in S : phase[k] = "open" /\ applied[k] = 0
  /\ phase' = [k \in Key |-> IF k \in S THEN "done" ELSE phase[k]]
  /\ applied' = [k \in Key |-> IF k \in S THEN 1 ELSE applied[k]]

GiveUp(k) ==
  /\ phase[k] = "open"
  /\ phase' = [phase EXCEPT ![k] = "dead"]
  /\ UNCHANGED applied

Reopen(k) ==
  /\ phase[k] = "dead"
  /\ phase' = [phase EXCEPT ![k] = "open"]
  /\ UNCHANGED applied

\* The operator closes dead jobs without applying them.
WriteOff(S) ==
  /\ S # {}
  /\ \A k \in S : phase[k] = "dead"
  /\ phase' = [k \in Key |-> IF k \in S THEN "done" ELSE phase[k]]
  /\ UNCHANGED applied

Next ==
  \/ \E k \in Key : Accept(k) \/ GiveUp(k) \/ Reopen(k)
  \/ \E S \in SUBSET Key : Apply(S) \/ WriteOff(S)

Spec == Init /\ [][Next]_vars
=============================================================================
