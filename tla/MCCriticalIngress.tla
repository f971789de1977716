-------------------------- MODULE MCCriticalIngress --------------------------
(* The jobs of the bounded instances: an alert event that may be rebuilt with *)
(* other contents, ordinary jobs, traffic, and jobs that cannot be inserted.  *)
EXTENDS CriticalIngress, TLC

CONSTANTS a, p, q, r, t, x, y

Job(k, w) == [key |-> k, work |-> w]

PlainJobs   == {Job(p, x), Job(q, x), Job(r, x)}
AlertJobs   == {Job(a, x), Job(a, y)}
MCJobs      == AlertJobs \union {Job(p, x), Job(q, x), Job(t, x)}
MCPoison    == {Job(p, x), Job(t, x)}
=============================================================================
