------------------------ MODULE CriticalIngressProofs ------------------------
(***************************************************************************)
(* Proofs about CriticalIngress, for every set of jobs, every capacity,    *)
(* batch size and limit of retained jobs.                                  *)
(***************************************************************************)
EXTENDS CriticalIngress, SequenceTheorems, FunctionTheorems, FiniteSetTheorems, TLAPS

-----------------------------------------------------------------------------
(* Lemmas about queues of jobs *)

\* No key is twice in the queue s.
Once(s) == \A m, n \in DOMAIN s : s[m].key = s[n].key => m = n

LEMMA SeqBasics ==
  ASSUME NEW S, NEW s \in Seq(S)
  PROVE  /\ Len(s) \in Nat /\ DOMAIN s = 1..Len(s)
         /\ \A i \in 1..Len(s) : s[i] \in S
         /\ s = <<>> <=> Len(s) = 0
<1>1. Len(s) \in Nat /\ DOMAIN s = 1..Len(s) /\ s \in [1..Len(s) -> S]
  BY LenProperties
<1>2. s = <<>> <=> Len(s) = 0
  BY EmptySeq, <1>1
<1>3. QED
  BY <1>1, <1>2

LEMMA KeysOfElements ==
  ASSUME NEW s
  PROVE  KeysOf(s) = {j.key : j \in Elements(s)}
  BY DEF KeysOf, Elements

\* Distinct keys: an element is determined by its key.
LEMMA OnceElements ==
  ASSUME NEW s, Once(s), NEW i \in Elements(s), NEW j \in Elements(s), i.key = j.key
  PROVE  i = j
  BY DEF Once, Elements

LEMMA EmptyQueue ==
  /\ <<>> \in Seq(Jobs) /\ Len(<<>>) = 0
  /\ Elements(<<>>) = {} /\ KeysOf(<<>>) = {} /\ Once(<<>>)
  BY EmptySeq DEF Elements, KeysOf, Once

LEMMA ElementsType ==
  ASSUME NEW s \in Seq(Jobs)
  PROVE  /\ Elements(s) \subseteq Jobs
         /\ s = <<>> <=> Elements(s) = {}
<1>1. Len(s) \in Nat /\ DOMAIN s = 1..Len(s) /\ (\A i \in 1..Len(s) : s[i] \in Jobs)
  BY SeqBasics
<1>2. s = <<>> <=> Len(s) = 0
  BY SeqBasics
<1>3. Elements(s) \subseteq Jobs
  BY <1>1 DEF Elements
<1>4. Len(s) # 0 => s[1] \in Elements(s)
  BY <1>1 DEF Elements
<1>5. Len(s) = 0 => Elements(s) = {}
  BY <1>1 DEF Elements
<1>6. QED
  BY <1>2, <1>3, <1>4, <1>5

\* What stands in the concatenation of two queues
LEMMA ConcatQueue ==
  ASSUME NEW s \in Seq(Jobs), NEW t \in Seq(Jobs)
  PROVE  /\ s \o t \in Seq(Jobs) /\ Len(s \o t) = Len(s) + Len(t)
         /\ Elements(s \o t) = Elements(s) \union Elements(t)
         /\ KeysOf(s \o t) = KeysOf(s) \union KeysOf(t)
         /\ Once(s) /\ Once(t) /\ KeysOf(s) \intersect KeysOf(t) = {} => Once(s \o t)
         /\ Once(s \o t) => Once(s) /\ Once(t) /\ KeysOf(s) \intersect KeysOf(t) = {}
<1> DEFINE st == s \o t
<1>1. /\ st \in Seq(Jobs) /\ Len(st) = Len(s) + Len(t)
      /\ \A i \in 1 .. Len(s) + Len(t) : st[i] = IF i <= Len(s) THEN s[i] ELSE t[i - Len(s)]
  BY ConcatProperties
<1>2. /\ Len(s) \in Nat /\ Len(t) \in Nat
      /\ DOMAIN s = 1..Len(s) /\ DOMAIN t = 1..Len(t) /\ DOMAIN st = 1..(Len(s) + Len(t))
  BY <1>1, SeqBasics
<1> HIDE DEF st
<1>3. /\ \A i \in DOMAIN s : i \in DOMAIN st /\ st[i] = s[i]
      /\ \A i \in DOMAIN t : Len(s) + i \in DOMAIN st /\ st[Len(s) + i] = t[i]
      /\ \A i \in DOMAIN st : \/ i \in DOMAIN s /\ st[i] = s[i]
                              \/ i - Len(s) \in DOMAIN t /\ st[i] = t[i - Len(s)]
  BY <1>1, <1>2
<1>4. Elements(st) = Elements(s) \union Elements(t)
  BY <1>3 DEF Elements
<1>5. KeysOf(st) = KeysOf(s) \union KeysOf(t)
  BY <1>4, KeysOfElements
<1>6. Once(s) /\ Once(t) /\ KeysOf(s) \intersect KeysOf(t) = {} => Once(st)
  <2> SUFFICES ASSUME Once(s), Once(t), KeysOf(s) \intersect KeysOf(t) = {},
                      NEW m \in DOMAIN st, NEW n \in DOMAIN st, st[m].key = st[n].key
               PROVE  m = n
    BY DEF Once
  <2>1. CASE m \in DOMAIN s /\ n \in DOMAIN s
    BY <1>3, <2>1 DEF Once
  <2>2. CASE m \notin DOMAIN s /\ n \notin DOMAIN s
    <3>1. m - Len(s) = n - Len(s)
      BY <1>3, <2>2 DEF Once
    <3>2. QED
      BY <1>2, <3>1
  <2>3. CASE m \in DOMAIN s /\ n \notin DOMAIN s
    <3>1. s[m].key \in KeysOf(s) /\ t[n - Len(s)].key \in KeysOf(t)
      BY <1>3, <2>3 DEF KeysOf
    <3>2. s[m].key = t[n - Len(s)].key
      BY <1>3, <2>3
    <3>3. QED
      BY <3>1, <3>2
  <2>4. CASE m \notin DOMAIN s /\ n \in DOMAIN s
    <3>1. s[n].key \in KeysOf(s) /\ t[m - Len(s)].key \in KeysOf(t)
      BY <1>3, <2>4 DEF KeysOf
    <3>2. s[n].key = t[m - Len(s)].key
      BY <1>3, <2>4
    <3>3. QED
      BY <3>1, <3>2
  <2>5. QED
    BY <2>1, <2>2, <2>3, <2>4
<1>7. Once(st) => Once(s) /\ Once(t) /\ KeysOf(s) \intersect KeysOf(t) = {}
  <2> SUFFICES ASSUME Once(st)
               PROVE  Once(s) /\ Once(t) /\ KeysOf(s) \intersect KeysOf(t) = {}
    OBVIOUS
  <2>1. Once(s)
    BY <1>3 DEF Once
  <2>2. ASSUME NEW m \in DOMAIN t, NEW n \in DOMAIN t, t[m].key = t[n].key
        PROVE  m = n
    <3>1. Len(s) + m = Len(s) + n
      BY <1>3, <2>2 DEF Once
    <3>2. QED
      BY <1>2, <3>1
  <2>3. ASSUME NEW m \in DOMAIN s, NEW n \in DOMAIN t, s[m].key = t[n].key
        PROVE  FALSE
    <3>1. m = Len(s) + n
      BY <1>3, <2>3 DEF Once
    <3>2. QED
      BY <1>2, <3>1
  <2>4. QED
    BY <2>1, <2>2, <2>3 DEF Once, KeysOf
<1>8. QED
  BY <1>1, <1>4, <1>5, <1>6, <1>7 DEF st

LEMMA OneJob ==
  ASSUME NEW j \in Jobs
  PROVE  /\ <<j>> \in Seq(Jobs) /\ Len(<<j>>) = 1
         /\ Elements(<<j>>) = {j} /\ KeysOf(<<j>>) = {j.key} /\ Once(<<j>>)
<1>1. <<j>> \in Seq(Jobs) /\ Len(<<j>>) = 1 /\ DOMAIN <<j>> = {1} /\ <<j>>[1] = j
  OBVIOUS
<1>2. QED
  BY <1>1 DEF Elements, KeysOf, Once

LEMMA AppendQueue ==
  ASSUME NEW s \in Seq(Jobs), NEW j \in Jobs
  PROVE  /\ Append(s, j) \in Seq(Jobs) /\ Len(Append(s, j)) = Len(s) + 1
         /\ Append(s, j) = s \o <<j>>
         /\ Elements(Append(s, j)) = Elements(s) \union {j}
         /\ KeysOf(Append(s, j)) = KeysOf(s) \union {j.key}
         /\ Once(s) /\ j.key \notin KeysOf(s) => Once(Append(s, j))
<1>1. Append(s, j) = s \o <<j>>
  BY AppendIsConcat
<1> DEFINE one == <<j>>
<1>2. one \in Seq(Jobs) /\ Len(one) = 1 /\ Elements(one) = {j} /\ KeysOf(one) = {j.key} /\ Once(one)
  BY OneJob
<1>3. /\ s \o one \in Seq(Jobs) /\ Len(s \o one) = Len(s) + Len(one)
      /\ Elements(s \o one) = Elements(s) \union Elements(one)
      /\ KeysOf(s \o one) = KeysOf(s) \union KeysOf(one)
      /\ Once(s) /\ Once(one) /\ KeysOf(s) \intersect KeysOf(one) = {} => Once(s \o one)
  BY <1>2, ConcatQueue
<1>4. Append(s, j) = s \o one
  BY <1>1
<1> HIDE DEF one
<1>5. QED
  BY <1>1, <1>2, <1>3, <1>4

\* A queue is what stands before a cut and what stands behind it.
LEMMA CutQueue ==
  ASSUME NEW s \in Seq(Jobs), NEW n \in 0..Len(s)
  PROVE  /\ SubSeq(s, 1, n) \in Seq(Jobs) /\ Len(SubSeq(s, 1, n)) = n
         /\ SubSeq(s, n + 1, Len(s)) \in Seq(Jobs)
         /\ Len(SubSeq(s, n + 1, Len(s))) = Len(s) - n
         /\ SubSeq(s, 1, n) \o SubSeq(s, n + 1, Len(s)) = s
         /\ \A i \in 1..n : SubSeq(s, 1, n)[i] = s[i]
<1>1. Len(s) \in Nat /\ \A i \in 1..Len(s) : s[i] \in Jobs
  BY SeqBasics
<1>2. \A i \in 1..n : s[i] \in Jobs
  BY <1>1
<1>3. /\ SubSeq(s, 1, n) \in Seq(Jobs)
      /\ Len(SubSeq(s, 1, n)) = IF 1 <= n THEN n - 1 + 1 ELSE 0
      /\ \A i \in 1 .. n - 1 + 1 : SubSeq(s, 1, n)[i] = s[1 + i - 1]
  BY <1>1, <1>2, SubSeqProperties
<1>4. \A i \in (n + 1)..Len(s) : s[i] \in Jobs
  BY <1>1
<1>5. /\ SubSeq(s, n + 1, Len(s)) \in Seq(Jobs)
      /\ Len(SubSeq(s, n + 1, Len(s))) = IF n + 1 <= Len(s) THEN Len(s) - (n + 1) + 1 ELSE 0
  BY <1>1, <1>4, SubSeqProperties
<1>6. SubSeq(s, 1, n) \o SubSeq(s, n + 1, Len(s)) = SubSeq(s, 1, Len(s))
  <2>1. 1 \in 1..(Len(s) + 1) /\ n \in (1 - 1)..Len(s) /\ Len(s) \in n..Len(s)
    BY <1>1
  <2>2. QED
    BY <2>1, ConcatAdjacentSubSeq
<1>7. SubSeq(s, 1, Len(s)) = s
  BY SubSeqFull
<1>8. n \in Nat /\ n <= Len(s)
  BY <1>1
<1>9. Len(SubSeq(s, 1, n)) = n /\ \A i \in 1..n : SubSeq(s, 1, n)[i] = s[i]
  BY <1>3, <1>8
<1>10. Len(SubSeq(s, n + 1, Len(s))) = Len(s) - n
  BY <1>1, <1>5, <1>8
<1>11. QED
  BY <1>3, <1>5, <1>6, <1>7, <1>9, <1>10

LEMMA HeadTailQueue ==
  ASSUME NEW s \in Seq(Jobs), s # <<>>
  PROVE  /\ Head(s) \in Jobs /\ Tail(s) \in Seq(Jobs) /\ Len(Tail(s)) = Len(s) - 1
         /\ s = <<Head(s)>> \o Tail(s)
<1>1. /\ Head(s) \in Jobs /\ Tail(s) \in Seq(Jobs) /\ Len(Tail(s)) = Len(s) - 1
  BY HeadTailProperties
<1>2. Len(s) \in Nat \ {0}
  BY EmptySeq
<1>3. /\ SubSeq(s, 1, 1) \o SubSeq(s, 1 + 1, Len(s)) = s
      /\ SubSeq(s, 1, 1) \in Seq(Jobs) /\ Len(SubSeq(s, 1, 1)) = 1 /\ SubSeq(s, 1, 1)[1] = s[1]
  BY <1>2, CutQueue
<1>4. Tail(s) = SubSeq(s, 2, Len(s))
  BY TailIsSubSeq
<1>5. Head(s) = s[1]
  BY <1>2
<1>6. SubSeq(s, 1, 1) = <<Head(s)>>
  <2>1. <<Head(s)>> \in Seq(Jobs) /\ Len(<<Head(s)>>) = 1 /\ <<Head(s)>>[1] = Head(s)
    BY <1>1
  <2>2. /\ Len(SubSeq(s, 1, 1)) = Len(<<Head(s)>>)
        /\ \A i \in 1..Len(SubSeq(s, 1, 1)) : SubSeq(s, 1, 1)[i] = <<Head(s)>>[i]
    BY <1>3, <1>5, <2>1
  <2>3. QED
    BY <1>3, <2>1, <2>2, SeqEqual
<1>7. QED
  BY <1>1, <1>3, <1>4, <1>6

\* A prefix is what stands before a cut, and stays one when the queue grows.
LEMMA PrefixQueue ==
  ASSUME NEW s \in Seq(Jobs), NEW t \in Seq(Jobs)
  PROVE  IsPrefix(s, t) <=> Len(s) <= Len(t) /\ s = SubSeq(t, 1, Len(s))
<1>1. SubSeq(s, 1, Len(s)) = s
  BY SubSeqFull
<1>2. QED
  BY <1>1 DEF IsPrefix

LEMMA PrefixCut ==
  ASSUME NEW s \in Seq(Jobs), NEW t \in Seq(Jobs), IsPrefix(s, t)
  PROVE  /\ Len(s) \in 0..Len(t)
         /\ SubSeq(t, Len(s) + 1, Len(t)) \in Seq(Jobs)
         /\ t = s \o SubSeq(t, Len(s) + 1, Len(t))
<1>1. Len(s) \in Nat /\ Len(t) \in Nat
  BY SeqBasics
<1>2. Len(s) \in 0..Len(t) /\ s = SubSeq(t, 1, Len(s))
  BY <1>1, PrefixQueue
<1>3. QED
  BY <1>2, CutQueue

LEMMA PrefixGrows ==
  ASSUME NEW s \in Seq(Jobs), NEW t \in Seq(Jobs), NEW u \in Seq(Jobs), IsPrefix(s, t)
  PROVE  IsPrefix(s, t \o u)
<1>1. /\ Len(s) \in Nat /\ Len(t) \in Nat /\ Len(u) \in Nat
      /\ Len(s) <= Len(t) /\ s = SubSeq(t, 1, Len(s))
  BY SeqBasics, PrefixQueue
<1>2. t \o u \in Seq(Jobs) /\ Len(t \o u) = Len(t) + Len(u)
  BY ConcatProperties
<1>3. SubSeq(t \o u, 1, Len(s)) = SubSeq(t, 1, Len(s))
  <2>1. CASE Len(s) = 0
    BY <2>1, SubSeqEmpty
  <2>2. CASE Len(s) # 0
    <3>1. 1 \in 1..Len(t) /\ Len(s) \in 1..Len(t)
      BY <1>1, <2>2
    <3>2. QED
      BY <3>1, SubSeqOfConcat1
  <2>3. QED
    BY <2>1, <2>2
<1>4. Len(s) <= Len(t \o u) /\ s = SubSeq(t \o u, 1, Len(s))
  BY <1>1, <1>2, <1>3
<1>5. QED
  BY <1>2, <1>4, PrefixQueue

\* Without takes the job with a key out of a queue and leaves the others.
LEMMA WithoutQueue ==
  ASSUME NEW s \in Seq(Jobs), Once(s), NEW j \in Elements(s)
  PROVE  /\ Without(s, j.key) \in Seq(Jobs) /\ Len(Without(s, j.key)) = Len(s) - 1
         /\ Elements(Without(s, j.key)) = Elements(s) \ {j}
         /\ KeysOf(Without(s, j.key)) = KeysOf(s) \ {j.key}
         /\ Once(Without(s, j.key)) /\ j.key \in KeysOf(s)
<1>1. Len(s) \in Nat /\ DOMAIN s = 1..Len(s) /\ \A m \in 1..Len(s) : s[m] \in Jobs
  BY SeqBasics
<1>2. PICK i \in DOMAIN s : s[i] = j
  BY DEF Elements
<1>3. j.key \in KeysOf(s)
  BY <1>2 DEF KeysOf
<1>4. (CHOOSE m \in DOMAIN s : s[m].key = j.key) = i
  BY <1>2 DEF Once
<1> DEFINE before == SubSeq(s, 1, i - 1)
           from == SubSeq(s, i, Len(s))
           after == SubSeq(s, i + 1, Len(s))
<1>5. Without(s, j.key) = before \o after
  BY <1>3, <1>4 DEF Without, RemoveAt
<1>6. /\ before \in Seq(Jobs) /\ Len(before) = i - 1
      /\ from \in Seq(Jobs) /\ s = before \o from
  <2>1. i - 1 \in 0..Len(s) /\ i - 1 + 1 = i
    BY <1>1
  <2>2. QED
    BY <2>1, CutQueue
<1>7. from = <<j>> \o after
  <2>1. i \in 1..Len(s) /\ Len(s) \in i..Len(s)
    BY <1>1
  <2>2. SubSeq(s, i, Len(s)) = <<s[i]>> \o SubSeq(s, i + 1, Len(s))
    BY <2>1, SubSeqRecursiveFirst
  <2>3. QED
    BY <1>2, <2>2
<1>8. after \in Seq(Jobs) /\ Len(after) = Len(s) - i
  <2>1. i \in 0..Len(s)
    BY <1>1
  <2>2. QED
    BY <2>1, CutQueue
<1>9. i \in 1..Len(s) /\ j \in Jobs
  BY <1>1, <1>2
<1> DEFINE one == <<j>>
<1>10. one \in Seq(Jobs) /\ Elements(one) = {j} /\ KeysOf(one) = {j.key} /\ Once(one)
  BY <1>9, OneJob
<1>11. from = one \o after
  BY <1>7
<1> HIDE DEF before, from, after, one
<1>12. /\ Elements(s) = Elements(before) \union ({j} \union Elements(after))
       /\ KeysOf(s) = KeysOf(before) \union ({j.key} \union KeysOf(after))
       /\ Once(before) /\ Once(after)
       /\ KeysOf(before) \intersect ({j.key} \union KeysOf(after)) = {}
       /\ j.key \notin KeysOf(after)
  <2>1. /\ Elements(from) = {j} \union Elements(after)
        /\ KeysOf(from) = {j.key} \union KeysOf(after)
        /\ Once(from) => Once(after) /\ {j.key} \intersect KeysOf(after) = {}
    BY <1>8, <1>10, <1>11, ConcatQueue
  <2>2. /\ Elements(s) = Elements(before) \union Elements(from)
        /\ KeysOf(s) = KeysOf(before) \union KeysOf(from)
        /\ Once(s) => Once(before) /\ Once(from) /\ KeysOf(before) \intersect KeysOf(from) = {}
    BY <1>6, ConcatQueue
  <2>3. QED
    BY <2>1, <2>2
<1>13. /\ before \o after \in Seq(Jobs) /\ Len(before \o after) = Len(before) + Len(after)
       /\ Elements(before \o after) = Elements(before) \union Elements(after)
       /\ KeysOf(before \o after) = KeysOf(before) \union KeysOf(after)
       /\ Once(before \o after)
  BY <1>6, <1>8, <1>12, ConcatQueue
<1>14. j \notin Elements(before) /\ j \notin Elements(after)
  BY <1>12, KeysOfElements
<1>15. Len(before) + Len(after) = Len(s) - 1
  BY <1>1, <1>6, <1>8, <1>9
<1>16. QED
  BY <1>3, <1>5, <1>12, <1>13, <1>14, <1>15

\* A queue has at most as many elements as it is long.
LEMMA ElementsFinite ==
  ASSUME NEW s \in Seq(Jobs)
  PROVE  IsFiniteSet(Elements(s)) /\ Cardinality(Elements(s)) <= Len(s)
<1>1. Len(s) \in Nat /\ DOMAIN s = 1..Len(s) /\ s \in [1..Len(s) -> Elements(s)]
  <2>1. Len(s) \in Nat /\ DOMAIN s = 1..Len(s) /\ s \in [1..Len(s) -> Jobs]
    BY LenProperties
  <2>2. QED
    BY <2>1 DEF Elements
<1>2. s \in Surjection(1..Len(s), Elements(s))
  <2>1. \A e \in Elements(s) : \E i \in 1..Len(s) : s[i] = e
    BY <1>1 DEF Elements
  <2>2. QED
    BY <1>1, <2>1, Fun_IsSurj
<1>3. IsFiniteSet(1..Len(s)) /\ Cardinality(1..Len(s)) = Len(s)
  <2>1. 1 \in Int /\ Len(s) \in Int
    BY <1>1
  <2>2. /\ IsFiniteSet(1..Len(s))
        /\ Cardinality(1..Len(s)) = IF 1 > Len(s) THEN 0 ELSE Len(s) - 1 + 1
    BY <2>1, FS_Interval
  <2>3. QED
    BY <1>1, <2>2
<1>4. QED
  BY <1>2, <1>3, FS_Surjection

-----------------------------------------------------------------------------
(* The inductive invariant *)

\* KeysOnce, as the lemmas about queues speak of it
Queued(p, r) == Once(p) /\ Once(r) /\ KeysOf(p) \intersect KeysOf(r) = {}

\* A key that is in memory is reserved, and is not submitted again; the key of
\* an alert whose row is complete may be free although its job is still pending.
\* What is retained is not in the table, so that its key cannot become free.
Reservations ==
  /\ settled \subseteq Alert
  /\ KeysOf(retained) \subseteq reserved
  /\ KeysOf(pending) \subseteq reserved \union settled
  /\ \A k \in Alert \ settled : table[k] # NoWork => k \in reserved
  /\ \A k \in (KeysOf(retained) \intersect Alert) \ settled : table[k] = NoWork

\* A call has jobs, each once, and its outcome is true of them.
Working == wpc \in {"many", "each"}

Calls ==
  /\ Working => todo # <<>> /\ Once(todo)
  /\ Working /\ outcome = "ok" => \A j \in Calling : Durable(j)
  /\ Working /\ outcome = "conflict" => \E j \in Calling : Conflicting(j)

\* The types of the queues, of the table and of the tasks
MemoryType ==
  /\ pending \in Seq(Jobs) /\ Len(pending) <= Capacity
  /\ retained \in Seq(Jobs) /\ Len(retained) <= RetainLimit
  /\ reserved \subseteq Key
  /\ accepted \in Seq(Jobs)
  /\ isolated \subseteq Jobs

StoreType ==
  /\ table \in [Key -> Work \union {NoWork}]
  /\ settled \subseteq Key
  /\ todo \in Seq(Jobs)

ControlType ==
  /\ wpc \in {"idle", "many", "each", "stopped"}
  /\ outcome \in {"running", "ok", "conflict", "error"}
  /\ mpc \in {"sleep", "stats", "stopped"}
  /\ cpc \in {"open", "gather", "drain", "ingress", "aborted", "down"}
  /\ cancelled \subseteq {"writer", "maintenance"}

LEMMA Types == TypeOK <=> MemoryType /\ StoreType /\ ControlType
  BY DEF TypeOK, MemoryType, StoreType, ControlType

Safe == CallsArePending /\ KeysOnce /\ Reservations /\ Calls /\ NothingLost

IInv == TypeOK /\ Safe

LEMMA QueuedParts ==
  ASSUME NEW p, NEW r
  PROVE  Queued(p, r) <=>
           /\ \A s \in {p, r} : \A m, n \in DOMAIN s : s[m].key = s[n].key => m = n
           /\ KeysOf(p) \intersect KeysOf(r) = {}
<1>1. ASSUME Queued(p, r), NEW s \in {p, r},
             NEW m \in DOMAIN s, NEW n \in DOMAIN s, s[m].key = s[n].key
      PROVE  m = n
  <2>1. CASE s = p
    BY <1>1, <2>1 DEF Queued, Once
  <2>2. CASE s = r
    BY <1>1, <2>2 DEF Queued, Once
  <2>3. QED
    BY <1>1, <2>1, <2>2
<1>2. QED
  BY <1>1 DEF Queued, Once

\* The jobs of a call are pending, wherever the writer is.
LEMMA CallingJobs ==
  ASSUME IInv, Working
  PROVE  /\ todo \in Seq(Jobs) /\ todo # <<>> /\ Once(todo)
         /\ Head(todo) \in Elements(todo)
         /\ Calling \subseteq Elements(todo) /\ Elements(todo) \subseteq Elements(pending)
         /\ Len(todo) = 1 => Calling = {Head(todo)}
         /\ wpc = "each" => Calling = {Head(todo)}
<1>1. todo \in Seq(Jobs) /\ pending \in Seq(Jobs) /\ todo # <<>> /\ Once(todo)
  BY DEF IInv, Safe, TypeOK, Calls
<1>2. Len(todo) \in Nat \ {0} /\ DOMAIN todo = 1..Len(todo)
  BY <1>1, SeqBasics
<1>3. Head(todo) = todo[1] /\ 1 \in DOMAIN todo
  BY <1>1, <1>2
<1>4. Head(todo) \in Elements(todo)
  BY <1>3 DEF Elements
<1>5. Len(todo) = 1 => Elements(todo) = {Head(todo)}
  BY <1>2, <1>3 DEF Elements
<1>6. Elements(todo) \subseteq Elements(pending)
  <2>1. CASE wpc = "each"
    BY <2>1 DEF IInv, Safe, CallsArePending
  <2>2. CASE wpc = "many"
    <3>1. IsPrefix(todo, pending)
      BY <2>2 DEF IInv, Safe, CallsArePending
    <3>2. /\ SubSeq(pending, Len(todo) + 1, Len(pending)) \in Seq(Jobs)
          /\ pending = todo \o SubSeq(pending, Len(todo) + 1, Len(pending))
      BY <1>1, <3>1, PrefixCut
    <3> DEFINE rest == SubSeq(pending, Len(todo) + 1, Len(pending))
    <3>3. Elements(todo \o rest) = Elements(todo) \union Elements(rest)
      BY <1>1, <3>2, ConcatQueue
    <3>4. QED
      BY <3>2, <3>3
  <2>3. QED
    BY <2>1, <2>2 DEF Working
<1>7. QED
  BY <1>1, <1>4, <1>5, <1>6 DEF Calling, Working

-----------------------------------------------------------------------------
(* What is handed over *)

LEMMA AcceptingType ==
  ASSUME TypeOK, NEW j \in Jobs
  PROVE  Accepting(j) \in Seq(Jobs) /\ Elements(Accepting(j)) = Elements(accepted) \union {j}
<1>1. accepted \in Seq(Jobs)
  BY DEF TypeOK
<1>2. /\ Append(accepted, j) \in Seq(Jobs)
      /\ Elements(Append(accepted, j)) = Elements(accepted) \union {j}
  BY <1>1, AppendQueue
<1>3. QED
  BY <1>1, <1>2 DEF Accepting

\* A step that appends u to the queue of the ingress, moves what is retained,
\* and leaves the table and the writer alone
LEMMA IntakeKeeps ==
  ASSUME IInv, NEW u \in Seq(Jobs),
         pending' = pending \o u, retained' \in Seq(Jobs), accepted' \in Seq(Jobs),
         Queued(pending', retained'),
         reserved \subseteq reserved',
         KeysOf(u) \subseteq reserved', KeysOf(retained') \subseteq reserved',
         \A k \in (KeysOf(retained') \intersect Alert) \ settled : table[k] = NoWork,
         Elements(retained) \subseteq Elements(pending') \union Elements(retained'),
         Elements(accepted') \subseteq
           Elements(accepted) \union Elements(pending') \union Elements(retained'),
         UNCHANGED <<table, settled, writer, isolated>>
  PROVE  Safe'
<1>1. pending \in Seq(Jobs) /\ todo \in Seq(Jobs)
  BY DEF IInv, TypeOK
<1>2. /\ Elements(pending') = Elements(pending) \union Elements(u)
      /\ KeysOf(pending') = KeysOf(pending) \union KeysOf(u)
  BY <1>1, ConcatQueue
<1>3. CallsArePending'
  <2>1. wpc = "many" => IsPrefix(todo, pending')
    BY <1>1, PrefixGrows DEF IInv, Safe, CallsArePending
  <2>2. wpc = "each" => Elements(todo) \subseteq Elements(pending')
    BY <1>2 DEF IInv, Safe, CallsArePending
  <2>3. UNCHANGED <<wpc, todo>>
    BY DEF writer
  <2>4. QED
    BY <2>1, <2>2, <2>3 DEF CallsArePending
<1>4. KeysOnce'
  BY QueuedParts DEF KeysOnce
<1>5. Reservations'
  BY <1>2 DEF IInv, Safe, Reservations
<1>6. Calls'
  BY DEF IInv, Safe, Calls, Working, Calling, Durable, Conflicting, writer
<1>7. NothingLost'
  BY <1>2 DEF IInv, Safe, NothingLost, Durable, Conflicting
<1>8. QED
  BY <1>3, <1>4, <1>5, <1>6, <1>7 DEF Safe

\* A job of a key that is not reserved is queued nowhere, and the row of its
\* alert does not exist or is complete.
LEMMA FreeKey ==
  ASSUME IInv, NEW j \in Jobs, j.key \notin reserved
  PROVE  /\ j.key \in Key
         /\ j.key \notin KeysOf(retained)
         /\ j.key \in KeysOf(pending) => j.key \in Alert
         /\ j.key \in Alert \ settled => table[j.key] = NoWork
<1>1. j.key \in Key
  BY IngressAssumption
<1>2. QED
  BY <1>1 DEF IInv, Safe, Reservations

\* AsyncPipeline.submit, whoever calls it with a key that was free
LEMMA HandOverKeeps ==
  ASSUME IInv, NEW j \in Jobs, ~Closed, j.key \notin reserved, HandOver(j),
         reserved' = reserved \union {j.key},
         UNCHANGED <<table, settled, writer, isolated>>
  PROVE  MemoryType' /\ Safe'
<1>1. /\ MemoryType /\ pending \in Seq(Jobs) /\ retained \in Seq(Jobs)
      /\ Queued(pending, retained)
  BY Types, QueuedParts DEF IInv, Safe, KeysOnce, MemoryType
<1>2. Len(pending) \in Nat /\ Len(retained) \in Nat /\ Capacity \in Nat /\ RetainLimit \in Nat
  BY <1>1, IngressAssumption DEF MemoryType
<1>3. /\ accepted' \in Seq(Jobs)
      /\ Elements(accepted') = Elements(accepted) \union {j}
  BY AcceptingType DEF HandOver, IInv
<1>4. reserved \subseteq reserved' /\ reserved' \subseteq Key
  BY <1>1, FreeKey DEF MemoryType
<1>5. CASE Takes(j) /\ pending' = Append(pending, j) /\ UNCHANGED retained
  <2> DEFINE u == <<j>>
  <2>1. /\ pending' \in Seq(Jobs) /\ Len(pending') = Len(pending) + 1 /\ pending' = pending \o u
        /\ Elements(pending') = Elements(pending) \union {j}
        /\ KeysOf(pending') = KeysOf(pending) \union {j.key}
        /\ j.key \notin KeysOf(pending) => Once(pending')
    BY <1>1, <1>5, AppendQueue DEF Queued
  <2>2. u \in Seq(Jobs) /\ KeysOf(u) = {j.key}
    BY OneJob
  <2> HIDE DEF u
  <2>3. Queued(pending', retained')
    BY <1>1, <1>5, <2>1, FreeKey DEF Queued, Takes
  <2>4. KeysOf(retained') \subseteq reserved'
    BY <1>4, <1>5 DEF IInv, Safe, Reservations
  <2>5. \A k \in (KeysOf(retained') \intersect Alert) \ settled : table[k] = NoWork
    BY <1>5 DEF IInv, Safe, Reservations
  <2>6. Safe'
    BY <1>1, <1>3, <1>4, <1>5, <2>1, <2>2, <2>3, <2>4, <2>5, IntakeKeeps
  <2>7. Len(pending') <= Capacity
    BY <1>2, <1>5, <2>1 DEF Takes
  <2>8. QED
    BY <1>1, <1>3, <1>4, <1>5, <2>1, <2>6, <2>7 DEF MemoryType
<1>6. CASE ~Takes(j) /\ ~Has(j) /\ ~Clashes(j) /\ Len(retained) < RetainLimit
           /\ retained' = Append(retained, j) /\ UNCHANGED pending
  <2>1. /\ retained' \in Seq(Jobs) /\ Len(retained') = Len(retained) + 1
        /\ Elements(retained') = Elements(retained) \union {j}
        /\ KeysOf(retained') = KeysOf(retained) \union {j.key}
        /\ j.key \notin KeysOf(retained) => Once(retained')
    BY <1>1, <1>6, AppendQueue DEF Queued
  <2>2. j.key \notin KeysOf(pending)
    BY <1>6 DEF Has, Clashes
  <2>3. Queued(pending', retained')
    BY <1>1, <1>6, <2>1, <2>2, FreeKey DEF Queued
  <2> DEFINE u == <<>>
  <2>4. u \in Seq(Jobs) /\ KeysOf(u) = {} /\ pending' = pending \o u
    BY <1>1, <1>6, EmptyQueue, ConcatEmptySeq
  <2> HIDE DEF u
  <2>5. KeysOf(retained') \subseteq reserved'
    BY <2>1 DEF IInv, Safe, Reservations
  <2>6. \A k \in (KeysOf(retained') \intersect Alert) \ settled : table[k] = NoWork
    BY <2>1, FreeKey DEF IInv, Safe, Reservations
  <2>7. Safe'
    BY <1>1, <1>3, <1>4, <2>1, <2>3, <2>4, <2>5, <2>6, IntakeKeeps
  <2>8. Len(retained') <= RetainLimit
    BY <1>2, <1>6, <2>1
  <2>9. QED
    BY <1>1, <1>3, <1>4, <1>6, <2>1, <2>7, <2>8 DEF MemoryType
<1>7. CASE Has(j) /\ UNCHANGED <<pending, retained>>
  <2> DEFINE u == <<>>
  <2>1. u \in Seq(Jobs) /\ KeysOf(u) = {} /\ pending' = pending \o u
    BY <1>1, <1>7, EmptyQueue, ConcatEmptySeq
  <2> HIDE DEF u
  <2>2. j \in Elements(pending')
    BY <1>7 DEF Has
  <2>3. Queued(pending', retained')
    BY <1>1, <1>7
  <2>4. KeysOf(retained') \subseteq reserved'
    BY <1>4, <1>7 DEF IInv, Safe, Reservations
  <2>5. \A k \in (KeysOf(retained') \intersect Alert) \ settled : table[k] = NoWork
    BY <1>7 DEF IInv, Safe, Reservations
  <2>6. Safe'
    BY <1>1, <1>3, <1>4, <1>7, <2>1, <2>2, <2>3, <2>4, <2>5, IntakeKeeps
  <2>7. QED
    BY <1>1, <1>3, <1>4, <1>7, <2>6 DEF MemoryType
<1>8. QED
  BY <1>5, <1>6, <1>7, FreeKey DEF HandOver

\* What is retained and admitted fits.
LEMMA AdmittedRange ==
  ASSUME MemoryType
  PROVE  /\ Admitted \in 0..Len(retained) /\ Len(pending) + Admitted <= Capacity
<1>1. Len(pending) \in Nat /\ Len(retained) \in Nat /\ Capacity \in Nat /\ Len(pending) <= Capacity
  BY SeqBasics, IngressAssumption DEF MemoryType
<1> DEFINE room == IF Closed THEN 0 ELSE Capacity - Len(pending)
<1>2. room \in Nat /\ Len(pending) + room <= Capacity
  BY <1>1
<1>3. Admitted = IF Len(retained) < room THEN Len(retained) ELSE room
  BY DEF Admitted
<1> HIDE DEF room
<1>4. QED
  BY <1>1, <1>2, <1>3

\* _admit_retained
LEMMA AdmitKeeps ==
  ASSUME IInv, Admit, UNCHANGED <<table, settled, writer, isolated>>,
         UNCHANGED <<reserved, accepted>>
  PROVE  MemoryType' /\ Safe'
<1>1. /\ MemoryType /\ pending \in Seq(Jobs) /\ retained \in Seq(Jobs)
      /\ Queued(pending, retained)
  BY Types, QueuedParts DEF IInv, Safe, KeysOnce, MemoryType
<1>2. Admitted \in 0..Len(retained) /\ Len(pending) + Admitted <= Capacity
  BY <1>1, AdmittedRange
<1> DEFINE u == SubSeq(retained, 1, Admitted)
           rest == SubSeq(retained, Admitted + 1, Len(retained))
<1>3. /\ u \in Seq(Jobs) /\ Len(u) = Admitted
      /\ rest \in Seq(Jobs) /\ Len(rest) = Len(retained) - Admitted
      /\ u \o rest = retained
  BY <1>1, <1>2, CutQueue
<1>4. pending' = pending \o u /\ retained' = rest
  BY DEF Admit
<1> HIDE DEF u, rest
<1>5. /\ Elements(retained) = Elements(u) \union Elements(rest)
      /\ KeysOf(retained) = KeysOf(u) \union KeysOf(rest)
      /\ Once(u) /\ Once(rest) /\ KeysOf(u) \intersect KeysOf(rest) = {}
  <2>1. Once(u \o rest)
    BY <1>1, <1>3 DEF Queued
  <2>2. /\ Elements(u \o rest) = Elements(u) \union Elements(rest)
        /\ KeysOf(u \o rest) = KeysOf(u) \union KeysOf(rest)
        /\ Once(u) /\ Once(rest) /\ KeysOf(u) \intersect KeysOf(rest) = {}
    BY <1>3, <2>1, ConcatQueue
  <2>3. QED
    BY <1>3, <2>2
<1>6. KeysOf(pending) \intersect KeysOf(u) = {} /\ KeysOf(pending) \intersect KeysOf(rest) = {}
  BY <1>1, <1>5 DEF Queued
<1>7. /\ pending' \in Seq(Jobs) /\ Len(pending') = Len(pending) + Len(u)
      /\ Elements(pending') = Elements(pending) \union Elements(u)
      /\ KeysOf(pending') = KeysOf(pending) \union KeysOf(u)
      /\ Once(pending')
  BY <1>1, <1>3, <1>4, <1>5, <1>6, ConcatQueue DEF Queued
<1>8. Queued(pending', retained')
  BY <1>4, <1>5, <1>6, <1>7 DEF Queued
<1>9. KeysOf(u) \subseteq reserved' /\ KeysOf(retained') \subseteq reserved'
  BY <1>4, <1>5 DEF IInv, Safe, Reservations
<1>10. \A k \in (KeysOf(retained') \intersect Alert) \ settled : table[k] = NoWork
  BY <1>4, <1>5 DEF IInv, Safe, Reservations
<1>11. Elements(retained) \subseteq Elements(pending') \union Elements(retained')
  BY <1>4, <1>5, <1>7
<1>12. Safe'
  BY <1>1, <1>3, <1>4, <1>8, <1>9, <1>10, <1>11, IntakeKeeps DEF MemoryType
<1>13. Len(pending') <= Capacity /\ Len(retained') <= RetainLimit
  <2>1. Len(retained) \in Nat /\ Len(retained) <= RetainLimit /\ RetainLimit \in Nat
    BY <1>1, SeqBasics, IngressAssumption DEF MemoryType
  <2>2. QED
    BY <1>2, <1>3, <1>4, <1>7, <2>1
<1>14. QED
  BY <1>1, <1>3, <1>4, <1>7, <1>12, <1>13 DEF MemoryType

\* The pass of _maintenance that flushes traffic: nothing stays retained.
LEMMA FlushFlowKeeps ==
  ASSUME IInv, NEW t \in Jobs, FlushFlow(t),
         Admitted = Len(retained), Len(pending) + Admitted < Capacity,
         pending' = pending \o Append(retained, t), retained' = <<>>,
         accepted' = Accepting(t),
         UNCHANGED <<table, settled, writer, isolated>>
  PROVE  MemoryType' /\ Safe'
<1>1. /\ MemoryType /\ pending \in Seq(Jobs) /\ retained \in Seq(Jobs)
      /\ Queued(pending, retained)
  BY Types, QueuedParts DEF IInv, Safe, KeysOnce, MemoryType
<1>2. /\ accepted' \in Seq(Jobs)
      /\ Elements(accepted') = Elements(accepted) \union {t}
  BY AcceptingType DEF IInv
<1>3. t.key \notin reserved /\ reserved' = reserved \union {t.key} /\ t.key \notin Alert
  BY IngressAssumption DEF FlushFlow
<1>4. t.key \in Key /\ t.key \notin KeysOf(retained) /\ t.key \notin KeysOf(pending)
  BY <1>3, FreeKey
<1> DEFINE u == Append(retained, t)
<1>5. /\ u \in Seq(Jobs) /\ Len(u) = Len(retained) + 1
      /\ Elements(u) = Elements(retained) \union {t}
      /\ KeysOf(u) = KeysOf(retained) \union {t.key}
      /\ Once(u)
  BY <1>1, <1>4, AppendQueue DEF Queued
<1>6. pending' = pending \o u
  OBVIOUS
<1> HIDE DEF u
<1>7. KeysOf(pending) \intersect KeysOf(u) = {}
  BY <1>1, <1>4, <1>5 DEF Queued
<1>8. /\ pending' \in Seq(Jobs) /\ Len(pending') = Len(pending) + Len(u)
      /\ Elements(pending') = Elements(pending) \union Elements(u)
      /\ Once(pending')
  <2>1. Once(pending)
    BY <1>1 DEF Queued
  <2>2. /\ pending \o u \in Seq(Jobs) /\ Len(pending \o u) = Len(pending) + Len(u)
        /\ Elements(pending \o u) = Elements(pending) \union Elements(u)
        /\ Once(pending \o u)
    BY <1>1, <1>5, <1>7, <2>1, ConcatQueue, Zenon
  <2>3. QED
    BY <1>6, <2>2
<1>9. /\ retained' \in Seq(Jobs) /\ Len(retained') = 0 /\ Elements(retained') = {}
      /\ KeysOf(retained') = {} /\ Once(retained')
  BY EmptyQueue
<1>10. Queued(pending', retained')
  BY <1>8, <1>9 DEF Queued
<1>11. KeysOf(u) \subseteq reserved' /\ reserved \subseteq reserved'
  BY <1>3, <1>5 DEF IInv, Safe, Reservations
<1>12. KeysOf(retained') \subseteq reserved'
       /\ \A k \in (KeysOf(retained') \intersect Alert) \ settled : table[k] = NoWork
  BY <1>9
<1>13. /\ Elements(retained) \subseteq Elements(pending') \union Elements(retained')
       /\ Elements(accepted') \subseteq
            Elements(accepted) \union Elements(pending') \union Elements(retained')
  BY <1>2, <1>5, <1>8
<1>14. Safe'
  BY <1>2, <1>5, <1>6, <1>9, <1>10, <1>11, <1>12, <1>13, IntakeKeeps
<1>15. Len(pending') <= Capacity /\ Len(retained') <= RetainLimit
  <2>1. Len(pending) \in Nat /\ Len(retained) \in Nat /\ Capacity \in Nat /\ RetainLimit \in Nat
    BY <1>1, SeqBasics, IngressAssumption
  <2>2. QED
    BY <1>5, <1>8, <1>9, <2>1
<1>16. QED
  BY <1>1, <1>2, <1>3, <1>4, <1>8, <1>9, <1>14, <1>15 DEF MemoryType

\* A step that may use up a key, and otherwise leaves the memory alone
LEMMA RefusalKeeps ==
  ASSUME IInv, reserved \subseteq reserved', reserved' \subseteq Key,
         UNCHANGED <<table, settled, writer, isolated>>,
         UNCHANGED <<pending, retained, accepted>>
  PROVE  MemoryType' /\ Safe'
<1>1. MemoryType
  BY Types DEF IInv
<1>2. CallsArePending' /\ KeysOnce'
  BY DEF IInv, Safe, CallsArePending, KeysOnce, writer
<1>3. Reservations'
  BY DEF IInv, Safe, Reservations
<1>4. Calls' /\ NothingLost'
  BY DEF IInv, Safe, Calls, Working, Calling, NothingLost, Durable, Conflicting, writer
<1>5. QED
  BY <1>1, <1>2, <1>3, <1>4 DEF MemoryType, Safe

\* Submissions, maintenance, shutdown: what fills the queues
LEMMA IntakeStep ==
  ASSUME IInv, (\E j \in Jobs : Submit(j)) \/ Maintain \/ Close \/ Drain
  PROVE  IInv'
<1>1. MemoryType /\ StoreType /\ ControlType
  BY Types DEF IInv
<1>2. UNCHANGED <<table, settled, writer, isolated>>
  BY DEF Submit, Maintain, Close, Drain
<1>3. StoreType'
  BY <1>1, <1>2 DEF StoreType, writer
<1>4. ASSUME NEW j \in Jobs, Submit(j)
      PROVE  ControlType' /\ MemoryType' /\ Safe'
  <2>1. ControlType'
    BY <1>1, <1>4 DEF ControlType, Submit, writer
  <2>2. ~Closed /\ j.key \notin reserved /\ reserved' = reserved \union {j.key}
    BY <1>4 DEF Submit, Closed
  <2>3. CASE HandOver(j)
    BY <1>2, <2>1, <2>2, <2>3, HandOverKeeps
  <2>4. CASE UNCHANGED <<pending, retained, accepted>>
    <3>1. reserved' \subseteq Key
      BY <1>1, <2>2, FreeKey DEF MemoryType
    <3>2. QED
      BY <1>2, <2>1, <2>2, <2>4, <3>1, RefusalKeeps
  <2>5. QED
    BY <1>4, <2>3, <2>4 DEF Submit
<1>5. ASSUME Maintain
      PROVE  ControlType' /\ MemoryType' /\ Safe'
  <2>1. ControlType'
    BY <1>1, <1>5 DEF ControlType, Maintain, writer
  <2>2. CASE Admit /\ UNCHANGED <<reserved, accepted>>
    BY <1>2, <2>1, <2>2, AdmitKeeps
  <2>3. ASSUME NEW t \in Jobs, FlushFlow(t), Admitted = Len(retained),
               Len(pending) + Admitted < Capacity,
               pending' = pending \o Append(retained, t), retained' = <<>>,
               accepted' = Accepting(t)
        PROVE  MemoryType' /\ Safe'
    BY <1>2, <2>3, FlushFlowKeeps
  <2>4. QED
    BY <1>5, <2>1, <2>2, <2>3 DEF Maintain
<1>6. ASSUME Close
      PROVE  ControlType' /\ MemoryType' /\ Safe'
  <2>1. ControlType'
    BY <1>1, <1>6 DEF ControlType, Close, writer
  <2>2. ~Closed
    BY <1>6 DEF Close, Closed
  <2>3. CASE UNCHANGED <<pending, retained, reserved, accepted>>
    <3>1. /\ reserved \subseteq reserved' /\ reserved' \subseteq Key
          /\ UNCHANGED <<pending, retained, accepted>>
      BY <1>1, <2>3 DEF MemoryType
    <3>2. QED
      BY <1>2, <2>1, <3>1, RefusalKeeps
  <2>4. ASSUME NEW t \in Jobs, FlushFlow(t),
               HandOver(t) \/ UNCHANGED <<pending, retained, accepted>>
        PROVE  MemoryType' /\ Safe'
    <3>1. t.key \notin reserved /\ reserved' = reserved \union {t.key}
      BY <2>4 DEF FlushFlow
    <3>2. CASE HandOver(t)
      BY <1>2, <2>2, <3>1, <3>2, HandOverKeeps
    <3>3. CASE UNCHANGED <<pending, retained, accepted>>
      <4>1. reserved' \subseteq Key
        BY <1>1, <3>1, FreeKey DEF MemoryType
      <4>2. QED
        BY <1>2, <3>1, <3>3, <4>1, RefusalKeeps
    <3>4. QED
      BY <2>4, <3>2, <3>3
  <2>5. QED
    BY <1>6, <2>1, <2>3, <2>4 DEF Close
<1>7. ASSUME Drain
      PROVE  ControlType' /\ MemoryType' /\ Safe'
  <2>1. ControlType'
    BY <1>1, <1>7 DEF ControlType, Drain, writer
  <2>2. Admit /\ UNCHANGED <<reserved, accepted>>
    BY <1>7 DEF Drain
  <2>3. QED
    BY <1>2, <2>1, <2>2, AdmitKeeps
<1>8. QED
  BY <1>3, <1>4, <1>5, <1>6, <1>7, Types DEF IInv, MemoryType, StoreType, ControlType, TypeOK

-----------------------------------------------------------------------------
(* The writer *)

LEMMA FlushStep ==
  ASSUME IInv, Flush
  PROVE  IInv'
<1>1. MemoryType /\ StoreType /\ ControlType /\ pending \in Seq(Jobs)
  BY Types DEF IInv, MemoryType
<1>2. Len(pending) \in Nat \ {0} /\ BatchSize \in Nat \ {0}
  BY <1>1, SeqBasics, IngressAssumption DEF Flush
<1>3. PICK n \in 1..Len(pending) : todo' = SubSeq(pending, 1, n)
  <2>1. CASE Len(pending) < BatchSize
    BY <1>2, <2>1 DEF Flush
  <2>2. CASE ~(Len(pending) < BatchSize)
    BY <1>2, <2>2 DEF Flush
  <2>3. QED
    BY <2>1, <2>2
<1>4. n \in 0..Len(pending) /\ n # 0
  BY <1>2
<1> DEFINE rest == SubSeq(pending, n + 1, Len(pending))
<1>5. /\ todo' \in Seq(Jobs) /\ Len(todo') = n
      /\ rest \in Seq(Jobs) /\ todo' \o rest = pending
  BY <1>1, <1>3, <1>4, CutQueue
<1> HIDE DEF rest
<1>6. Once(todo') /\ todo' # <<>>
  <2>1. Once(todo' \o rest)
    BY <1>5, QueuedParts DEF IInv, Safe, KeysOnce, Queued
  <2>2. Once(todo')
    BY <1>5, <2>1, ConcatQueue
  <2>3. todo' # <<>>
    BY <1>4, <1>5, SeqBasics
  <2>4. QED
    BY <2>2, <2>3
<1>7. IsPrefix(todo', pending)
  <2>1. Len(todo') <= Len(pending) /\ todo' = SubSeq(pending, 1, Len(todo'))
    BY <1>2, <1>3, <1>5
  <2>2. QED
    BY <1>1, <1>5, <2>1, PrefixQueue
<1>8. UNCHANGED <<pending, retained, reserved, accepted, isolated, table, settled>>
  BY DEF Flush, memory
<1>9. MemoryType' /\ StoreType'
  BY <1>1, <1>5, <1>8 DEF MemoryType, StoreType
<1>10. ControlType'
  BY <1>1 DEF ControlType, Flush
<1>11. CallsArePending'
  BY <1>7, <1>8 DEF Flush, CallsArePending
<1>12. KeysOnce' /\ Reservations' /\ NothingLost'
  BY <1>8 DEF IInv, Safe, KeysOnce, Reservations, NothingLost, Durable, Conflicting
<1>13. Calls'
  BY <1>6 DEF Flush, Calls
<1>14. QED
  BY <1>9, <1>10, <1>11, <1>12, <1>13
     DEF IInv, Safe, TypeOK, MemoryType, StoreType, ControlType

\* The rows that a transaction leaves: each job of the call is durable, and a row
\* that existed has not changed.
LEMMA InsertRows ==
  ASSUME IInv, Working, \A j \in Calling : ~Conflicting(j)
  PROVE  /\ Insert(Calling) \in [Key -> Work \union {NoWork}]
         /\ \A j \in Calling : Insert(Calling)[j.key] = j.work
         /\ \A k \in Key : table[k] # NoWork => Insert(Calling)[k] = table[k]
         /\ \A k \in Key : Insert(Calling)[k] # table[k] => k \in KeysOf(pending)
<1>1. table \in [Key -> Work \union {NoWork}] /\ pending \in Seq(Jobs)
  BY DEF IInv, TypeOK
<1>2. /\ todo \in Seq(Jobs) /\ Once(todo)
      /\ Calling \subseteq Elements(todo) /\ Elements(todo) \subseteq Elements(pending)
  BY CallingJobs
<1>3. \A j \in Calling : j \in Jobs /\ j.key \in Key /\ j.work \in Work
  BY <1>1, <1>2, ElementsType, IngressAssumption
<1>4. \A i, j \in Calling : i.key = j.key => i = j
  BY <1>2, OnceElements
<1>5. ASSUME NEW k \in Key, NEW j \in Calling, j.key = k
      PROVE  Insert(Calling)[k] = j.work
  <2>1. (CHOOSE i \in Calling : i.key = k) = j
    BY <1>4, <1>5
  <2>2. QED
    BY <1>5, <2>1 DEF Insert
<1>6. ASSUME NEW k \in Key, \A j \in Calling : j.key # k
      PROVE  Insert(Calling)[k] = table[k]
  BY <1>6 DEF Insert
<1>7. Insert(Calling) \in [Key -> Work \union {NoWork}]
  <2>1. ASSUME NEW k \in Key
        PROVE  Insert(Calling)[k] \in Work \union {NoWork}
    BY <1>1, <1>3, <1>5, <1>6
  <2>2. QED
    BY <2>1 DEF Insert
<1>8. \A k \in Key : table[k] # NoWork => Insert(Calling)[k] = table[k]
  BY <1>5, <1>6 DEF Conflicting
<1>9. \A k \in Key : Insert(Calling)[k] # table[k] => k \in KeysOf(pending)
  <2>1. \A j \in Calling : j.key \in KeysOf(pending)
    BY <1>2, KeysOfElements
  <2>2. QED
    BY <1>6, <2>1
<1>10. QED
  BY <1>3, <1>5, <1>7, <1>8, <1>9

LEMMA ThreadStep ==
  ASSUME IInv, NEW result \in {"ok", "conflict", "error"}, Thread(result)
  PROVE  IInv'
<1>1. MemoryType /\ StoreType /\ ControlType /\ Working /\ pending \in Seq(Jobs)
  BY Types DEF IInv, MemoryType, Thread, Working
<1>2. UNCHANGED <<settled, pending, retained, reserved, accepted, isolated, wpc, todo, mpc, cpc,
                  cancelled>>
  BY DEF Thread, memory
<1>3. Elements(pending) \subseteq Jobs /\ Elements(retained) \subseteq Jobs
      /\ Elements(accepted) \subseteq Jobs
  BY <1>1, ElementsType DEF MemoryType
<1>4. Calling' = Calling
  BY <1>2 DEF Calling
\* Rows appear, and only those of pending jobs; none changes.
<1>5. /\ table' \in [Key -> Work \union {NoWork}]
      /\ \A k \in Key : table[k] # NoWork => table'[k] = table[k]
      /\ \A k \in Key : table'[k] # table[k] => k \in KeysOf(pending)
      /\ outcome' = "ok" => \A j \in Calling : Durable(j)'
      /\ outcome' = "conflict" => \E j \in Calling : Conflicting(j)'
  <2>1. CASE table' = Insert(Calling) /\ result \in {"ok", "error"}
             /\ \A j \in Calling : ~Conflicting(j)
    BY <1>1, <2>1, InsertRows DEF Thread, Durable
  <2>2. CASE UNCHANGED table /\ result = "conflict" /\ \E j \in Calling : Conflicting(j)
    BY <1>1, <2>2 DEF Thread, StoreType, Conflicting
  <2>3. CASE UNCHANGED table /\ result = "error"
    BY <1>1, <2>3 DEF Thread, StoreType
  <2>4. QED
    BY <2>1, <2>2, <2>3, Zenon DEF Thread
<1>6. \A j \in Jobs : j.key \in Key /\ j.work \in Work
  BY IngressAssumption
<1>7. \A j \in Jobs : (Durable(j) => Durable(j)') /\ (Conflicting(j) => Conflicting(j)')
  BY <1>5, <1>6, IngressAssumption DEF Durable, Conflicting
<1>8. MemoryType' /\ StoreType' /\ ControlType'
  BY <1>1, <1>2, <1>5 DEF MemoryType, StoreType, ControlType, Thread
<1>9. CallsArePending' /\ KeysOnce'
  BY <1>2 DEF IInv, Safe, CallsArePending, KeysOnce
<1>10. Reservations'
  <2>1. KeysOf(pending) \intersect KeysOf(retained) = {}
    BY DEF IInv, Safe, KeysOnce
  <2>2. \A k \in Alert \settled : table'[k] # NoWork => k \in reserved
    BY <1>5, IngressAssumption DEF IInv, Safe, Reservations
  <2>3. \A k \in (KeysOf(retained) \intersect Alert) \ settled : table'[k] = NoWork
    BY <1>5, <2>1, IngressAssumption DEF IInv, Safe, Reservations
  <2>4. QED
    BY <1>2, <2>2, <2>3 DEF IInv, Safe, Reservations
<1>11. Calls'
  BY <1>2, <1>4, <1>5 DEF IInv, Safe, Calls, Working, Thread
<1>12. NothingLost'
  BY <1>2, <1>3, <1>7 DEF IInv, Safe, NothingLost
<1>13. QED
  BY <1>8, <1>9, <1>10, <1>11, <1>12
     DEF IInv, Safe, TypeOK, MemoryType, StoreType, ControlType

\* _flush_individually with one job: it leaves the queue as a durable or a
\* conflicting one, or goes to its end.
LEMMA AdvanceKeeps ==
  ASSUME IInv, Working, outcome # "running", wpc = "many" => Len(todo) = 1, Advance,
         UNCHANGED <<table, settled, retained, reserved, accepted>>
  PROVE  /\ MemoryType' /\ StoreType'
         /\ KeysOnce' /\ Reservations' /\ NothingLost'
         /\ Once(todo') /\ Elements(todo') \subseteq Elements(pending')
         /\ Len(todo') = Len(todo) - 1
<1>1. /\ MemoryType /\ StoreType /\ pending \in Seq(Jobs) /\ retained \in Seq(Jobs)
      /\ Queued(pending, retained)
  BY Types, QueuedParts DEF IInv, Safe, KeysOnce, MemoryType
<1> DEFINE j == Head(todo)
<1>2. /\ todo \in Seq(Jobs) /\ todo # <<>> /\ Once(todo) /\ j \in Elements(todo)
      /\ Elements(todo) \subseteq Elements(pending) /\ Calling = {j}
  BY CallingJobs DEF Working
<1>3. outcome = "ok" => Durable(j)
  BY <1>2 DEF IInv, Safe, Calls
<1>4. outcome = "conflict" => Conflicting(j)
  BY <1>2 DEF IInv, Safe, Calls
<1>5. /\ j \in Jobs /\ todo' \in Seq(Jobs) /\ Len(todo') = Len(todo) - 1
      /\ Once(todo') /\ Elements(todo') \subseteq Elements(todo) \ {j}
  <2> DEFINE one == <<j>>
  <2>1. j \in Jobs /\ todo' \in Seq(Jobs) /\ Len(todo') = Len(todo) - 1 /\ todo = one \o todo'
    BY <1>2, HeadTailQueue DEF Advance
  <2>2. one \in Seq(Jobs) /\ KeysOf(one) = {j.key} /\ Elements(one) = {j}
    BY <2>1, OneJob
  <2> HIDE DEF one
  <2>3. /\ Elements(one \o todo') = Elements(one) \union Elements(todo')
        /\ Once(one \o todo') => Once(todo') /\ KeysOf(one) \intersect KeysOf(todo') = {}
    BY <2>1, <2>2, ConcatQueue
  <2>4. Once(todo') /\ j.key \notin KeysOf(todo') /\ Elements(todo') \subseteq Elements(todo)
    BY <1>2, <2>1, <2>2, <2>3
  <2>5. j \notin Elements(todo')
    BY <2>4, KeysOfElements
  <2>6. QED
    BY <2>1, <2>4, <2>5
<1> DEFINE shorter == Without(pending, j.key)
<1>6. /\ shorter \in Seq(Jobs) /\ Len(shorter) = Len(pending) - 1
      /\ Elements(shorter) = Elements(pending) \ {j}
      /\ KeysOf(shorter) = KeysOf(pending) \ {j.key}
      /\ Once(shorter) /\ j.key \in KeysOf(pending)
  BY <1>1, <1>2, WithoutQueue DEF Queued
<1>7. CASE /\ pending' = shorter
           /\ \/ outcome = "ok" /\ UNCHANGED isolated
              \/ outcome = "conflict" /\ isolated' = isolated \union {j}
  <2> HIDE DEF shorter
  <2>1. pending' \in Seq(Jobs) /\ Len(pending') <= Capacity /\ isolated' \subseteq Jobs
    <3>1. Len(pending) \in Nat /\ Len(pending) <= Capacity /\ Capacity \in Nat
      BY <1>1, SeqBasics, IngressAssumption DEF MemoryType
    <3>2. QED
      BY <1>1, <1>5, <1>6, <1>7, <3>1 DEF MemoryType
  <2>2. MemoryType' /\ StoreType'
    BY <1>1, <1>5, <2>1 DEF MemoryType, StoreType
  <2>3. Queued(pending', retained')
    BY <1>1, <1>6, <1>7 DEF Queued
  <2>4. Reservations'
    BY <1>6, <1>7 DEF IInv, Safe, Reservations
  <2>5. Elements(todo') \subseteq Elements(pending')
    BY <1>2, <1>5, <1>6, <1>7
  <2>6. NothingLost'
    BY <1>3, <1>4, <1>6, <1>7 DEF IInv, Safe, NothingLost, Durable, Conflicting
  <2>7. KeysOnce'
    BY <2>3, QueuedParts DEF KeysOnce
  <2>8. QED
    BY <1>5, <2>2, <2>4, <2>5, <2>6, <2>7
<1>8. CASE /\ outcome = "error" /\ UNCHANGED isolated
           /\ pending' = Append(shorter, j)
  <2> HIDE DEF shorter
  <2>1. /\ pending' \in Seq(Jobs) /\ Len(pending') = Len(shorter) + 1
        /\ Elements(pending') = Elements(shorter) \union {j}
        /\ KeysOf(pending') = KeysOf(shorter) \union {j.key}
        /\ Once(pending')
    BY <1>5, <1>6, <1>8, AppendQueue
  <2>2. Elements(pending') = Elements(pending) /\ KeysOf(pending') = KeysOf(pending)
    BY <1>2, <1>6, <2>1
  <2>3. Len(pending') = Len(pending)
    BY <1>1, <1>6, <2>1, SeqBasics
  <2>4. MemoryType' /\ StoreType'
    BY <1>1, <1>5, <1>8, <2>1, <2>3 DEF MemoryType, StoreType
  <2>5. Queued(pending', retained')
    BY <1>1, <2>1, <2>2 DEF Queued
  <2>6. KeysOnce'
    BY <2>5, QueuedParts DEF KeysOnce
  <2>7. Reservations'
    BY <2>2 DEF IInv, Safe, Reservations
  <2>8. NothingLost'
    BY <1>8, <2>2 DEF IInv, Safe, NothingLost, Durable, Conflicting
  <2>9. QED
    BY <1>2, <1>5, <2>2, <2>4, <2>6, <2>7, <2>8
<1>9. QED
  BY <1>6, <1>7, <1>8 DEF Advance

\* The writer goes on with the next job, or ends its pass.
LEMMA AdvanceStep ==
  ASSUME IInv, Working, outcome # "running", wpc = "many" => Len(todo) = 1,
         Advance, Continue, cancelled' \subseteq cancelled,
         UNCHANGED <<table, settled, retained, reserved, accepted, mpc, cpc>>
  PROVE  IInv'
<1>1. ControlType /\ todo \in Seq(Jobs)
  BY Types DEF IInv, StoreType
<1>2. /\ MemoryType' /\ StoreType' /\ KeysOnce' /\ Reservations' /\ NothingLost'
      /\ Once(todo') /\ Elements(todo') \subseteq Elements(pending')
      /\ Len(todo') = Len(todo) - 1
  BY AdvanceKeeps
<1>3. ControlType'
  BY <1>1 DEF ControlType, Continue
<1>4. wpc' # "many"
  BY DEF Continue
<1>5. wpc' = "each" => todo' # <<>> /\ outcome' = "running"
  <2>1. wpc' = "each" => Len(todo) > 1 /\ outcome' = "running"
    BY DEF Continue
  <2>2. todo' = <<>> => Len(todo') = 0
    BY EmptyQueue
  <2>3. Len(todo) \in Nat
    BY <1>1, SeqBasics
  <2>4. QED
    BY <1>2, <2>1, <2>2, <2>3
<1>6. CallsArePending' /\ Calls'
  BY <1>2, <1>4, <1>5 DEF CallsArePending, Calls, Working
<1>7. QED
  BY <1>2, <1>3, <1>6 DEF IInv, Safe, TypeOK, MemoryType, StoreType, ControlType

\* A step that ends the writer's pass, with the queue unchanged
LEMMA PassEnds ==
  ASSUME IInv, wpc' \in {"idle", "stopped"}, todo' = <<>>,
         outcome' \in {"running", "ok", "conflict", "error"},
         cancelled' \subseteq cancelled,
         UNCHANGED <<table, settled, pending, isolated>>,
         UNCHANGED <<retained, reserved, accepted, mpc, cpc>>
  PROVE  IInv'
<1>1. MemoryType /\ StoreType /\ ControlType
  BY Types DEF IInv
<1>2. MemoryType' /\ StoreType' /\ ControlType'
  BY <1>1, EmptyQueue DEF MemoryType, StoreType, ControlType
<1>3. CallsArePending' /\ Calls'
  BY DEF CallsArePending, Calls, Working
<1>4. KeysOnce' /\ Reservations' /\ NothingLost'
  BY DEF IInv, Safe, KeysOnce, Reservations, NothingLost, Durable, Conflicting
<1>5. QED
  BY <1>2, <1>3, <1>4 DEF IInv, Safe, TypeOK, MemoryType, StoreType, ControlType

LEMMA ResumeManyStep ==
  ASSUME IInv, ResumeMany
  PROVE  IInv'
<1>1. /\ MemoryType /\ StoreType /\ ControlType /\ pending \in Seq(Jobs) /\ retained \in Seq(Jobs)
      /\ Queued(pending, retained) /\ Working
  BY Types, QueuedParts DEF IInv, Safe, KeysOnce, MemoryType, ResumeMany, Working
<1>2. /\ wpc = "many" /\ outcome # "running" /\ cancelled' \subseteq cancelled
      /\ UNCHANGED <<table, settled, retained, reserved, accepted, mpc, cpc>>
  BY DEF ResumeMany
<1>3. /\ todo \in Seq(Jobs) /\ todo # <<>> /\ Once(todo)
      /\ Elements(todo) \subseteq Elements(pending) /\ Calling = Elements(todo)
  BY <1>1, <1>2, CallingJobs DEF Calling
<1>4. CASE Stop
  BY <1>1, <1>2, <1>4, PassEnds DEF Stop, ControlType
<1>5. CASE outcome = "error" /\ todo' = <<>> /\ outcome' = "ok"
           /\ wpc' = (IF Closed THEN "stopped" ELSE "idle") /\ UNCHANGED <<pending, isolated>>
  BY <1>2, <1>5, PassEnds
<1>6. CASE outcome = "conflict" /\ Len(todo) = 1 /\ Advance /\ Continue
  BY <1>1, <1>2, <1>6, AdvanceStep
<1>7. CASE outcome # "ok" /\ Len(todo) > 1 /\ wpc' = "each" /\ outcome' = "running"
           /\ UNCHANGED <<todo, pending, isolated>>
  <2>1. MemoryType' /\ StoreType' /\ ControlType'
    BY <1>1, <1>2, <1>7 DEF MemoryType, StoreType, ControlType
  <2>2. CallsArePending' /\ Calls'
    BY <1>3, <1>7 DEF CallsArePending, Calls, Working
  <2>3. KeysOnce' /\ Reservations' /\ NothingLost'
    BY <1>2, <1>7 DEF IInv, Safe, KeysOnce, Reservations, NothingLost, Durable, Conflicting
  <2>4. QED
    BY <2>1, <2>2, <2>3 DEF IInv, Safe, TypeOK, MemoryType, StoreType, ControlType
<1>8. CASE /\ outcome = "ok" /\ todo' = <<>> /\ UNCHANGED <<outcome, isolated>>
           /\ pending' = SubSeq(pending, Len(todo) + 1, Len(pending))
           /\ wpc' = IF Closed THEN "stopped" ELSE "idle"
  <2>1. IsPrefix(todo, pending)
    BY <1>2 DEF IInv, Safe, CallsArePending
  <2>2. pending' \in Seq(Jobs) /\ pending = todo \o pending' /\ Len(todo) \in 0..Len(pending)
    BY <1>1, <1>3, <1>8, <2>1, PrefixCut
  <2>3. Once(todo \o pending')
    BY <1>1, <2>2 DEF Queued
  <2>4. /\ Len(todo \o pending') = Len(todo) + Len(pending')
        /\ Elements(todo \o pending') = Elements(todo) \union Elements(pending')
        /\ KeysOf(todo \o pending') = KeysOf(todo) \union KeysOf(pending')
        /\ Once(pending')
    BY <1>3, <2>2, <2>3, ConcatQueue, Zenon
  <2>5. /\ Elements(pending) = Elements(todo) \union Elements(pending')
        /\ KeysOf(pending') \subseteq KeysOf(pending)
    BY <2>2, <2>4
  <2>6. Len(pending') <= Capacity
    <3>1. /\ Len(pending) \in Nat /\ Len(pending) <= Capacity /\ Capacity \in Nat
          /\ Len(todo) \in Nat /\ Len(pending') \in Nat /\ Len(pending) = Len(todo) + Len(pending')
      BY <1>1, <1>3, <2>2, <2>4, SeqBasics, IngressAssumption DEF MemoryType
    <3>2. QED
      BY <3>1
  <2>7. MemoryType' /\ StoreType' /\ ControlType'
    <3>1. todo' \in Seq(Jobs)
      BY <1>8, EmptyQueue
    <3>2. QED
      BY <1>1, <1>2, <1>8, <2>2, <2>6, <3>1 DEF MemoryType, StoreType, ControlType
  <2>8. CallsArePending' /\ Calls'
    BY <1>8 DEF CallsArePending, Calls, Working
  <2>9. KeysOnce'
    <3>1. Queued(pending', retained')
      BY <1>1, <1>2, <2>4, <2>5 DEF Queued
    <3>2. QED
      BY <3>1, QueuedParts DEF KeysOnce
  <2>10. Reservations'
    BY <1>2, <2>5 DEF IInv, Safe, Reservations
  <2>11. NothingLost'
    <3>1. \A j \in Elements(todo) : Durable(j)
      BY <1>1, <1>3, <1>8 DEF IInv, Safe, Calls
    <3>2. QED
      BY <1>2, <1>8, <2>5, <3>1 DEF IInv, Safe, NothingLost, Durable, Conflicting
  <2>12. QED
    BY <2>7, <2>8, <2>9, <2>10, <2>11
       DEF IInv, Safe, TypeOK, MemoryType, StoreType, ControlType
<1>9. QED
  BY <1>4, <1>5, <1>6, <1>7, <1>8 DEF ResumeMany

LEMMA ResumeEachStep ==
  ASSUME IInv, ResumeEach
  PROVE  IInv'
<1>1. ControlType /\ Working
  BY Types DEF IInv, ResumeEach, Working
<1>2. /\ wpc = "each" /\ outcome # "running" /\ cancelled' \subseteq cancelled
      /\ UNCHANGED <<table, settled, retained, reserved, accepted, mpc, cpc>>
  BY DEF ResumeEach
<1>3. CASE Stop
  BY <1>1, <1>2, <1>3, PassEnds DEF Stop, ControlType
<1>4. CASE Advance /\ Continue
  BY <1>1, <1>2, <1>4, AdvanceStep
<1>5. QED
  BY <1>3, <1>4 DEF ResumeEach

-----------------------------------------------------------------------------
(* The other steps *)

\* The row of an alert is complete: its key becomes free, and is retained nowhere.
LEMMA CompleteRowStep ==
  ASSUME IInv, NEW k \in Key, CompleteRow(k)
  PROVE  IInv'
<1>1. MemoryType /\ StoreType /\ ControlType
  BY Types DEF IInv
<1>2. /\ k \in Alert \ settled /\ table[k] # NoWork
      /\ settled' = settled \union {k} /\ reserved' = reserved \ {k}
      /\ UNCHANGED <<table, pending, retained, wpc, todo, outcome, mpc, cpc, cancelled,
                     accepted, isolated>>
  BY DEF CompleteRow, writer
<1>3. MemoryType' /\ StoreType' /\ ControlType'
  BY <1>1, <1>2 DEF MemoryType, StoreType, ControlType
<1>4. k \notin KeysOf(retained)
  BY <1>2 DEF IInv, Safe, Reservations
<1>5. Reservations'
  BY <1>2, <1>4 DEF IInv, Safe, Reservations
<1>6. CallsArePending' /\ KeysOnce'
  BY <1>2 DEF IInv, Safe, CallsArePending, KeysOnce
<1>7. Calls' /\ NothingLost'
  BY <1>2 DEF IInv, Safe, Calls, Working, Calling, NothingLost, Durable, Conflicting
<1>8. QED
  BY <1>3, <1>5, <1>6, <1>7 DEF IInv, Safe, TypeOK, MemoryType, StoreType, ControlType

\* Control moves, memory and table stay.
LEMMA ControlStep ==
  ASSUME IInv,
         \/ MaintainReturns \/ MaintainRaises \/ Gathered \/ CloseIngress \/ Down
         \/ UNCHANGED vars
  PROVE  IInv'
<1>1. MemoryType /\ StoreType /\ ControlType
  BY Types DEF IInv
<1>2. /\ UNCHANGED <<table, settled, pending, retained, reserved, accepted, isolated, todo, outcome>>
      /\ wpc' = wpc \/ (wpc = "idle" /\ wpc' = "stopped")
  BY DEF MaintainReturns, MaintainRaises, Gathered, CloseIngress, Down, vars, memory, writer
<1>3. ControlType'
  BY <1>1 DEF ControlType, MaintainReturns, MaintainRaises, Gathered, CloseIngress, Down, vars, writer
<1>4. MemoryType' /\ StoreType'
  BY <1>1, <1>2 DEF MemoryType, StoreType
<1>5. CallsArePending' /\ KeysOnce' /\ Reservations' /\ NothingLost'
  BY <1>2 DEF IInv, Safe, CallsArePending, KeysOnce, Reservations, NothingLost, Durable, Conflicting
<1>6. Calls'
  BY <1>2 DEF IInv, Safe, Calls, Working, Calling, Durable, Conflicting
<1>7. QED
  BY <1>3, <1>4, <1>5, <1>6 DEF IInv, Safe, TypeOK, MemoryType, StoreType, ControlType

LEMMA InitHolds == Init => IInv
<1> SUFFICES ASSUME Init PROVE IInv
  OBVIOUS
<1>1. /\ pending \in Seq(Jobs) /\ retained \in Seq(Jobs) /\ accepted \in Seq(Jobs)
      /\ todo \in Seq(Jobs) /\ Len(pending) <= Capacity /\ Len(retained) <= RetainLimit
      /\ KeysOf(pending) = {} /\ KeysOf(retained) = {} /\ Elements(accepted) = {}
      /\ Queued(pending, retained)
  BY EmptyQueue, IngressAssumption DEF Init, Queued
<1>2. CallsArePending /\ Calls /\ NothingLost
  BY <1>1 DEF Init, CallsArePending, Calls, Working, NothingLost
<1>3. KeysOnce
  BY <1>1, QueuedParts DEF KeysOnce
<1>4. Reservations
  BY <1>1, IngressAssumption DEF Init, Reservations
<1>5. TypeOK
  BY <1>1 DEF Init, TypeOK
<1>6. QED
  BY <1>2, <1>3, <1>4, <1>5 DEF IInv, Safe

\* After a kill the memory is empty and the keys of all alert rows are reserved.
LEMMA RestartStep ==
  ASSUME IInv, Restart
  PROVE  IInv'
<1>1. MemoryType /\ StoreType
  BY Types DEF IInv
<1>2. /\ pending' = <<>> /\ retained' = <<>> /\ accepted' = <<>> /\ isolated' = {}
      /\ todo' = <<>> /\ wpc' = "idle"
  BY DEF Restart
<1>3. /\ pending' \in Seq(Jobs) /\ retained' \in Seq(Jobs) /\ accepted' \in Seq(Jobs)
      /\ todo' \in Seq(Jobs) /\ Len(pending') <= Capacity /\ Len(retained') <= RetainLimit
      /\ KeysOf(pending') = {} /\ KeysOf(retained') = {} /\ Elements(accepted') = {}
      /\ Queued(pending', retained')
  BY <1>2, EmptyQueue, IngressAssumption DEF Queued
<1>4. CallsArePending' /\ Calls' /\ NothingLost'
  BY <1>2, <1>3 DEF CallsArePending, Calls, Working, NothingLost
<1>5. KeysOnce'
  BY <1>3, QueuedParts DEF KeysOnce
<1>6. Reservations'
  BY <1>3 DEF IInv, Safe, Reservations, Restart
<1>7. TypeOK'
  BY <1>1, <1>3, IngressAssumption DEF Restart, TypeOK, MemoryType, StoreType
<1>8. QED
  BY <1>4, <1>5, <1>6, <1>7 DEF IInv, Safe

-----------------------------------------------------------------------------
(* Theorems *)

LEMMA InvariantHolds == Spec => []IInv
<1>1. IInv /\ [Next]_vars => IInv'
  BY IntakeStep, CompleteRowStep, FlushStep, ResumeManyStep, ResumeEachStep, ThreadStep,
     ControlStep, RestartStep DEF Next
<1>2. QED
  BY <1>1, InitHolds, PTL DEF Spec

\* The types hold, the queues never exceed their limits, and whatever is
\* submitted, readmitted or closed while a call runs in its thread, the jobs the
\* writer still has to handle are pending when it returns, those of a batch at the
\* head (flush_one pops them without looking).
THEOREM ConsistentAlways == Spec => []Consistent
<1>1. IInv => Consistent
  BY DEF IInv, Safe, Consistent
<1>2. QED
  BY <1>1, InvariantHolds, PTL

\* No idempotency key is ever queued twice, not even in the ingress and among the
\* retained jobs, although alert keys become free again.
THEOREM KeysOnceAlways == Spec => []KeysOnce
<1>1. IInv => KeysOnce
  BY DEF IInv, Safe
<1>2. QED
  BY <1>1, InvariantHolds, PTL

\* Nothing that was accepted is lost in silence: it is in memory, durable, or was
\* set aside because its key belongs to another row; and what the shutdown
\* reports as left covers all that is not.
THEOREM AccountedAlways == Spec => []Accounted
<1>1. IInv => Accounted
  <2> SUFFICES ASSUME IInv
               PROVE  Accounted
    OBVIOUS
  <2>1. NothingLost /\ pending \in Seq(Jobs) /\ retained \in Seq(Jobs)
    BY DEF IInv, Safe, TypeOK
  <2> DEFINE left == {j \in Elements(accepted) : ~Durable(j) /\ j \notin isolated}
             both == Elements(pending) \union Elements(retained)
  <2>2. left \subseteq both
    BY <2>1 DEF NothingLost
  <2>3. /\ IsFiniteSet(Elements(pending)) /\ Cardinality(Elements(pending)) <= Len(pending)
        /\ IsFiniteSet(Elements(retained)) /\ Cardinality(Elements(retained)) <= Len(retained)
    BY <2>1, ElementsFinite
  <2>4. /\ IsFiniteSet(both)
        /\ Cardinality(both) = Cardinality(Elements(pending)) + Cardinality(Elements(retained))
             - Cardinality(Elements(pending) \intersect Elements(retained))
    BY <2>3, FS_Union
  <2>5. IsFiniteSet(Elements(pending) \intersect Elements(retained))
    BY <2>3, FS_Intersection
  <2>6. /\ Cardinality(Elements(pending) \intersect Elements(retained)) \in Nat
        /\ Cardinality(Elements(pending)) \in Nat /\ Cardinality(Elements(retained)) \in Nat
        /\ Len(pending) \in Nat /\ Len(retained) \in Nat
    BY <2>1, <2>3, <2>5, FS_CardinalityType, SeqBasics
  <2>7. IsFiniteSet(left) /\ Cardinality(left) <= Cardinality(both)
    BY <2>2, <2>4, FS_Subset
  <2>8. Cardinality(left) \in Nat
    BY <2>7, FS_CardinalityType
  <2>9. Cardinality(left) <= Len(pending) + Len(retained)
    BY <2>3, <2>4, <2>6, <2>7, <2>8
  <2>10. QED
    BY <2>1, <2>9 DEF Accounted, ShutdownReports
<1>2. QED
  BY <1>1, InvariantHolds, PTL
=============================================================================
