------------------------ MODULE TrafficWritesProofs ------------------------
(***************************************************************************)
(* Proofs about TrafficWrites: the slots of a job stay apart, every        *)
(* visitor is counted once, and as long as nothing fails the counts are    *)
(* written in the order of the detections.                                 *)
(*                                                                         *)
(* EveryVisitorOnce is a sum over the jobs, so the module starts with what *)
(* it needs of SumFunctionOnSet.  That operator is defined by recursion    *)
(* over the subsets of a finite set; the lemmas about it go by smallest    *)
(* counterexamples, for which the numbers' order being well-founded is     *)
(* enough.                                                                 *)
(***************************************************************************)
EXTENDS TrafficWrites, SequenceTheorems, FiniteSetTheorems,
        WellFoundedInduction, TLAPS

-----------------------------------------------------------------------------
(* Sums over finite sets *)

\* Induction over numbers: a set of them that is not empty has a least one.
LEMMA Least ==
  ASSUME NEW T, T \subseteq Nat, T # {}
  PROVE \E x \in T : \A y \in T : ~(y < x)
<1> DEFINE R == {ss \in Nat \X Nat : ss[1] < ss[2]}
<1>1. IsWellFoundedOn(R, Nat) BY NatLessThanWellFounded DEF OpToRel
<1> HIDE DEF R
<1>2. PICK x \in T : \A y \in T : ~(<<y, x>> \in R) BY <1>1, WFMin
<1>3. ASSUME NEW y \in T PROVE ~(y < x) BY <1>2, <1>3 DEF R
<1> QED BY <1>3

\* Induction over finite sets: of the subsets of F in B one is smallest.
LEMMA Smallest ==
  ASSUME NEW F, IsFiniteSet(F), NEW B, B \subseteq SUBSET F, B # {}
  PROVE \E s \in B : \A x \in s : s \ {x} \notin B
<1> DEFINE T == {Cardinality(s) : s \in B}
<1>1. \A s \in B : IsFiniteSet(s) /\ Cardinality(s) \in Nat
  BY FS_Subset, FS_CardinalityType
<1>2. T \subseteq Nat /\ T # {} BY <1>1
<1> HIDE DEF T
<1>3. PICK n \in T : \A m \in T : ~(m < n) BY <1>2, Least
<1>4. PICK s \in B : Cardinality(s) = n BY DEF T
<1>5. ASSUME NEW x \in s, s \ {x} \in B PROVE FALSE
  <2>1. Cardinality(s \ {x}) = Cardinality(s) - 1 BY <1>1, FS_RemoveElement
  <2>2. Cardinality(s \ {x}) \in T BY <1>5 DEF T
  <2> QED BY <1>1, <1>3, <1>4, <2>1, <2>2
<1> QED BY <1>5

\* SumFunctionOnSet(f, F) is g[F] for the function g on the subsets of F that
\* solves this equation.
Picked(s) == CHOOSE x \in s : TRUE
Body(g, f, s) == IF s = {} THEN 0 ELSE f[Picked(s)] + g[s \ {Picked(s)}]
Solves(g, f, F) == g = [s \in SUBSET F |-> Body(g, f, s)]

\* The element that is summed first is one of the set.
LEMMA PickedIn == ASSUME NEW s, s # {} PROVE Picked(s) \in s
BY DEF Picked

\* There is one solution at most, also when F has more elements.
LEMMA SolutionsAgree ==
  ASSUME NEW F, IsFiniteSet(F), NEW E \in SUBSET F, NEW f, NEW g, NEW h,
         Solves(g, f, F), Solves(h, f, E)
  PROVE \A s \in SUBSET E : g[s] = h[s]
<1> DEFINE B == {s \in SUBSET E : g[s] # h[s]}
<1>1. SUFFICES ASSUME B # {} PROVE FALSE OBVIOUS
<1> HIDE DEF B
<1>2. B \subseteq SUBSET F BY DEF B
<1>3. PICK s \in B : \A x \in s : s \ {x} \notin B BY <1>1, <1>2, Smallest
<1>4. s \in SUBSET E /\ s \in SUBSET F /\ g[s] # h[s] BY DEF B
<1>5. g[s] = Body(g, f, s) /\ h[s] = Body(h, f, s) BY <1>4 DEF Solves
<1>6. CASE s = {} BY <1>4, <1>5, <1>6 DEF Body
<1>7. CASE s # {}
  <2>1. Picked(s) \in s BY <1>7, PickedIn
  <2>2. g[s \ {Picked(s)}] = h[s \ {Picked(s)}] BY <2>1, <1>3, <1>4 DEF B
  <2> QED BY <2>2, <1>4, <1>5, <1>7 DEF Body
<1> QED BY <1>6, <1>7

\* There is a solution: a smallest set without one would have subsets with
\* solutions, and these make up one for the set.
LEMMA SolutionExists ==
  ASSUME NEW F, IsFiniteSet(F), NEW f
  PROVE \E g : Solves(g, f, F)
<1> DEFINE Q(E) == \E g : Solves(g, f, E)
           B == {E \in SUBSET F : ~Q(E)}
<1>1. SUFFICES ASSUME B # {} PROVE FALSE
  <2>1. F \in SUBSET F OBVIOUS
  <2> QED BY <2>1
<1>2. PICK E \in B : \A x \in E : E \ {x} \notin B
  <2>1. B \subseteq SUBSET F OBVIOUS
  <2> HIDE DEF B
  <2> QED BY <1>1, <2>1, Smallest
<1>3. ASSUME NEW x \in E PROVE Q(E \ {x})
  <2>1. E \ {x} \in SUBSET F /\ E \ {x} \notin B BY <1>2
  <2> QED BY <2>1
<1>4. \A x \in E : IsFiniteSet(E \ {x}) BY FS_Subset
<1> DEFINE G(x) == CHOOSE g : Solves(g, f, E \ {x})
           At(s) == CHOOSE x : x \in E /\ x \notin s
           g0 == [s \in (SUBSET E) \ {E} |-> G(At(s))[s]]
           g1 == [s \in SUBSET E |-> IF s = E THEN Body(g0, f, E) ELSE g0[s]]
<1>5. \A x \in E : Solves(G(x), f, E \ {x}) BY <1>3
<1> HIDE DEF G
<1>6. ASSUME NEW s \in SUBSET E, s # E
      PROVE At(s) \in E /\ s \in SUBSET (E \ {At(s)})
  <2>1. \E x : x \in E /\ x \notin s BY <1>6
  <2> QED BY <2>1
<1> HIDE DEF At
\* On a proper subset every solution that knows it gives the same.
<1>7. ASSUME NEW s \in SUBSET E, NEW x \in E, x \notin s
      PROVE G(x)[s] = g0[s]
  <2>1. s # E /\ s \in (SUBSET E) \ {E} BY <1>7
  <2>2. g0[s] = G(At(s))[s] /\ At(s) \in E /\ s \in SUBSET (E \ {At(s)}) BY <2>1, <1>6
  <2>3. Solves(G(x), f, E \ {x}) /\ Solves(G(At(s)), f, E \ {At(s)}) BY <1>5, <2>2
  <2> DEFINE r == [t \in SUBSET s |-> G(x)[t]]
  <2>4. Solves(r, f, s)
    <3>1. ASSUME NEW t \in SUBSET s PROVE r[t] = Body(r, f, t)
      <4>1. r[t] = G(x)[t] /\ G(x)[t] = Body(G(x), f, t) BY <1>7, <2>3 DEF Solves
      <4>2. CASE t = {} BY <4>1, <4>2 DEF Body
      <4>3. CASE t # {}
        <5>1. Picked(t) \in t BY <4>3, PickedIn
        <5>2. r[t \ {Picked(t)}] = G(x)[t \ {Picked(t)}] OBVIOUS
        <5> QED BY <4>1, <4>3, <5>2 DEF Body
      <4> QED BY <4>2, <4>3
    <3>2. r = [t \in SUBSET s |-> r[t]] OBVIOUS
    <3> HIDE DEF r
    <3>3. r = [t \in SUBSET s |-> Body(r, f, t)] BY <3>1, <3>2
    <3> QED BY <3>3 DEF Solves
  <2>5. r[s] = G(x)[s] OBVIOUS
  <2> HIDE DEF r
  <2>6. G(At(s))[s] = r[s] BY <1>4, <2>2, <2>3, <2>4, SolutionsAgree
  <2> QED BY <2>2, <2>5, <2>6
<1> HIDE DEF g0
<1>8. ASSUME NEW s \in SUBSET E PROVE g1[s] = Body(g1, f, s)
  <2>1. \A t \in SUBSET E : t # E => g1[t] = g0[t] OBVIOUS
  <2>2. s # {} => Picked(s) \in s /\ s \ {Picked(s)} # E /\ s \ {Picked(s)} \in SUBSET E
    BY PickedIn
  <2>3. s # {} => g1[s \ {Picked(s)}] = g0[s \ {Picked(s)}] BY <2>1, <2>2
  <2>4. Body(g1, f, s) = Body(g0, f, s) BY <2>3 DEF Body
  <2>5. CASE s = E BY <2>4, <2>5
  <2>6. CASE s # E
    <3>1. PICK x \in E : x \notin s BY <2>6
    <3>2. g1[s] = g0[s] /\ g0[s] = G(x)[s] BY <2>1, <2>6, <3>1, <1>7
    <3>3. s \in SUBSET (E \ {x}) BY <3>1
    <3>4. G(x)[s] = Body(G(x), f, s) BY <3>3, <1>5 DEF Solves
    <3>5. s # {} => G(x)[s \ {Picked(s)}] = g0[s \ {Picked(s)}] BY <3>1, <1>7
    <3>6. Body(G(x), f, s) = Body(g0, f, s) BY <3>5 DEF Body
    <3> QED BY <2>4, <3>2, <3>4, <3>6
  <2> QED BY <2>5, <2>6
<1>9. g1 = [s \in SUBSET E |-> g1[s]] OBVIOUS
<1> HIDE DEF g1
<1>10. g1 = [s \in SUBSET E |-> Body(g1, f, s)] BY <1>8, <1>9
<1>11. Solves(g1, f, E) BY <1>10 DEF Solves
<1> QED BY <1>11

\* The sum in these terms,
LEMMA SumDef ==
  ASSUME NEW f, NEW F
  PROVE SumFunctionOnSet(f, F) = (CHOOSE g : Solves(g, f, F))[F]
BY DEF SumFunctionOnSet, FoldFunctionOnSet, MapThenFoldSet, Solves, Body, Picked

\* its value for the empty set,
LEMMA SumEmpty ==
  ASSUME NEW f
  PROVE SumFunctionOnSet(f, {}) = 0
<1> DEFINE g == CHOOSE h : Solves(h, f, {})
<1>1. Solves(g, f, {}) BY SolutionExists, FS_EmptySet
<1> HIDE DEF g
<1>2. {} \in SUBSET {} OBVIOUS
<1>3. g[{}] = 0 BY <1>1, <1>2 DEF Solves, Body
<1> QED BY <1>3, SumDef DEF g

\* its first step,
LEMMA SumUnfold ==
  ASSUME NEW f, NEW J, IsFiniteSet(J), J # {}
  PROVE SumFunctionOnSet(f, J) =
          f[Picked(J)] + SumFunctionOnSet(f, J \ {Picked(J)})
<1> DEFINE K == J \ {Picked(J)}
           g == CHOOSE u : Solves(u, f, J)
           h == CHOOSE u : Solves(u, f, K)
<1>1. K \in SUBSET J /\ IsFiniteSet(K) BY FS_Subset
<1> HIDE DEF K
<1>2. Solves(g, f, J) /\ Solves(h, f, K) BY <1>1, SolutionExists
<1>3. SumFunctionOnSet(f, J) = g[J] /\ SumFunctionOnSet(f, K) = h[K] BY SumDef
<1> HIDE DEF g, h
<1>4. g[K] = h[K] BY <1>1, <1>2, SolutionsAgree
<1>5. J \in SUBSET J OBVIOUS
<1>6. g[J] = Body(g, f, J) BY <1>2, <1>5 DEF Solves
<1> QED BY <1>3, <1>4, <1>6 DEF Body, K

\* its type,
LEMMA SumType ==
  ASSUME NEW F, IsFiniteSet(F), NEW f, \A x \in F : f[x] \in Nat
  PROVE SumFunctionOnSet(f, F) \in Nat
<1> DEFINE B == {s \in SUBSET F : SumFunctionOnSet(f, s) \notin Nat}
<1>1. SUFFICES ASSUME B # {} PROVE FALSE OBVIOUS
<1>2. B \subseteq SUBSET F OBVIOUS
<1> HIDE DEF B
<1>3. PICK s \in B : \A x \in s : s \ {x} \notin B BY <1>1, <1>2, Smallest
<1>4. s \in SUBSET F /\ IsFiniteSet(s) /\ SumFunctionOnSet(f, s) \notin Nat
  BY FS_Subset DEF B
<1>5. s # {} BY <1>4, SumEmpty
<1>6. Picked(s) \in s BY <1>5, PickedIn
<1>7. SumFunctionOnSet(f, s \ {Picked(s)}) \in Nat BY <1>3, <1>4, <1>6 DEF B
<1>8. SumFunctionOnSet(f, s) = f[Picked(s)] + SumFunctionOnSet(f, s \ {Picked(s)})
  BY <1>4, <1>5, SumUnfold
<1>9. f[Picked(s)] \in Nat BY <1>4, <1>6
<1> QED BY <1>4, <1>7, <1>8, <1>9

\* and that it depends on the summands only.
LEMMA SumSame ==
  ASSUME NEW F, IsFiniteSet(F), NEW f, NEW g, \A x \in F : f[x] = g[x]
  PROVE SumFunctionOnSet(f, F) = SumFunctionOnSet(g, F)
<1> DEFINE B == {s \in SUBSET F : SumFunctionOnSet(f, s) # SumFunctionOnSet(g, s)}
<1>1. SUFFICES ASSUME B # {} PROVE FALSE OBVIOUS
<1>2. B \subseteq SUBSET F OBVIOUS
<1> HIDE DEF B
<1>3. PICK s \in B : \A x \in s : s \ {x} \notin B BY <1>1, <1>2, Smallest
<1>4. /\ s \in SUBSET F /\ IsFiniteSet(s)
      /\ SumFunctionOnSet(f, s) # SumFunctionOnSet(g, s)
  BY FS_Subset DEF B
<1>5. s # {} BY <1>4, SumEmpty
<1>6. Picked(s) \in s BY <1>5, PickedIn
<1>7. SumFunctionOnSet(f, s \ {Picked(s)}) = SumFunctionOnSet(g, s \ {Picked(s)})
  BY <1>3, <1>4, <1>6 DEF B
<1>8. f[Picked(s)] = g[Picked(s)] BY <1>4, <1>6
<1> QED BY <1>4, <1>5, <1>7, <1>8, SumUnfold

\* The order of the summands does not matter.
LEMMA SumRemove ==
  ASSUME NEW F, IsFiniteSet(F), NEW f, \A x \in F : f[x] \in Nat, NEW j \in F
  PROVE SumFunctionOnSet(f, F) = f[j] + SumFunctionOnSet(f, F \ {j})
<1> DEFINE B == {s \in SUBSET F : \E i \in s :
                   SumFunctionOnSet(f, s) # f[i] + SumFunctionOnSet(f, s \ {i})}
<1>1. SUFFICES ASSUME B # {} PROVE FALSE
  <2>1. F \in SUBSET F OBVIOUS
  <2> QED BY <2>1
<1>2. B \subseteq SUBSET F OBVIOUS
<1> HIDE DEF B
<1>3. PICK s \in B : \A x \in s : s \ {x} \notin B BY <1>1, <1>2, Smallest
<1>4. s \in SUBSET F /\ IsFiniteSet(s) BY FS_Subset DEF B
<1>5. PICK i \in s : SumFunctionOnSet(f, s) # f[i] + SumFunctionOnSet(f, s \ {i}) BY DEF B
<1> DEFINE x == Picked(s)
           S(t) == SumFunctionOnSet(f, t)
<1>6. x \in s BY PickedIn
<1>7. S(s) = f[x] + S(s \ {x}) BY <1>4, SumUnfold
<1>8. i # x BY <1>5, <1>7
<1>9. \A t \in SUBSET s : S(t) \in Nat
  <2>1. \A t \in SUBSET s : IsFiniteSet(t) /\ \A y \in t : f[y] \in Nat
    BY <1>4, FS_Subset
  <2> QED BY <2>1, SumType
<1> HIDE DEF x, S
<1>10. ASSUME NEW y \in s, NEW z \in s \ {y}
       PROVE S(s \ {y}) = f[z] + S((s \ {y}) \ {z})
  <2>1. s \ {y} \notin B /\ s \ {y} \in SUBSET F BY <1>3, <1>4
  <2> QED BY <2>1 DEF B, S
<1>11. S(s \ {x}) = f[i] + S((s \ {x}) \ {i}) BY <1>6, <1>8, <1>10
<1>12. S(s \ {i}) = f[x] + S((s \ {i}) \ {x}) BY <1>6, <1>8, <1>10
<1>13. (s \ {x}) \ {i} = (s \ {i}) \ {x} OBVIOUS
<1>14. S((s \ {i}) \ {x}) \in Nat BY <1>9
<1>15. f[i] \in Nat /\ f[x] \in Nat BY <1>4, <1>6
<1>16. PICK v \in Nat : v = S((s \ {i}) \ {x}) BY <1>14
<1>17. S(s \ {x}) = f[i] + v /\ S(s \ {i}) = f[x] + v
  BY <1>11, <1>12, <1>13, <1>16, Zenon
<1>18. f[x] + (f[i] + v) = f[i] + (f[x] + v) BY <1>15, <1>16
<1>19. S(s) = f[i] + S(s \ {i}) BY <1>7, <1>17, <1>18, Zenon
<1> QED BY <1>5, <1>19 DEF S

\* Two disjoint sets are summed up one after the other.
LEMMA SumUnion ==
  ASSUME NEW J, NEW K, IsFiniteSet(J), IsFiniteSet(K), J \intersect K = {},
         NEW f, \A x \in J \union K : f[x] \in Nat
  PROVE SumFunctionOnSet(f, J \union K) = SumFunctionOnSet(f, J) + SumFunctionOnSet(f, K)
<1> DEFINE S(t) == SumFunctionOnSet(f, t)
           B == {s \in SUBSET J : S(s \union K) # S(s) + S(K)}
<1>1. SUFFICES ASSUME B # {} PROVE FALSE
  <2>1. J \in SUBSET J OBVIOUS
  <2> QED BY <2>1
<1>2. B \subseteq SUBSET J OBVIOUS
<1>3. ASSUME NEW s \in SUBSET J
      PROVE /\ IsFiniteSet(s) /\ IsFiniteSet(s \union K)
            /\ S(s) \in Nat /\ S(K) \in Nat
  <2>1. IsFiniteSet(s) BY FS_Subset
  <2>2. IsFiniteSet(s \union K) BY <2>1, FS_Union
  <2>3. (\A x \in s : f[x] \in Nat) /\ (\A x \in K : f[x] \in Nat) OBVIOUS
  <2> QED BY <2>1, <2>2, <2>3, SumType
<1>4. S({}) = 0 BY SumEmpty
<1>5. ASSUME NEW s \in SUBSET J, NEW x \in s
      PROVE /\ S(s) = f[x] + S(s \ {x})
            /\ S(s \union K) = f[x] + S((s \ {x}) \union K)
  <2>1. \A y \in s \union K : f[y] \in Nat OBVIOUS
  <2>2. S(s) = f[x] + S(s \ {x}) BY <1>3, <2>1, SumRemove
  <2>3. S(s \union K) = f[x] + S((s \union K) \ {x}) BY <1>3, <2>1, SumRemove
  <2>4. (s \union K) \ {x} = (s \ {x}) \union K OBVIOUS
  <2> QED BY <2>2, <2>3, <2>4
<1> HIDE DEF B
<1>6. PICK s \in B : \A x \in s : s \ {x} \notin B BY <1>1, <1>2, Smallest
<1> HIDE DEF S
<1>7. s \in SUBSET J /\ S(s \union K) # S(s) + S(K) BY DEF B
<1>8. s # {}
  <2>1. ASSUME s = {} PROVE FALSE
    <3>1. s \union K = K BY <2>1
    <3> QED BY <1>3, <1>4, <1>7, <2>1, <3>1
  <2> QED BY <2>1
<1>9. PICK x \in s : TRUE BY <1>8
<1>10. s \ {x} \in SUBSET J /\ f[x] \in Nat BY <1>7
<1>11. S((s \ {x}) \union K) = S(s \ {x}) + S(K) BY <1>6, <1>10 DEF B
<1>12. S(s \ {x}) \in Nat /\ S(K) \in Nat BY <1>3, <1>10
<1>13. S(s) = f[x] + S(s \ {x}) /\ S(s \union K) = f[x] + S((s \ {x}) \union K)
  BY <1>5, <1>7
<1> QED BY <1>7, <1>10, <1>11, <1>12, <1>13

-----------------------------------------------------------------------------
(* The inductive invariant *)

\* A job in memory is not durable yet, is there once, and carries something;
\* a job in the queue is durable.
Held ==
  /\ \A m, n \in DOMAIN memory : memory[m] = memory[n] => m = n
  /\ \A j \in Elements(memory) : phase[j] = "absent" /\ rows[j] # <<>>
  /\ \A j \in Elements(queue) : phase[j] # "absent"

\* Job k was handed in before job j.
Before(k, j) ==
  \/ \E m, n \in DOMAIN queue : m < n /\ queue[m] = k /\ queue[n] = j
  \/ k \in Elements(queue) /\ j \in Elements(memory)
  \/ \E m, n \in DOMAIN memory : m < n /\ memory[m] = k /\ memory[n] = j

\* No count of s is newer than the count t has for the same slot.
NotNewer(s, t) ==
  \A m \in DOMAIN s, n \in DOMAIN t :
    s[m].slot = t[n].slot => s[m].current <= t[n].current

\* The counts of s lie between what the table holds and what was detected.
Current(s) ==
  \A n \in DOMAIN s : /\ aggregate[s[n].slot].current <= s[n].current
                      /\ s[n].current <= seen[s[n].slot]

\* While nothing has failed, the counts get newer from the table over the jobs
\* in the order in which they were handed in to what is not flushed yet.
InOrder ==
  ~troubled =>
    /\ delayed = {} /\ \A j \in Flush : phase[j] # "dead"
    /\ \A p \in Slot : aggregate[p].current <= seen[p]
    /\ Current(flow)
    /\ \A k \in Elements(queue) \union Elements(memory) :
         phase[k] # "done" =>
           /\ Current(rows[k])
           /\ NotNewer(rows[k], flow)
           /\ \A j \in Flush : Before(k, j) => NotNewer(rows[k], rows[j])

TInv == TypeOK /\ SlotsOnce /\ Held /\ EveryVisitorOnce /\ InOrder

-----------------------------------------------------------------------------
(* What was entered in a slot *)

Distinct(s) == \A m, n \in DOMAIN s : s[m].slot = s[n].slot => m = n

\* A slot that occurs once has what its entry says, the others nothing.
LEMMA EnteredSound ==
  ASSUME NEW s, NEW p
  PROVE /\ (\A n \in DOMAIN s : s[n].slot # p) => Entered(s, p) = 0
        /\ Distinct(s) => \A n \in DOMAIN s :
             s[n].slot = p => Entered(s, p) = s[n].entered
<1> DEFINE I == {n \in DOMAIN s : s[n].slot = p}
<1>1. Entered(s, p) = IF I = {} THEN 0 ELSE s[CHOOSE n \in I : TRUE].entered BY DEF Entered
<1>2. ASSUME Distinct(s), NEW n \in DOMAIN s, s[n].slot = p
      PROVE Entered(s, p) = s[n].entered
  <2>1. n \in I BY <1>2
  <2>2. (CHOOSE m \in I : TRUE) \in I BY <2>1
  <2>3. (CHOOSE m \in I : TRUE) = n BY <1>2, <2>2 DEF Distinct
  <2> HIDE DEF I
  <2> QED BY <1>1, <2>1, <2>3
<1> QED BY <1>1, <1>2

LEMMA EnteredType ==
  ASSUME NEW s \in Seq(Entry), Distinct(s), NEW p PROVE Entered(s, p) \in Nat
<1>1. CASE \E n \in DOMAIN s : s[n].slot = p
  <2>1. PICK n \in DOMAIN s : s[n].slot = p BY <1>1
  <2>2. s[n] \in Entry BY <2>1
  <2> QED BY <2>1, <2>2, EnteredSound DEF Entry
<1>2. CASE \A n \in DOMAIN s : s[n].slot # p BY <1>2, EnteredSound
<1> QED BY <1>1, <1>2

\* Collecting keeps the slots apart and adds n visitors to slot p; the count of
\* p is the new one, the others keep theirs.
LEMMA CollectSound ==
  ASSUME flow \in Seq(Entry), Distinct(flow), TrafficAssumption,
         NEW p \in Slot, NEW c \in 0..MaxSeen, NEW n \in Nat
  PROVE LET s == Collect(p, c, n) IN
        /\ s \in Seq(Entry) /\ Distinct(s)
        /\ \A q : Entered(s, q) = Entered(flow, q) + (IF q = p THEN n ELSE 0)
        /\ \A m \in DOMAIN s :
             \/ s[m].slot = p /\ s[m].current = c
             \/ m \in DOMAIN flow /\ s[m].slot = flow[m].slot /\ s[m].current = flow[m].current
<1> DEFINE new == [slot |-> p, current |-> c, entered |-> n]
           s == Collect(p, c, n)
<1>0. new \in Entry BY DEF Entry
<1>1. CASE \E k \in DOMAIN flow : flow[k].slot = p
  <2>1. PICK k \in DOMAIN flow : flow[k].slot = p BY <1>1
  <2> DEFINE at == [slot |-> p, current |-> c, entered |-> flow[k].entered + n]
  <2>2. /\ at.slot = p /\ at.current = c /\ at.entered = flow[k].entered + n
        /\ at \in Entry
    <3>1. flow[k] \in Entry BY <2>1
    <3> QED BY <3>1 DEF Entry
  <2>3. s = [m \in DOMAIN flow |-> IF flow[m].slot = p
               THEN [slot |-> p, current |-> c, entered |-> flow[m].entered + n] ELSE flow[m]]
    BY <1>1 DEF Collect
  <2>4. \A m \in DOMAIN flow : flow[m].slot = p => m = k BY <2>1 DEF Distinct
  <2>5. s = [m \in DOMAIN flow |-> IF m = k THEN at ELSE flow[m]] BY <2>1, <2>3, <2>4
  <2> HIDE DEF at, s
  <2>6. DOMAIN s = DOMAIN flow /\ s[k] = at /\ \A m \in DOMAIN flow : m # k => s[m] = flow[m]
    BY <2>1, <2>5
  <2>7. s \in Seq(Entry)
    <3>1. DOMAIN flow = 1..Len(flow) /\ Len(flow) \in Nat OBVIOUS
    <3>2. \A m \in 1..Len(flow) : flow[m] \in Entry OBVIOUS
    <3>3. s \in [1..Len(flow) -> Entry] BY <2>2, <2>5, <3>1, <3>2
    <3> QED BY <3>1, <3>3, SeqDef
  <2>8. \A m \in DOMAIN s : s[m].slot = flow[m].slot BY <2>1, <2>2, <2>6
  <2>9. Distinct(s) BY <2>6, <2>8 DEF Distinct
  <2>10. Entered(s, p) = Entered(flow, p) + n
    <3>1. Entered(flow, p) = flow[k].entered BY <2>1, EnteredSound
    <3>2. Entered(s, p) = s[k].entered BY <2>1, <2>6, <2>8, <2>9, EnteredSound
    <3> QED BY <2>2, <2>6, <3>1, <3>2
  <2>11. ASSUME NEW q, q # p PROVE Entered(s, q) = Entered(flow, q)
    <3>1. CASE \E m \in DOMAIN flow : flow[m].slot = q
      <4>1. PICK m \in DOMAIN flow : flow[m].slot = q BY <3>1
      <4>2. m # k BY <2>1, <2>11, <4>1
      <4> QED BY <2>6, <2>8, <2>9, <4>1, <4>2, EnteredSound
    <3>2. CASE \A m \in DOMAIN flow : flow[m].slot # q
      BY <2>6, <2>8, <3>2, EnteredSound
    <3> QED BY <3>1, <3>2
  <2>12. \A q : Entered(flow, q) \in Nat BY EnteredType
  <2>13. \A m \in DOMAIN s :
           \/ s[m].slot = p /\ s[m].current = c
           \/ m \in DOMAIN flow /\ s[m].slot = flow[m].slot /\ s[m].current = flow[m].current
    BY <2>1, <2>2, <2>6
  <2> QED BY <2>7, <2>9, <2>10, <2>11, <2>12, <2>13 DEF s
<1>2. CASE \A k \in DOMAIN flow : flow[k].slot # p
  <2>1. s = Append(flow, new) BY <1>2 DEF Collect
  <2>2. new.slot = p /\ new.current = c /\ new.entered = n OBVIOUS
  <2> HIDE DEF new, s
  <2>3. /\ s \in Seq(Entry) /\ DOMAIN s = DOMAIN flow \union {Len(flow) + 1}
        /\ s[Len(flow) + 1] = new /\ Len(flow) + 1 \notin DOMAIN flow
        /\ \A m \in DOMAIN flow : s[m] = flow[m]
    BY <1>0, <2>1
  <2>4. Distinct(s) BY <1>2, <2>2, <2>3 DEF Distinct
  <2>5. Entered(s, p) = n /\ Entered(flow, p) = 0 BY <1>2, <2>2, <2>3, <2>4, EnteredSound
  <2>6. ASSUME NEW q, q # p PROVE Entered(s, q) = Entered(flow, q)
    <3>1. CASE \E m \in DOMAIN flow : flow[m].slot = q
      BY <2>3, <2>4, <3>1, EnteredSound
    <3>2. CASE \A m \in DOMAIN flow : flow[m].slot # q
      BY <2>2, <2>3, <2>6, <3>2, EnteredSound
    <3> QED BY <3>1, <3>2
  <2>7. \A q : Entered(flow, q) \in Nat BY EnteredType
  <2>8. \A m \in DOMAIN s :
           \/ s[m].slot = p /\ s[m].current = c
           \/ m \in DOMAIN flow /\ s[m].slot = flow[m].slot /\ s[m].current = flow[m].current
    BY <2>2, <2>3
  <2> QED BY <2>3, <2>4, <2>5, <2>6, <2>7, <2>8 DEF s
<1> QED BY <1>1, <1>2

\* The rest of a sequence, without its first k elements.
LEMMA RestLength ==
  ASSUME NEW L \in Nat, NEW k \in Nat, k <= L
  PROVE (IF k + 1 <= L THEN L - (k + 1) + 1 ELSE 0) = L - k
OBVIOUS

LEMMA RestSound ==
  ASSUME NEW S, NEW u \in Seq(S), NEW k \in 1..Len(u)
  PROVE /\ SubSeq(u, k + 1, Len(u)) \in Seq(S)
        /\ Len(SubSeq(u, k + 1, Len(u))) = Len(u) - k
        /\ \A m \in 1..(Len(u) - k) : SubSeq(u, k + 1, Len(u))[m] = u[k + m]
<1>1. Len(u) \in Nat /\ k \in Nat /\ k <= Len(u) /\ k + 1 \in Int /\ Len(u) \in Int OBVIOUS
<1>2. \A m \in (k + 1)..Len(u) : u[m] \in S BY <1>1
<1>3. /\ SubSeq(u, k + 1, Len(u)) \in Seq(S)
      /\ Len(SubSeq(u, k + 1, Len(u))) = IF k + 1 <= Len(u) THEN Len(u) - (k + 1) + 1 ELSE 0
  BY <1>1, <1>2, SubSeqProperties, Zenon
<1>4. Len(SubSeq(u, k + 1, Len(u))) = Len(u) - k
  BY <1>1, <1>3, RestLength, Zenon
<1>5. \A m \in 1..(Len(u) - k) : SubSeq(u, k + 1, Len(u))[m] = u[k + m] BY <1>1
<1> QED BY <1>3, <1>4, <1>5

\* Cutting flow_pending keeps the slots apart, and loses and adds no visitor.
LEMMA CutSound ==
  ASSUME flow \in Seq(Entry), Distinct(flow), flow # <<>>, NEW k \in 1..Len(flow)
  PROVE LET s == SubSeq(flow, 1, k)
            t == SubSeq(flow, k + 1, Len(flow)) IN
        /\ s \in Seq(Entry) /\ t \in Seq(Entry) /\ Distinct(s) /\ Distinct(t)
        /\ s # <<>>
        /\ \A m \in DOMAIN s : m \in DOMAIN flow /\ s[m] = flow[m]
        /\ \A m \in DOMAIN t : k + m \in DOMAIN flow /\ t[m] = flow[k + m]
        /\ \A m \in DOMAIN s, n \in DOMAIN t : s[m].slot # t[n].slot
        /\ \A p : Entered(flow, p) = Entered(s, p) + Entered(t, p)
<1> DEFINE s == SubSeq(flow, 1, k)
           t == SubSeq(flow, k + 1, Len(flow))
<1>1. /\ Len(flow) \in Nat /\ k \in Nat /\ 1 <= k /\ k <= Len(flow)
      /\ DOMAIN flow = 1..Len(flow)
  OBVIOUS
<1>2. s \in Seq(Entry) /\ Len(s) = k /\ \A m \in 1..k : s[m] = flow[m]
  <2>1. s \in Seq(Entry) /\ Len(s) = k BY <1>1, SubSeqProperties
  <2>2. \A m \in 1..k : s[m] = flow[1 + m - 1] BY <1>1, SubSeqProperties
  <2> HIDE DEF s
  <2> QED BY <1>1, <2>1, <2>2
<1>3. /\ t \in Seq(Entry) /\ Len(t) = Len(flow) - k
      /\ \A m \in 1..(Len(flow) - k) : t[m] = flow[k + m]
  BY RestSound
<1>4. DOMAIN s = 1..k /\ DOMAIN t = 1..(Len(flow) - k) BY <1>2, <1>3
<1> HIDE DEF s, t
<1>5. \A m \in DOMAIN s : m \in DOMAIN flow /\ s[m] = flow[m] BY <1>1, <1>2, <1>4
<1>6. \A m \in DOMAIN t : k + m \in DOMAIN flow /\ t[m] = flow[k + m] BY <1>1, <1>3, <1>4
<1>7. s # <<>> BY <1>1, <1>2
<1>8. Distinct(s) BY <1>5 DEF Distinct
<1>9. Distinct(t)
  <2>1. \A m, n \in DOMAIN t : k + m = k + n => m = n BY <1>1, <1>4
  <2> QED BY <1>6, <2>1 DEF Distinct
<1>10. \A m \in DOMAIN s, n \in DOMAIN t : s[m].slot # t[n].slot
  <2>1. \A m \in DOMAIN s, n \in DOMAIN t : m # k + n BY <1>1, <1>4
  <2> QED BY <1>5, <1>6, <2>1 DEF Distinct
<1>11. \A m \in DOMAIN flow : m \in DOMAIN s \/ \E n \in DOMAIN t : m = k + n
  <2>1. ASSUME NEW m \in DOMAIN flow, m \notin DOMAIN s
        PROVE m - k \in DOMAIN t /\ m = k + (m - k)
    BY <1>1, <1>4, <2>1
  <2> QED BY <2>1
<1>12. ASSUME NEW p PROVE Entered(flow, p) = Entered(s, p) + Entered(t, p)
  <2>1. Entered(s, p) \in Nat /\ Entered(t, p) \in Nat /\ Entered(flow, p) \in Nat
    BY <1>2, <1>3, <1>8, <1>9, EnteredType
  <2>2. CASE \E m \in DOMAIN s : s[m].slot = p
    <3>1. PICK m \in DOMAIN s : s[m].slot = p BY <2>2
    <3>2. Entered(s, p) = s[m].entered /\ Entered(flow, p) = flow[m].entered
      BY <1>5, <1>8, <3>1, EnteredSound
    <3>3. Entered(t, p) = 0 BY <1>10, <3>1, EnteredSound
    <3> QED BY <1>5, <2>1, <3>1, <3>2, <3>3
  <2>3. CASE \E n \in DOMAIN t : t[n].slot = p
    <3>1. PICK n \in DOMAIN t : t[n].slot = p BY <2>3
    <3>2. Entered(t, p) = t[n].entered /\ Entered(flow, p) = flow[k + n].entered
      BY <1>6, <1>9, <3>1, EnteredSound
    <3>3. Entered(s, p) = 0 BY <1>10, <3>1, EnteredSound
    <3> QED BY <1>6, <2>1, <3>1, <3>2, <3>3
  <2>4. CASE (\A m \in DOMAIN s : s[m].slot # p) /\ (\A n \in DOMAIN t : t[n].slot # p)
    <3>1. \A m \in DOMAIN flow : flow[m].slot # p BY <1>5, <1>6, <1>11, <2>4
    <3>2. Entered(s, p) = 0 /\ Entered(t, p) = 0 /\ Entered(flow, p) = 0
      BY <2>4, <3>1, EnteredSound
    <3> QED BY <3>2
  <2> QED BY <2>2, <2>3, <2>4
<1> QED BY <1>2, <1>3, <1>5, <1>6, <1>7, <1>8, <1>9, <1>10, <1>12 DEF s, t

-----------------------------------------------------------------------------
(* What the jobs of a set carry *)

LEMMA ElementsFinite ==
  ASSUME TrafficAssumption, NEW s \in Seq(Flush)
  PROVE Elements(s) \subseteq Flush /\ IsFiniteSet(Elements(s))
<1>1. Elements(s) \subseteq Flush BY DEF Elements
<1> QED BY <1>1, FS_Subset DEF TrafficAssumption

\* What the jobs of J carry in slot p when their payloads are r.
Carried(r, J, p) == SumFunctionOnSet([j \in Flush |-> Entered(r[j], p)], J)

Payloads == {r \in [Flush -> Seq(Entry)] : \A j \in Flush : Distinct(r[j])}

LEMMA CarriedType ==
  ASSUME TrafficAssumption, NEW r \in Payloads, NEW J \in SUBSET Flush, NEW p
  PROVE Carried(r, J, p) \in Nat
<1>1. \A j \in Flush : Entered(r[j], p) \in Nat BY EnteredType DEF Payloads
<1>2. IsFiniteSet(J) BY FS_Subset DEF TrafficAssumption
<1> DEFINE f == [j \in Flush |-> Entered(r[j], p)]
<1>3. \A j \in J : f[j] \in Nat BY <1>1
<1> HIDE DEF f
<1>4. SumFunctionOnSet(f, J) \in Nat BY <1>2, <1>3, SumType
<1> QED BY <1>4 DEF Carried, f

\* It depends on the payloads of these jobs only,
LEMMA CarriedSame ==
  ASSUME TrafficAssumption, NEW r, NEW q, NEW J \in SUBSET Flush, NEW p,
         \A j \in J : r[j] = q[j]
  PROVE Carried(r, J, p) = Carried(q, J, p)
<1>1. IsFiniteSet(J) BY FS_Subset DEF TrafficAssumption
<1> DEFINE f == [j \in Flush |-> Entered(r[j], p)]
           g == [j \in Flush |-> Entered(q[j], p)]
<1>2. \A j \in J : f[j] = g[j] OBVIOUS
<1> HIDE DEF f, g
<1>3. SumFunctionOnSet(f, J) = SumFunctionOnSet(g, J) BY <1>1, <1>2, SumSame
<1> QED BY <1>3 DEF Carried, f, g

\* and two sets of jobs without a common one carry what each of them does.
LEMMA CarriedUnion ==
  ASSUME TrafficAssumption, NEW r \in Payloads, NEW p,
         NEW J \in SUBSET Flush, NEW K \in SUBSET Flush, J \intersect K = {}
  PROVE Carried(r, J \union K, p) = Carried(r, J, p) + Carried(r, K, p)
<1>1. \A j \in Flush : Entered(r[j], p) \in Nat BY EnteredType DEF Payloads
<1>2. IsFiniteSet(J) /\ IsFiniteSet(K) BY FS_Subset DEF TrafficAssumption
<1> DEFINE f == [j \in Flush |-> Entered(r[j], p)]
<1>3. \A j \in J \union K : f[j] \in Nat BY <1>1
<1> HIDE DEF f
<1>4. SumFunctionOnSet(f, J \union K) = SumFunctionOnSet(f, J) + SumFunctionOnSet(f, K)
  BY <1>2, <1>3, SumUnion
<1> QED BY <1>4 DEF Carried, f

LEMMA CarriedOne ==
  ASSUME TrafficAssumption, NEW r \in Payloads, NEW p,
         NEW J \in SUBSET Flush, NEW j \in Flush, j \notin J
  PROVE Carried(r, J \union {j}, p) = Carried(r, J, p) + Entered(r[j], p)
<1>1. Carried(r, J \union {j}, p) = Carried(r, J, p) + Carried(r, {j}, p)
  BY CarriedUnion
<1>2. Entered(r[j], p) \in Nat BY EnteredType DEF Payloads
<1> DEFINE f == [i \in Flush |-> Entered(r[i], p)]
<1>3. f[j] = Entered(r[j], p) /\ \A i \in {j} : f[i] \in Nat BY <1>2
<1>4. Carried(r, {j}, p) = SumFunctionOnSet(f, {j}) BY DEF Carried
<1> HIDE DEF f
<1>5. IsFiniteSet({j}) BY FS_Singleton
<1>6. SumFunctionOnSet(f, {j}) = f[j] + SumFunctionOnSet(f, {j} \ {j})
  <2>1. j \in {j} OBVIOUS
  <2> QED BY <1>3, <1>5, <2>1, SumRemove
<1>7. {j} \ {j} = {} OBVIOUS
<1>8. SumFunctionOnSet(f, {j} \ {j}) = 0 BY <1>7, SumEmpty
<1>9. Carried(r, {j}, p) = Entered(r[j], p) BY <1>2, <1>3, <1>4, <1>6, <1>8
<1> QED BY <1>1, <1>9

-----------------------------------------------------------------------------
(* The types, and the slots of each job *)

LEMMA SlotsApart == SlotsOnce <=> Distinct(flow) /\ \A j \in Flush : Distinct(rows[j])
BY DEF SlotsOnce, Distinct

LEMMA InitConsistent == ASSUME TrafficAssumption, Init PROVE TypeOK /\ SlotsOnce
<1>1. TypeOK
  <2>1. <<>> \in Seq(Entry) /\ <<>> \in Seq(Flush) OBVIOUS
  <2>2. 0 \in 0..MaxSeen /\ 0 \in Nat BY DEF TrafficAssumption
  <2>3. aggregate \in [Slot -> [current : 0..MaxSeen, entered : Nat]]
    BY <2>2 DEF Init
  <2>4. rows \in [Flush -> Seq(Entry)] BY <2>1 DEF Init
  <2>5. Outbox!TypeOK BY DEF Init, Outbox!Init, Outbox!TypeOK, Outbox!Phase
  <2> QED BY <2>1, <2>2, <2>3, <2>4, <2>5 DEF Init, TypeOK
<1>2. DOMAIN flow = {} /\ \A j \in Flush : DOMAIN rows[j] = {} BY DEF Init
<1>3. SlotsOnce BY <1>2, SlotsApart DEF Distinct
<1> QED BY <1>1, <1>3

\* The number of slots a flush takes.
LEMMA FlushSize ==
  ASSUME TrafficAssumption, flow \in Seq(Entry), flow # <<>>
  PROVE (IF Len(flow) < FlushLimit THEN Len(flow) ELSE FlushLimit) \in 1..Len(flow)
<1>1. Len(flow) \in Nat /\ Len(flow) # 0 OBVIOUS
<1>2. FlushLimit \in Nat /\ FlushLimit # 0 BY DEF TrafficAssumption
<1> QED BY <1>1, <1>2

\* What UpsertTraffic leaves in flow_pending.
LEMMA CollectStep ==
  ASSUME TrafficAssumption, TypeOK, SlotsOnce,
         NEW p \in Slot, NEW n \in Visitors, UpsertTraffic(p, n)
  PROVE /\ seen[p] + 1 \in 0..MaxSeen /\ n \in Nat /\ seen[p] \in Nat
        /\ flow' \in Seq(Entry) /\ Distinct(flow')
        /\ \A q : Entered(flow', q) = Entered(flow, q) + (IF q = p THEN n ELSE 0)
        /\ \A m \in DOMAIN flow' :
             \/ flow'[m].slot = p /\ flow'[m].current = seen[p] + 1
             \/ m \in DOMAIN flow /\ flow'[m].slot = flow[m].slot /\ flow'[m].current = flow[m].current
<1>1. seen[p] \in 0..MaxSeen /\ MaxSeen \in Nat BY DEF TypeOK, TrafficAssumption
<1>2. seen[p] + 1 \in 0..MaxSeen /\ n \in Nat /\ seen[p] \in Nat
  BY <1>1 DEF UpsertTraffic, TrafficAssumption
<1>3. flow \in Seq(Entry) /\ Distinct(flow) BY SlotsApart DEF TypeOK
<1>4. flow' = Collect(p, seen[p] + 1, n) BY DEF UpsertTraffic
<1> DEFINE c == seen[p] + 1
<1>5. c \in 0..MaxSeen BY <1>2
<1>6. flow' = Collect(p, c, n) BY <1>4
<1> HIDE DEF c
<1>7. LET s == Collect(p, c, n) IN
        /\ s \in Seq(Entry) /\ Distinct(s)
        /\ \A q : Entered(s, q) = Entered(flow, q) + (IF q = p THEN n ELSE 0)
        /\ \A m \in DOMAIN s :
             \/ s[m].slot = p /\ s[m].current = c
             \/ m \in DOMAIN flow /\ s[m].slot = flow[m].slot /\ s[m].current = flow[m].current
  BY <1>2, <1>3, <1>5, CollectSound
<1> QED BY <1>2, <1>6, <1>7, Zenon DEF c

\* What FlushFlow leaves there, and what it puts into the job.
LEMMA CutStep ==
  ASSUME TrafficAssumption, TypeOK, SlotsOnce, NEW j \in Flush, FlushFlow(j)
  PROVE /\ rows'[j] \in Seq(Entry) /\ Distinct(rows'[j]) /\ rows'[j] # <<>>
        /\ flow' \in Seq(Entry) /\ Distinct(flow')
        /\ DOMAIN rows' = Flush /\ \A k \in Flush : k # j => rows'[k] = rows[k]
        /\ \A m \in DOMAIN rows'[j] : m \in DOMAIN flow /\ rows'[j][m] = flow[m]
        /\ \A m \in DOMAIN flow' : \E n \in DOMAIN flow : flow'[m] = flow[n]
        /\ \A m \in DOMAIN rows'[j], n \in DOMAIN flow' : rows'[j][m].slot # flow'[n].slot
        /\ \A p : Entered(flow, p) = Entered(rows'[j], p) + Entered(flow', p)
<1> DEFINE k == IF Len(flow) < FlushLimit THEN Len(flow) ELSE FlushLimit
<1>1. flow \in Seq(Entry) /\ flow # <<>> /\ Distinct(flow)
  BY SlotsApart DEF FlushFlow, TypeOK
<1>2. k \in 1..Len(flow) BY <1>1, FlushSize
<1>3. /\ rows' = [rows EXCEPT ![j] = SubSeq(flow, 1, k)]
      /\ flow' = SubSeq(flow, k + 1, Len(flow))
  BY DEF FlushFlow
<1> HIDE DEF k
<1>4. rows \in [Flush -> Seq(Entry)] BY DEF TypeOK
<1>5. /\ rows'[j] = SubSeq(flow, 1, k) /\ DOMAIN rows' = Flush
      /\ \A i \in Flush : i # j => rows'[i] = rows[i]
  BY <1>3, <1>4
<1>6. LET s == SubSeq(flow, 1, k)
          t == SubSeq(flow, k + 1, Len(flow)) IN
        /\ s \in Seq(Entry) /\ t \in Seq(Entry) /\ Distinct(s) /\ Distinct(t)
        /\ s # <<>>
        /\ \A m \in DOMAIN s : m \in DOMAIN flow /\ s[m] = flow[m]
        /\ \A m \in DOMAIN t : k + m \in DOMAIN flow /\ t[m] = flow[k + m]
        /\ \A m \in DOMAIN s, n \in DOMAIN t : s[m].slot # t[n].slot
        /\ \A p : Entered(flow, p) = Entered(s, p) + Entered(t, p)
  BY <1>1, <1>2, CutSound
<1> QED BY <1>3, <1>5, <1>6, Zenon

LEMMA ConsistentStep ==
  ASSUME TrafficAssumption, TypeOK, SlotsOnce, Held, [Next]_vars
  PROVE TypeOK' /\ SlotsOnce'
<1>1. Distinct(flow) /\ \A j \in Flush : Distinct(rows[j]) BY SlotsApart
<1>2. ASSUME Distinct(flow'), \A j \in Flush : Distinct(rows'[j]) PROVE SlotsOnce'
  BY <1>2 DEF SlotsOnce, Distinct
<1>3. ASSUME UNCHANGED <<flow, rows>> PROVE SlotsOnce'
  BY <1>3 DEF SlotsOnce
<1>4. ASSUME NEW p \in Slot, NEW n \in Visitors, UpsertTraffic(p, n)
      PROVE TypeOK' /\ SlotsOnce'
  <2>1. /\ seen[p] + 1 \in 0..MaxSeen /\ n \in Nat
        /\ flow' \in Seq(Entry) /\ Distinct(flow')
    BY <1>4, CollectStep
  <2>2. UNCHANGED <<cameras, memory, rows, phase, applied, queue, delayed, aggregate, lost, troubled>>
    BY <1>4 DEF UpsertTraffic, outbox
  <2>3. seen' \in [Slot -> 0..MaxSeen] BY <1>4, <2>1 DEF UpsertTraffic, TypeOK
  <2>4. counted' \in [Slot -> Nat] BY <1>4, <2>1 DEF UpsertTraffic, TypeOK
  <2>5. TypeOK' BY <2>1, <2>2, <2>3, <2>4 DEF TypeOK, Outbox!TypeOK
  <2> QED BY <1>1, <1>2, <2>1, <2>2, <2>5
<1>5. ASSUME NEW j \in Flush, FlushFlow(j) PROVE TypeOK' /\ SlotsOnce'
  <2>1. /\ rows'[j] \in Seq(Entry) /\ Distinct(rows'[j])
        /\ flow' \in Seq(Entry) /\ Distinct(flow')
        /\ DOMAIN rows' = Flush /\ \A k \in Flush : k # j => rows'[k] = rows[k]
    BY <1>5, CutStep
  <2>2. /\ UNCHANGED <<cameras, phase, applied, queue, delayed, aggregate, seen, counted, lost, troubled>>
        /\ rows' = [rows EXCEPT ![j] = rows'[j]]
    <3>1. rows' = [rows EXCEPT ![j] = SubSeq(flow, 1,
             IF Len(flow) < FlushLimit THEN Len(flow) ELSE FlushLimit)]
      BY <1>5 DEF FlushFlow
    <3>2. rows' = [rows EXCEPT ![j] = rows'[j]] BY <3>1 DEF TypeOK
    <3> QED BY <1>5, <3>2 DEF FlushFlow, outbox
  <2>3. rows' \in [Flush -> Seq(Entry)] BY <2>1, <2>2 DEF TypeOK
  <2>4. memory' \in Seq(Flush) BY <1>5 DEF FlushFlow, TypeOK
  <2>5. TypeOK' BY <2>1, <2>2, <2>3, <2>4 DEF TypeOK, Outbox!TypeOK
  <2>6. \A k \in Flush : Distinct(rows'[k]) BY <1>1, <2>1
  <2> QED BY <1>2, <2>1, <2>5, <2>6
<1>6. ASSUME NEW j \in Flush, Persist(j) PROVE TypeOK' /\ SlotsOnce'
  <2>1. UNCHANGED <<cameras, flow, rows, applied, delayed, aggregate, seen, counted, lost, troubled>>
    BY <1>6 DEF Persist, Outbox!Accept
  <2>2. phase' \in [Flush -> Outbox!Phase]
    BY <1>6 DEF Persist, Outbox!Accept, TypeOK, Outbox!TypeOK, Outbox!Phase
  <2>3. queue' \in Seq(Flush) /\ memory' \in Seq(Flush) BY <1>6 DEF Persist, TypeOK
  <2>4. TypeOK' BY <2>1, <2>2, <2>3 DEF TypeOK, Outbox!TypeOK
  <2> QED BY <1>3, <2>1, <2>4
<1>7. ASSUME NEW j \in Flush, Apply(j) PROVE TypeOK' /\ SlotsOnce'
  <2>1. UNCHANGED <<cameras, flow, memory, rows, queue, delayed, seen, counted, lost, troubled>>
    BY <1>7 DEF Apply
  <2>2. phase' \in [Flush -> Outbox!Phase] /\ applied' \in [Flush -> {0, 1}]
    BY <1>7 DEF Apply, Outbox!Apply, TypeOK, Outbox!TypeOK, Outbox!Phase
  <2>3. aggregate' \in [Slot -> [current : 0..MaxSeen, entered : Nat]]
    <3>1. rows[j] \in Seq(Entry) BY DEF TypeOK
    <3>2. \A i \in DOMAIN rows[j] : rows[j][i] \in Entry BY <3>1
    <3>3. ASSUME NEW p \in Slot,
                 NEW I, I = {i \in DOMAIN rows[j] : rows[j][i].slot = p /\ p[1] \in cameras},
                 I # {}, NEW e, e = rows[j][CHOOSE i \in I : TRUE]
          PROVE [current |-> e.current, entered |-> aggregate[p].entered + e.entered]
                  \in [current : 0..MaxSeen, entered : Nat]
      <4>1. (CHOOSE i \in I : TRUE) \in DOMAIN rows[j] BY <3>3
      <4>2. e \in Entry BY <3>2, <3>3, <4>1
      <4>3. e.current \in 0..MaxSeen /\ e.entered \in Nat BY <4>2 DEF Entry
      <4>4. aggregate[p].entered \in Nat BY DEF TypeOK
      <4> QED BY <4>3, <4>4
    <3>4. \A p \in Slot : aggregate[p] \in [current : 0..MaxSeen, entered : Nat] BY DEF TypeOK
    <3>5. aggregate' = [p \in Slot |->
            LET I == {i \in DOMAIN rows[j] : rows[j][i].slot = p /\ p[1] \in cameras} IN
              IF I = {} THEN aggregate[p]
              ELSE LET e == rows[j][CHOOSE i \in I : TRUE] IN
                [current |-> e.current, entered |-> aggregate[p].entered + e.entered]]
      BY <1>7 DEF Apply
    <3> QED BY <3>3, <3>4, <3>5
  <2>4. TypeOK' BY <2>1, <2>2, <2>3 DEF TypeOK, Outbox!TypeOK
  <2> QED BY <1>3, <2>1, <2>4
<1>8. ASSUME NEW j \in Flush, Fail(j) PROVE TypeOK' /\ SlotsOnce'
  <2>1. UNCHANGED <<cameras, flow, memory, rows, applied, queue, aggregate, seen, counted, lost>>
    BY <1>8 DEF Fail, Outbox!GiveUp
  <2>2. phase' \in [Flush -> Outbox!Phase] /\ delayed' \subseteq Flush /\ troubled' \in BOOLEAN
    BY <1>8 DEF Fail, Outbox!GiveUp, TypeOK, Outbox!TypeOK, Outbox!Phase
  <2>3. TypeOK' BY <2>1, <2>2 DEF TypeOK, Outbox!TypeOK
  <2> QED BY <1>3, <2>1, <2>3
<1>9. ASSUME NEW j \in Flush, Return(j) \/ Reopen(j) PROVE TypeOK' /\ SlotsOnce'
  <2>1. UNCHANGED <<cameras, flow, memory, rows, applied, queue, aggregate, seen, counted, lost, troubled>>
    BY <1>9 DEF Return, Reopen, Outbox!Reopen
  <2>2. phase' \in [Flush -> Outbox!Phase] /\ delayed' \subseteq Flush
    BY <1>9 DEF Return, Reopen, Outbox!Reopen, TypeOK, Outbox!TypeOK, Outbox!Phase
  <2>3. TypeOK' BY <2>1, <2>2 DEF TypeOK, Outbox!TypeOK
  <2> QED BY <1>3, <2>1, <2>3
<1>10. ASSUME Postpone PROVE TypeOK' /\ SlotsOnce'
  <2>1. UNCHANGED <<cameras, flow, rows, phase, applied, queue, delayed, aggregate, seen, counted, lost>>
    BY <1>10 DEF Postpone, outbox
  <2>2. memory' \in Seq(Flush) /\ troubled' \in BOOLEAN BY <1>10 DEF Postpone, TypeOK
  <2>3. TypeOK' BY <2>1, <2>2 DEF TypeOK, Outbox!TypeOK
  <2> QED BY <1>3, <2>1, <2>3
<1>11. ASSUME NEW c \in Camera, DeleteCamera(c) PROVE TypeOK' /\ SlotsOnce'
  <2>1. UNCHANGED <<flow, memory, rows, phase, applied, queue, delayed, seen, counted, lost, troubled>>
    BY <1>11 DEF DeleteCamera, outbox
  <2>2. aggregate' \in [Slot -> [current : 0..MaxSeen, entered : Nat]] /\ cameras' \subseteq Camera
    BY <1>11 DEF DeleteCamera, TypeOK, TrafficAssumption
  <2>3. TypeOK' BY <2>1, <2>2 DEF TypeOK, Outbox!TypeOK
  <2> QED BY <1>3, <2>1, <2>3
<1>12. ASSUME Crash PROVE TypeOK' /\ SlotsOnce'
  <2>1. UNCHANGED <<cameras, rows, phase, applied, queue, aggregate, seen, counted>>
    BY <1>12 DEF Crash
  <2>2. flow' = <<>> /\ memory' = <<>> /\ delayed' \subseteq Flush /\ troubled' \in BOOLEAN
    BY <1>12 DEF Crash, TypeOK
  <2>3. lost' \in [Slot -> Nat]
    <3>1. \A p \in Slot : Entered(flow, p) \in Nat BY <1>1, EnteredType DEF TypeOK
    <3>2. \A p \in Slot : EnteredIn(Elements(memory), p) \in Nat
      <4>1. rows \in Payloads BY <1>1 DEF TypeOK, Payloads
      <4>2. Elements(memory) \in SUBSET Flush BY ElementsFinite DEF TypeOK
      <4>3. \A p : Carried(rows, Elements(memory), p) \in Nat BY <4>1, <4>2, CarriedType
      <4> QED BY <4>3 DEF EnteredIn, Carried
    <3>3. \A p \in Slot : lost[p] \in Nat BY DEF TypeOK
    <3>4. lost' = [p \in Slot |->
            lost[p] + Entered(flow, p) + EnteredIn(Elements(memory), p)]
      BY <1>12 DEF Crash
    <3> QED BY <3>1, <3>2, <3>3, <3>4
  <2>4. TypeOK' BY <2>1, <2>2, <2>3 DEF TypeOK, Outbox!TypeOK
  <2>5. Distinct(flow') BY <2>2 DEF Distinct
  <2> QED BY <1>1, <1>2, <2>1, <2>4, <2>5
<1>13. ASSUME UNCHANGED vars PROVE TypeOK' /\ SlotsOnce'
  <2>1. UNCHANGED <<cameras, flow, memory, rows, phase, applied, queue, delayed, aggregate, seen, counted, lost, troubled>>
    BY <1>13 DEF vars
  <2>2. TypeOK' BY <2>1 DEF TypeOK, Outbox!TypeOK
  <2> QED BY <1>3, <2>1, <2>2
<1> QED BY <1>4, <1>5, <1>6, <1>7, <1>8, <1>9, <1>10, <1>11, <1>12, <1>13 DEF Next

-----------------------------------------------------------------------------
(* What is in memory and in the queue *)

LEMMA Appended ==
  ASSUME NEW S, NEW s \in Seq(S), NEW x \in S
  PROVE Elements(Append(s, x)) = Elements(s) \union {x}
<1> DEFINE t == Append(s, x)
<1>1. /\ DOMAIN t = DOMAIN s \union {Len(s) + 1} /\ t[Len(s) + 1] = x
      /\ \A m \in DOMAIN s : t[m] = s[m]
  OBVIOUS
<1> HIDE DEF t
<1>2. Elements(t) = Elements(s) \union {x} BY <1>1 DEF Elements
<1> QED BY <1>2 DEF t

LEMMA Beheaded ==
  ASSUME NEW S, NEW s \in Seq(S), s # <<>>
  PROVE /\ Head(s) \in S /\ Tail(s) \in Seq(S)
        /\ Head(s) = s[1] /\ 1 \in DOMAIN s
        /\ \A m \in DOMAIN Tail(s) : m + 1 \in DOMAIN s /\ Tail(s)[m] = s[m + 1]
        /\ Elements(s) = {Head(s)} \union Elements(Tail(s))
        /\ (\A m, n \in DOMAIN s : s[m] = s[n] => m = n) =>
             /\ Head(s) \notin Elements(Tail(s))
             /\ \A m, n \in DOMAIN Tail(s) : Tail(s)[m] = Tail(s)[n] => m = n
<1>1. /\ Head(s) \in S /\ Tail(s) \in Seq(S) /\ Head(s) = s[1] /\ 1 \in DOMAIN s
      /\ Len(Tail(s)) = Len(s) - 1 /\ Len(s) \in Nat /\ Len(s) >= 1
      /\ DOMAIN s = 1..Len(s) /\ DOMAIN Tail(s) = 1..(Len(s) - 1)
  OBVIOUS
<1>2. \A m \in 1..(Len(s) - 1) : Tail(s)[m] = s[m + 1] OBVIOUS
<1> DEFINE t == Tail(s)
<1>3. \A m \in DOMAIN t : m \in Nat /\ m + 1 # 1 /\ m + 1 \in DOMAIN s /\ t[m] = s[m + 1]
  BY <1>1, <1>2
<1>4. \A m \in DOMAIN s : m = 1 \/ (m - 1 \in DOMAIN t /\ m = (m - 1) + 1)
  BY <1>1
<1> HIDE DEF t
<1>5. Elements(s) = {s[1]} \union Elements(t) BY <1>1, <1>3, <1>4 DEF Elements
<1>6. ASSUME \A m, n \in DOMAIN s : s[m] = s[n] => m = n
      PROVE /\ s[1] \notin Elements(t)
            /\ \A m, n \in DOMAIN t : t[m] = t[n] => m = n
  BY <1>1, <1>3, <1>6 DEF Elements
<1> QED BY <1>1, <1>3, <1>5, <1>6 DEF t

LEMMA HeldStep ==
  ASSUME TrafficAssumption, TypeOK, SlotsOnce, Held, [Next]_vars
  PROVE Held'
<1>0. memory \in Seq(Flush) /\ queue \in Seq(Flush) BY DEF TypeOK
<1>1. ASSUME UNCHANGED <<memory, queue, rows>>,
             \A j \in Flush : phase'[j] = phase[j] \/ (phase[j] # "absent" /\ phase'[j] # "absent")
      PROVE Held'
  <2>1. Elements(memory) \subseteq Flush /\ Elements(queue) \subseteq Flush
    BY <1>0, ElementsFinite
  <2>2. \A j \in Elements(memory) : phase'[j] = "absent" BY <1>1, <2>1 DEF Held
  <2>3. \A j \in Elements(queue) : phase'[j] # "absent" BY <1>1, <2>1 DEF Held
  <2> QED BY <1>1, <2>2, <2>3 DEF Held, Elements
<1>2. ASSUME NEW p \in Slot, NEW n \in Visitors, UpsertTraffic(p, n) PROVE Held'
  BY <1>1, <1>2 DEF UpsertTraffic, outbox
<1>3. ASSUME NEW j \in Flush, FlushFlow(j) PROVE Held'
  <2>1. /\ UNCHANGED <<phase, queue>> /\ memory' = Append(memory, j)
        /\ phase[j] = "absent" /\ rows[j] = <<>>
    BY <1>3 DEF FlushFlow, outbox
  <2>2. rows'[j] # <<>> /\ \A k \in Flush : k # j => rows'[k] = rows[k] BY <1>3, CutStep
  <2>3. Elements(memory') = Elements(memory) \union {j} BY <1>0, <2>1, Appended
  <2>4. j \notin Elements(memory) /\ Elements(memory) \subseteq Flush
    BY <1>0, <2>1, ElementsFinite DEF Held
  <2>5. \A k \in Elements(memory') : phase'[k] = "absent" /\ rows'[k] # <<>>
    BY <2>1, <2>2, <2>3, <2>4 DEF Held
  <2>6. \A m, n \in DOMAIN memory' : memory'[m] = memory'[n] => m = n
    <3>1. /\ DOMAIN memory' = DOMAIN memory \union {Len(memory) + 1}
          /\ memory'[Len(memory) + 1] = j
          /\ \A m \in DOMAIN memory : memory'[m] = memory[m]
      BY <1>0, <2>1
    <3>2. \A m \in DOMAIN memory : memory[m] # j BY <2>4 DEF Elements
    <3> QED BY <3>1, <3>2 DEF Held
  <2>7. \A k \in Elements(queue') : phase'[k] # "absent" BY <2>1 DEF Held, Elements
  <2> QED BY <2>5, <2>6, <2>7 DEF Held, Elements
<1>4. ASSUME NEW j \in Flush, Persist(j) PROVE Held'
  <2>1. /\ memory # <<>> /\ j = Head(memory) /\ memory' = Tail(memory)
        /\ queue' = Append(queue, j) /\ UNCHANGED rows
        /\ phase' = [phase EXCEPT ![j] = "open"]
    BY <1>4 DEF Persist, Outbox!Accept
  <2>2. phase \in [Flush -> Outbox!Phase] BY DEF TypeOK, Outbox!TypeOK
  <2>3. phase'[j] = "open" /\ \A k \in Flush : k # j => phase'[k] = phase[k] BY <2>1, <2>2
  <2>4. \A m, n \in DOMAIN memory : memory[m] = memory[n] => m = n BY DEF Held
  <2>5. /\ Elements(memory) = {j} \union Elements(memory')
        /\ j \notin Elements(memory')
        /\ \A m, n \in DOMAIN memory' : memory'[m] = memory'[n] => m = n
    BY <1>0, <2>1, <2>4, Beheaded
  <2>6. Elements(queue') = Elements(queue) \union {j} BY <1>0, <2>1, Appended
  <2>7. Elements(memory) \subseteq Flush /\ Elements(queue) \subseteq Flush
    BY <1>0, ElementsFinite
  <2>8. \A k \in Elements(memory') : phase'[k] = "absent" /\ rows'[k] # <<>>
    BY <2>1, <2>3, <2>5, <2>7 DEF Held
  <2>9. \A k \in Elements(queue') : phase'[k] # "absent" BY <2>3, <2>6, <2>7 DEF Held
  <2> QED BY <2>5, <2>8, <2>9 DEF Held, Elements
<1>5. ASSUME NEW j \in Flush, Apply(j) PROVE Held'
  <2>1. /\ UNCHANGED <<memory, queue, rows>> /\ phase[j] = "open"
        /\ phase' = [k \in Flush |-> IF k \in {j} THEN "done" ELSE phase[k]]
    BY <1>5 DEF Apply, Outbox!Apply
  <2> QED BY <1>1, <2>1
<1>6. ASSUME NEW j \in Flush, Fail(j) PROVE Held'
  <2>1. UNCHANGED <<memory, queue, rows>> BY <1>6 DEF Fail
  <2>2. phase \in [Flush -> Outbox!Phase] BY DEF TypeOK, Outbox!TypeOK
  <2>3. phase' = phase \/ (phase[j] = "open" /\ phase' = [phase EXCEPT ![j] = "dead"])
    BY <1>6 DEF Fail, Outbox!GiveUp
  <2>4. \A k \in Flush : phase'[k] = phase[k] \/ (phase[k] # "absent" /\ phase'[k] # "absent")
    BY <2>2, <2>3
  <2> QED BY <1>1, <2>1, <2>4
<1>7. ASSUME NEW j \in Flush, Return(j) \/ Reopen(j) PROVE Held'
  <2>1. UNCHANGED <<memory, queue, rows>> BY <1>7 DEF Return, Reopen
  <2>2. phase \in [Flush -> Outbox!Phase] BY DEF TypeOK, Outbox!TypeOK
  <2>3. phase' = phase \/ (phase[j] = "dead" /\ phase' = [phase EXCEPT ![j] = "open"])
    BY <1>7 DEF Return, Reopen, Outbox!Reopen
  <2>4. \A k \in Flush : phase'[k] = phase[k] \/ (phase[k] # "absent" /\ phase'[k] # "absent")
    BY <2>2, <2>3
  <2> QED BY <1>1, <2>1, <2>4
<1>8. ASSUME Postpone PROVE Held'
  <2>1. /\ UNCHANGED <<phase, queue, rows>> /\ Len(memory) > 1
        /\ memory' = Append(Tail(memory), Head(memory))
    BY <1>8 DEF Postpone, outbox
  <2>2. memory # <<>> BY <1>0, <2>1
  <2>3. \A m, n \in DOMAIN memory : memory[m] = memory[n] => m = n BY DEF Held
  <2> DEFINE h == Head(memory)
             t == Tail(memory)
  <2>4. /\ h \in Flush /\ t \in Seq(Flush)
        /\ Elements(memory) = {h} \union Elements(t)
        /\ h \notin Elements(t)
        /\ \A m, n \in DOMAIN t : t[m] = t[n] => m = n
    BY <1>0, <2>2, <2>3, Beheaded
  <2>5. memory' = Append(t, h) BY <2>1
  <2> HIDE DEF h, t
  <2>6. Elements(memory') = Elements(memory) BY <2>4, <2>5, Appended
  <2>7. \A m, n \in DOMAIN memory' : memory'[m] = memory'[n] => m = n
    <3>1. /\ DOMAIN memory' = DOMAIN t \union {Len(t) + 1}
          /\ memory'[Len(t) + 1] = h
          /\ \A m \in DOMAIN t : memory'[m] = t[m]
      BY <2>4, <2>5
    <3>2. \A m \in DOMAIN t : t[m] # h BY <2>4 DEF Elements
    <3> QED BY <2>4, <3>1, <3>2
  <2>8. \A k \in Elements(memory') : phase'[k] = "absent" /\ rows'[k] # <<>>
    BY <2>1, <2>6 DEF Held
  <2>9. \A k \in Elements(queue') : phase'[k] # "absent" BY <2>1 DEF Held, Elements
  <2> QED BY <2>7, <2>8, <2>9 DEF Held, Elements
<1>9. ASSUME NEW c \in Camera, DeleteCamera(c) PROVE Held'
  BY <1>1, <1>9 DEF DeleteCamera, outbox
<1>10. ASSUME Crash PROVE Held'
  <2>1. memory' = <<>> /\ UNCHANGED <<phase, queue, rows>> BY <1>10 DEF Crash
  <2>2. DOMAIN memory' = {} /\ Elements(memory') = {} BY <2>1 DEF Elements
  <2>3. \A k \in Elements(queue') : phase'[k] # "absent" BY <2>1 DEF Held, Elements
  <2> QED BY <2>2, <2>3 DEF Held, Elements
<1>11. ASSUME UNCHANGED vars PROVE Held'
  BY <1>1, <1>11 DEF vars
<1> QED BY <1>2, <1>3, <1>4, <1>5, <1>6, <1>7, <1>8, <1>9, <1>10, <1>11 DEF Next

-----------------------------------------------------------------------------
(* Every visitor once *)

\* The jobs whose visitors are not in the table yet.
Unapplied == Elements(memory) \union {j \in Flush : phase[j] \in {"open", "dead"}}

LEMMA VisitorsAs ==
  EveryVisitorOnce <=>
    \A p \in Slot : p[1] \in cameras =>
      counted[p] = aggregate[p].entered + Entered(flow, p)
                   + Carried(rows, Unapplied, p) + lost[p]
BY DEF EveryVisitorOnce, EnteredIn, Carried, Unapplied

LEMMA VisitorsStep ==
  ASSUME TrafficAssumption, TypeOK, SlotsOnce, Held, EveryVisitorOnce, [Next]_vars
  PROVE EveryVisitorOnce'
<1> DEFINE Slotwise ==
      \A p \in Slot : p[1] \in cameras' =>
        counted'[p] = aggregate'[p].entered + Entered(flow', p)
                      + Carried(rows', Unapplied', p) + lost'[p]
<1>0. ASSUME Slotwise PROVE EveryVisitorOnce'
  BY <1>0 DEF EveryVisitorOnce, EnteredIn, Carried, Unapplied
<1>1. /\ memory \in Seq(Flush) /\ Elements(memory) \in SUBSET Flush
      /\ Unapplied \in SUBSET Flush /\ phase \in [Flush -> Outbox!Phase]
  BY ElementsFinite DEF Unapplied, TypeOK, Outbox!TypeOK
<1>2. rows \in Payloads /\ flow \in Seq(Entry) /\ Distinct(flow)
  BY SlotsApart DEF Payloads, TypeOK
<1>3. \A p \in Slot : /\ counted[p] \in Nat /\ lost[p] \in Nat /\ aggregate[p].entered \in Nat
                      /\ Entered(flow, p) \in Nat /\ Carried(rows, Unapplied, p) \in Nat
  BY <1>1, <1>2, EnteredType, CarriedType DEF TypeOK
<1>4. \A p \in Slot : p[1] \in cameras =>
        counted[p] = aggregate[p].entered + Entered(flow, p)
                     + Carried(rows, Unapplied, p) + lost[p]
  BY VisitorsAs
<1>5. ASSUME UNCHANGED <<counted, aggregate, flow, rows, lost>>, cameras' \subseteq cameras,
             Unapplied' = Unapplied
      PROVE EveryVisitorOnce'
  BY <1>0, <1>4, <1>5
<1>6. ASSUME NEW p \in Slot, NEW n \in Visitors, UpsertTraffic(p, n) PROVE EveryVisitorOnce'
  <2>1. n \in Nat /\ \A q : Entered(flow', q) = Entered(flow, q) + (IF q = p THEN n ELSE 0)
    BY <1>6, CollectStep
  <2>2. /\ UNCHANGED <<cameras, memory, rows, phase, aggregate, lost>>
        /\ counted' = [counted EXCEPT ![p] = @ + n]
    BY <1>6 DEF UpsertTraffic, outbox
  <2>3. Unapplied' = Unapplied BY <2>2 DEF Unapplied, Elements
  <2>4. \A q \in Slot : counted'[q] = counted[q] + (IF q = p THEN n ELSE 0)
    BY <1>3, <2>1, <2>2 DEF TypeOK
  <2>5. ASSUME NEW q \in Slot, q[1] \in cameras'
        PROVE counted'[q] = aggregate'[q].entered + Entered(flow', q)
                            + Carried(rows', Unapplied', q) + lost'[q]
    <3>1. counted[q] = aggregate[q].entered + Entered(flow, q)
                       + Carried(rows, Unapplied, q) + lost[q]
      BY <1>4, <2>2, <2>5
    <3>2. Carried(rows', Unapplied', q) = Carried(rows, Unapplied, q) BY <2>2, <2>3
    <3>3. aggregate'[q] = aggregate[q] /\ lost'[q] = lost[q] BY <2>2
    <3>4. q = p \/ q # p OBVIOUS
    <3> QED BY <1>3, <2>1, <2>4, <3>1, <3>2, <3>3
  <2> QED BY <1>0, <2>5
<1>7. ASSUME NEW j \in Flush, FlushFlow(j) PROVE EveryVisitorOnce'
  <2>1. /\ UNCHANGED <<cameras, phase, aggregate, counted, lost>> /\ memory' = Append(memory, j)
        /\ phase[j] = "absent" /\ rows[j] = <<>>
    BY <1>7 DEF FlushFlow, outbox
  <2>2. /\ rows'[j] \in Seq(Entry) /\ Distinct(rows'[j])
        /\ DOMAIN rows' = Flush /\ \A k \in Flush : k # j => rows'[k] = rows[k]
        /\ flow' \in Seq(Entry) /\ Distinct(flow')
        /\ \A p : Entered(flow, p) = Entered(rows'[j], p) + Entered(flow', p)
    BY <1>7, CutStep
  <2>3. j \notin Unapplied BY <2>1 DEF Unapplied, Held
  <2>4. Unapplied' = Unapplied \union {j}
    <3>1. Elements(memory') = Elements(memory) \union {j} BY <1>1, <2>1, Appended
    <3> QED BY <2>1, <3>1 DEF Unapplied
  <2>5. rows' \in Payloads
    <3>1. (TypeOK /\ SlotsOnce)' BY <1>7, ConsistentStep DEF Next
    <3> QED BY <1>2, <2>2, <3>1 DEF Payloads, TypeOK
  <2>6. ASSUME NEW q \in Slot, q[1] \in cameras'
        PROVE counted'[q] = aggregate'[q].entered + Entered(flow', q)
                            + Carried(rows', Unapplied', q) + lost'[q]
    <3>1. Carried(rows', Unapplied', q) = Carried(rows', Unapplied, q) + Entered(rows'[j], q)
      BY <1>1, <2>3, <2>4, <2>5, CarriedOne
    <3>2. Carried(rows', Unapplied, q) = Carried(rows, Unapplied, q)
      <4>1. \A i \in Unapplied : rows'[i] = rows[i] BY <1>1, <2>2, <2>3
      <4> QED BY <1>1, <4>1, CarriedSame
    <3>3. Entered(rows'[j], q) \in Nat /\ Entered(flow', q) \in Nat BY <2>2, EnteredType
    <3>4. counted[q] = aggregate[q].entered + Entered(flow, q)
                       + Carried(rows, Unapplied, q) + lost[q]
      BY <1>4, <2>1, <2>6
    <3>5. counted'[q] = counted[q] /\ aggregate'[q] = aggregate[q] /\ lost'[q] = lost[q] BY <2>1
    <3> QED BY <1>3, <2>2, <3>1, <3>2, <3>3, <3>4, <3>5
  <2> QED BY <1>0, <2>6
<1>8. ASSUME NEW j \in Flush, Persist(j) PROVE EveryVisitorOnce'
  <2>1. /\ UNCHANGED <<cameras, flow, rows, aggregate, counted, lost>>
        /\ memory # <<>> /\ j = Head(memory) /\ memory' = Tail(memory)
        /\ phase[j] = "absent" /\ phase' = [phase EXCEPT ![j] = "open"]
    BY <1>8 DEF Persist, Outbox!Accept
  <2>2. Elements(memory) = {j} \union Elements(memory') BY <1>1, <2>1, Beheaded
  <2>3. {i \in Flush : phase'[i] \in {"open", "dead"}} = {j} \union {i \in Flush : phase[i] \in {"open", "dead"}}
    BY <1>1, <2>1
  <2>4. Unapplied' = Unapplied BY <2>2, <2>3 DEF Unapplied
  <2> QED BY <1>5, <2>1, <2>4
<1>9. ASSUME NEW j \in Flush, Apply(j) PROVE EveryVisitorOnce'
  <2>1. /\ UNCHANGED <<cameras, flow, memory, rows, counted, lost>> /\ phase[j] = "open"
        /\ phase' = [k \in Flush |-> IF k \in {j} THEN "done" ELSE phase[k]]
    BY <1>9 DEF Apply, Outbox!Apply
  <2>2. j \notin Elements(memory) BY <2>1 DEF Held
  <2>3. j \notin Unapplied' /\ Unapplied = Unapplied' \union {j} /\ Unapplied' \in SUBSET Flush
    <3>1. {i \in Flush : phase'[i] \in {"open", "dead"}} =
            {i \in Flush : phase[i] \in {"open", "dead"}} \ {j}
      BY <2>1
    <3>2. Elements(memory') = Elements(memory) BY <2>1
    <3>3. Unapplied' = Elements(memory') \union {i \in Flush : phase'[i] \in {"open", "dead"}}
      BY DEF Unapplied
    <3> QED BY <1>1, <2>1, <2>2, <3>1, <3>2, <3>3 DEF Unapplied
  <2>4. ASSUME NEW q \in Slot, q[1] \in cameras
        PROVE aggregate'[q].entered = aggregate[q].entered + Entered(rows[j], q)
    <3> DEFINE I == {i \in DOMAIN rows[j] : rows[j][i].slot = q /\ q[1] \in cameras}
    <3>1. aggregate'[q] =
            IF I = {} THEN aggregate[q]
            ELSE LET e == rows[j][CHOOSE i \in I : TRUE] IN
                   [current |-> e.current, entered |-> aggregate[q].entered + e.entered]
      BY <1>9 DEF Apply
    <3>2. \A i \in I : i \in DOMAIN rows[j] /\ rows[j][i].slot = q OBVIOUS
    <3>3. \A i \in DOMAIN rows[j] : i \in I <=> rows[j][i].slot = q BY <2>4
    <3>4. Distinct(rows[j]) BY <1>2 DEF Payloads
    <3> HIDE DEF I
    <3>5. CASE I = {}
      <4>1. Entered(rows[j], q) = 0 BY <3>3, <3>5, EnteredSound
      <4> QED BY <1>3, <3>1, <3>5, <4>1
    <3>6. CASE I # {}
      <4> DEFINE m == CHOOSE i \in I : TRUE
      <4>1. m \in I BY <3>6
      <4>2. aggregate'[q].entered = aggregate[q].entered + rows[j][m].entered BY <3>1, <3>6
      <4> HIDE DEF m
      <4>3. Entered(rows[j], q) = rows[j][m].entered BY <3>2, <3>4, <4>1, EnteredSound
      <4> QED BY <4>2, <4>3
    <3> QED BY <3>5, <3>6
  <2>5. ASSUME NEW q \in Slot, q[1] \in cameras'
        PROVE counted'[q] = aggregate'[q].entered + Entered(flow', q)
                            + Carried(rows', Unapplied', q) + lost'[q]
    <3>1. Carried(rows, Unapplied, q) = Carried(rows, Unapplied', q) + Entered(rows[j], q)
      BY <1>2, <2>3, CarriedOne
    <3>2. Carried(rows, Unapplied', q) \in Nat BY <1>2, <2>3, CarriedType
    <3>3. Entered(rows[j], q) \in Nat BY <1>2, EnteredType DEF Payloads
    <3>4. counted[q] = aggregate[q].entered + Entered(flow, q)
                       + Carried(rows, Unapplied, q) + lost[q]
      BY <1>4, <2>1, <2>5
    <3>5. aggregate'[q].entered = aggregate[q].entered + Entered(rows[j], q)
      BY <2>1, <2>4, <2>5
    <3>6. counted'[q] = counted[q] /\ lost'[q] = lost[q] /\ rows' = rows /\ flow' = flow
      BY <2>1
    <3> QED BY <1>3, <3>1, <3>2, <3>3, <3>4, <3>5, <3>6
  <2> QED BY <1>0, <2>5
<1>10. ASSUME NEW j \in Flush, Fail(j) PROVE EveryVisitorOnce'
  <2>1. UNCHANGED <<cameras, flow, memory, rows, aggregate, counted, lost>> /\ phase[j] = "open"
    BY <1>10 DEF Fail, IsNext
  <2>2. phase' = phase \/ phase' = [phase EXCEPT ![j] = "dead"]
    BY <1>10 DEF Fail, Outbox!GiveUp
  <2>3. {i \in Flush : phase'[i] \in {"open", "dead"}} = {i \in Flush : phase[i] \in {"open", "dead"}}
    BY <1>1, <2>1, <2>2
  <2>4. Unapplied' = Unapplied BY <2>1, <2>3 DEF Unapplied, Elements
  <2> QED BY <1>5, <2>1, <2>4
<1>11. ASSUME NEW j \in Flush, Return(j) \/ Reopen(j) PROVE EveryVisitorOnce'
  <2>1. UNCHANGED <<cameras, flow, memory, rows, aggregate, counted, lost>>
    BY <1>11 DEF Return, Reopen
  <2>2. phase' = phase \/ (phase[j] = "dead" /\ phase' = [phase EXCEPT ![j] = "open"])
    BY <1>11 DEF Return, Reopen, Outbox!Reopen
  <2>3. {i \in Flush : phase'[i] \in {"open", "dead"}} = {i \in Flush : phase[i] \in {"open", "dead"}}
    BY <1>1, <2>2
  <2>4. Unapplied' = Unapplied BY <2>1, <2>3 DEF Unapplied, Elements
  <2> QED BY <1>5, <2>1, <2>4
<1>12. ASSUME Postpone PROVE EveryVisitorOnce'
  <2>1. /\ UNCHANGED <<cameras, flow, rows, phase, aggregate, counted, lost>> /\ memory # <<>>
        /\ memory' = Append(Tail(memory), Head(memory))
    BY <1>1, <1>12 DEF Postpone, outbox
  <2> DEFINE h == Head(memory)
             t == Tail(memory)
  <2>2. /\ h \in Flush /\ t \in Seq(Flush) /\ Elements(memory) = {h} \union Elements(t)
    BY <1>1, <2>1, Beheaded
  <2>3. memory' = Append(t, h) BY <2>1
  <2> HIDE DEF h, t
  <2>4. Elements(memory') = Elements(memory) BY <2>2, <2>3, Appended
  <2>5. Unapplied' = Unapplied BY <2>1, <2>4 DEF Unapplied
  <2> QED BY <1>5, <2>1, <2>5
<1>13. ASSUME NEW c \in Camera, DeleteCamera(c) PROVE EveryVisitorOnce'
  <2>1. UNCHANGED <<flow, memory, rows, phase, counted, lost>> /\ cameras' = cameras \ {c}
    BY <1>13 DEF DeleteCamera, outbox
  <2>2. Unapplied' = Unapplied BY <2>1 DEF Unapplied, Elements
  <2>3. \A p \in Slot : p[1] \in cameras' => aggregate'[p] = aggregate[p]
    BY <2>1, <1>13 DEF DeleteCamera
  <2> QED BY <1>0, <1>4, <2>1, <2>2, <2>3
<1>14. ASSUME Crash PROVE EveryVisitorOnce'
  <2>1. /\ UNCHANGED <<cameras, rows, phase, aggregate, counted>>
        /\ flow' = <<>> /\ memory' = <<>>
        /\ lost' = [p \in Slot |->
             lost[p] + Entered(flow, p) + EnteredIn(Elements(memory), p)]
    BY <1>14 DEF Crash
  <2> DEFINE D == {j \in Flush : phase[j] \in {"open", "dead"}}
  <2>2. Unapplied' = D
    <3>1. Elements(memory') = {} BY <2>1 DEF Elements
    <3> QED BY <2>1, <3>1 DEF Unapplied
  <2>3. /\ Unapplied = Elements(memory) \union D /\ D \in SUBSET Flush
        /\ Elements(memory) \intersect D = {}
    BY DEF Unapplied, Held
  <2> HIDE DEF D
  <2>4. ASSUME NEW q \in Slot, q[1] \in cameras'
        PROVE counted'[q] = aggregate'[q].entered + Entered(flow', q)
                            + Carried(rows', Unapplied', q) + lost'[q]
    <3>1. Carried(rows, Unapplied, q) = Carried(rows, Elements(memory), q) + Carried(rows, D, q)
      BY <1>1, <1>2, <2>3, CarriedUnion
    <3>2. Carried(rows, D, q) \in Nat /\ Carried(rows, Elements(memory), q) \in Nat
      BY <1>1, <1>2, <2>3, CarriedType
    <3>3. counted[q] = aggregate[q].entered + Entered(flow, q)
                       + Carried(rows, Unapplied, q) + lost[q]
      BY <1>4, <2>1, <2>4
    <3>4. lost'[q] = lost[q] + Entered(flow, q) + Carried(rows, Elements(memory), q)
      BY <2>1 DEF EnteredIn, Carried
    <3>5. Entered(flow', q) = 0
      <4>1. DOMAIN flow' = {} BY <2>1
      <4> QED BY <4>1, EnteredSound
    <3>6. counted'[q] = counted[q] /\ aggregate'[q] = aggregate[q] BY <2>1
    <3>7. Carried(rows', Unapplied', q) = Carried(rows, D, q) BY <2>1, <2>2
    <3> QED BY <1>3, <3>1, <3>2, <3>3, <3>4, <3>5, <3>6, <3>7
  <2> QED BY <1>0, <2>4
<1>15. ASSUME UNCHANGED vars PROVE EveryVisitorOnce'
  <2>1. UNCHANGED <<cameras, flow, memory, rows, phase, aggregate, counted, lost>>
    BY <1>15 DEF vars
  <2>2. Unapplied' = Unapplied BY <2>1 DEF Unapplied, Elements
  <2> QED BY <1>5, <2>1, <2>2
<1> QED
  BY <1>6, <1>7, <1>8, <1>9, <1>10, <1>11, <1>12, <1>13, <1>14, <1>15 DEF Next

-----------------------------------------------------------------------------
(* The order of the counts *)

\* What InOrder says of the jobs, as long as nothing has failed.
Jobs == Elements(queue) \union Elements(memory)

JobInOrder(k) ==
  /\ Current(rows[k])
  /\ NotNewer(rows[k], flow)
  /\ \A j \in Flush : Before(k, j) => NotNewer(rows[k], rows[j])

LEMMA InOrderAs ==
  InOrder <=> (~troubled =>
    /\ delayed = {} /\ \A j \in Flush : phase[j] # "dead"
    /\ \A p \in Slot : aggregate[p].current <= seen[p]
    /\ Current(flow)
    /\ \A k \in Jobs : phase[k] # "done" => JobInOrder(k))
BY DEF InOrder, Jobs, JobInOrder

\* The counts are numbers.
LEMMA Counts ==
  ASSUME TypeOK
  PROVE /\ \A p \in Slot : aggregate[p].current \in Int /\ seen[p] \in Int
        /\ \A n \in DOMAIN flow : flow[n].slot \in Slot /\ flow[n].current \in Int
        /\ \A j \in Flush : \A n \in DOMAIN rows[j] :
             rows[j][n].slot \in Slot /\ rows[j][n].current \in Int
<1>1. \A p \in Slot : aggregate[p].current \in Int /\ seen[p] \in Int BY DEF TypeOK
<1>2. \A n \in DOMAIN flow : flow[n] \in Entry BY DEF TypeOK
<1>3. \A j \in Flush : \A n \in DOMAIN rows[j] : rows[j][n] \in Entry BY DEF TypeOK
<1>4. \A e \in Entry : e.slot \in Slot /\ e.current \in Int BY DEF Entry
<1> QED BY <1>1, <1>2, <1>3, <1>4

\* The job that is applied has, of every slot, the oldest count that is not in
\* the table yet: the jobs before it are done.
LEMMA NextIsFirst ==
  ASSUME TypeOK, Held, InOrder, ~troubled, NEW j \in Flush, IsNext(j),
         NEW k \in Jobs, phase[k] # "done", k # j
  PROVE Before(j, k)
<1>1. delayed = {} /\ \A i \in Flush : phase[i] # "dead" BY DEF InOrder
<1>2. queue \in Seq(Flush) /\ memory \in Seq(Flush) BY DEF TypeOK
<1>3. PICK b \in DOMAIN queue :
        /\ queue[b] = j
        /\ \A h \in 1..(b - 1) : phase[queue[h]] # "open" \/ queue[h] \in delayed
  BY DEF IsNext
<1>4. CASE k \in Elements(memory) BY <1>3, <1>4 DEF Before, Elements
<1>5. CASE k \in Elements(queue)
  <2>1. PICK a \in DOMAIN queue : queue[a] = k BY <1>5 DEF Elements
  <2>2. phase[k] = "open"
    <3>1. k \in Flush /\ phase[k] # "absent" BY <1>2, <1>5, ElementsFinite, <2>1 DEF Held
    <3> QED BY <1>1, <3>1 DEF TypeOK, Outbox!TypeOK, Outbox!Phase
  <2>3. ~(a \in 1..(b - 1)) BY <1>1, <1>3, <2>1, <2>2
  <2>4. a # b BY <1>3, <2>1
  <2>5. b < a
    <3>1. DOMAIN queue = 1..Len(queue) /\ Len(queue) \in Nat BY <1>2
    <3> QED BY <2>3, <2>4, <3>1
  <2> QED BY <1>3, <2>1, <2>5 DEF Before
<1> QED BY <1>4, <1>5 DEF Jobs

\* What a job writes: its own count of a slot, or nothing.
LEMMA ApplyWrites ==
  ASSUME TypeOK, NEW j \in Flush, Apply(j), NEW p \in Slot
  PROVE \/ aggregate'[p] = aggregate[p]
        \/ \E n \in DOMAIN rows[j] : /\ rows[j][n].slot = p
                                     /\ aggregate'[p].current = rows[j][n].current
<1> DEFINE I == {i \in DOMAIN rows[j] : rows[j][i].slot = p /\ p[1] \in cameras}
<1>1. aggregate'[p] =
        IF I = {} THEN aggregate[p]
        ELSE LET e == rows[j][CHOOSE i \in I : TRUE] IN
               [current |-> e.current, entered |-> aggregate[p].entered + e.entered]
  BY DEF Apply
<1>2. \A i \in I : i \in DOMAIN rows[j] /\ rows[j][i].slot = p OBVIOUS
<1> HIDE DEF I
<1>3. CASE I = {} BY <1>1, <1>3
<1>4. CASE I # {}
  <2> DEFINE m == CHOOSE i \in I : TRUE
  <2>1. m \in I BY <1>4
  <2>2. aggregate'[p].current = rows[j][m].current BY <1>1, <1>4
  <2> HIDE DEF m
  <2> QED BY <1>2, <2>1, <2>2
<1> QED BY <1>3, <1>4

\* A count is never replaced by an older one while nothing has failed.
LEMMA ForwardStep ==
  ASSUME TrafficAssumption, TypeOK, Held, InOrder, ~troubled, [Next]_vars
  PROVE Forward
<1>1. \A p \in Slot : aggregate[p].current \in Int BY Counts
<1>2. ASSUME UNCHANGED aggregate PROVE Forward BY <1>1, <1>2 DEF Forward
<1>3. ASSUME NEW j \in Flush, Apply(j) PROVE Forward
  <2>1. j \in Jobs /\ phase[j] # "done"
    BY <1>3 DEF Apply, IsNext, Jobs, Elements
  <2>2. Current(rows[j]) BY <2>1 DEF InOrder, Jobs
  <2>3. ASSUME NEW p \in Slot PROVE aggregate'[p].current >= aggregate[p].current
    <3>1. CASE aggregate'[p] = aggregate[p] BY <1>1, <3>1
    <3>2. CASE \E n \in DOMAIN rows[j] : /\ rows[j][n].slot = p
                                         /\ aggregate'[p].current = rows[j][n].current
      <4>1. PICK n \in DOMAIN rows[j] : /\ rows[j][n].slot = p
                                        /\ aggregate'[p].current = rows[j][n].current
        BY <3>2
      <4>2. aggregate[p].current <= rows[j][n].current BY <2>2, <4>1 DEF Current
      <4> QED BY <1>1, <4>1, <4>2, Counts
    <3> QED BY <1>3, <3>1, <3>2, ApplyWrites
  <2> QED BY <2>3 DEF Forward
<1>4. ASSUME NEW c \in Camera, DeleteCamera(c) PROVE Forward
  <2>1. \A p \in Slot : p[1] \in cameras' => aggregate'[p] = aggregate[p]
    BY <1>4 DEF DeleteCamera
  <2> QED BY <1>1, <2>1 DEF Forward
<1> QED
  BY <1>2, <1>3, <1>4
  DEF Next, UpsertTraffic, FlushFlow, Persist, Fail, Return, Reopen, Postpone, Crash, vars

\* A new job comes behind all others.
LEMMA BeforeFlush ==
  ASSUME TrafficAssumption, TypeOK, SlotsOnce, Held, NEW j \in Flush, FlushFlow(j)
  PROVE /\ j \notin Jobs /\ Jobs' = Jobs \union {j}
        /\ \A k, i : Before(k, i)' => k \in Jobs /\ (i = j \/ Before(k, i))
<1>1. memory \in Seq(Flush) /\ queue \in Seq(Flush) BY DEF TypeOK
<1>2. /\ UNCHANGED <<phase, queue>> /\ memory' = Append(memory, j)
      /\ phase[j] = "absent" /\ rows[j] = <<>>
  BY DEF FlushFlow, outbox
<1>3. j \notin Elements(memory) /\ j \notin Elements(queue) BY <1>2 DEF Held
<1>4. Elements(memory') = Elements(memory) \union {j} /\ Elements(queue') = Elements(queue)
  BY <1>1, <1>2, Appended
<1>5. /\ DOMAIN memory' = DOMAIN memory \union {Len(memory) + 1}
      /\ memory'[Len(memory) + 1] = j
      /\ \A m \in DOMAIN memory : memory'[m] = memory[m]
      /\ \A m \in DOMAIN memory : ~(Len(memory) + 1 < m)
      /\ Len(memory) \in Nat
  BY <1>1, <1>2
<1>6. ASSUME NEW k, NEW i, NEW m \in DOMAIN memory', NEW n \in DOMAIN memory',
             m < n, memory'[m] = k, memory'[n] = i
      PROVE k \in Jobs /\ (i = j \/ Before(k, i))
  <2>1. ~(Len(memory) + 1 < Len(memory) + 1) BY <1>5
  <2>2. m \in DOMAIN memory BY <1>5, <1>6, <2>1
  <2>3. k \in Elements(memory) BY <1>5, <1>6, <2>2 DEF Elements
  <2>4. CASE n \in DOMAIN memory BY <1>5, <1>6, <2>2, <2>3, <2>4 DEF Before, Jobs
  <2>5. CASE n = Len(memory) + 1 BY <1>5, <1>6, <2>3, <2>5 DEF Jobs
  <2> QED BY <1>5, <2>4, <2>5
<1>7. ASSUME NEW k, NEW i, k \in Elements(queue), i \in Elements(memory')
      PROVE k \in Jobs /\ (i = j \/ Before(k, i))
  BY <1>4, <1>7 DEF Before, Jobs
<1>8. ASSUME NEW k, NEW i, NEW m \in DOMAIN queue, NEW n \in DOMAIN queue,
             m < n, queue[m] = k, queue[n] = i
      PROVE k \in Jobs /\ (i = j \/ Before(k, i))
  BY <1>8 DEF Before, Jobs, Elements
<1>9. ASSUME NEW k, NEW i, Before(k, i)' PROVE k \in Jobs /\ (i = j \/ Before(k, i))
  <2>1. \/ \E m, n \in DOMAIN queue : m < n /\ queue[m] = k /\ queue[n] = i
        \/ k \in Elements(queue) /\ i \in Elements(memory')
        \/ \E m, n \in DOMAIN memory' : m < n /\ memory'[m] = k /\ memory'[n] = i
    BY <1>2, <1>4, <1>9 DEF Before
  <2> QED BY <1>6, <1>7, <1>8, <2>1
<1>10. Jobs' = Jobs \union {j} BY <1>4 DEF Jobs
<1> QED BY <1>3, <1>9, <1>10 DEF Jobs

\* Making a job durable does not change the order.
LEMMA BeforePersist ==
  ASSUME TrafficAssumption, TypeOK, Held, NEW j \in Flush, Persist(j)
  PROVE Jobs' = Jobs /\ \A k, i : Before(k, i)' => Before(k, i)
<1>1. memory \in Seq(Flush) /\ queue \in Seq(Flush) BY DEF TypeOK
<1>2. memory # <<>> /\ j = Head(memory) /\ memory' = Tail(memory) /\ queue' = Append(queue, j)
  BY DEF Persist
<1>3. /\ j = memory[1] /\ 1 \in DOMAIN memory
      /\ \A m \in DOMAIN memory' : m + 1 \in DOMAIN memory /\ memory'[m] = memory[m + 1]
      /\ Elements(memory) = {j} \union Elements(memory')
  BY <1>1, <1>2, Beheaded
<1>4. Elements(queue') = Elements(queue) \union {j} BY <1>1, <1>2, Appended
<1>5. /\ DOMAIN queue' = DOMAIN queue \union {Len(queue) + 1}
      /\ queue'[Len(queue) + 1] = j
      /\ \A m \in DOMAIN queue : queue'[m] = queue[m]
      /\ \A m \in DOMAIN queue : ~(Len(queue) + 1 < m)
      /\ ~(Len(queue) + 1 < Len(queue) + 1)
  BY <1>1, <1>2
<1>6. ASSUME NEW k, NEW i, NEW m \in DOMAIN queue', NEW n \in DOMAIN queue',
             m < n, queue'[m] = k, queue'[n] = i
      PROVE Before(k, i)
  <2>1. m \in DOMAIN queue /\ queue[m] = k BY <1>5, <1>6
  <2>2. k \in Elements(queue) BY <2>1 DEF Elements
  <2>3. CASE n \in DOMAIN queue BY <1>5, <1>6, <2>1, <2>3 DEF Before
  <2>4. CASE n = Len(queue) + 1 BY <1>3, <1>5, <1>6, <2>2, <2>4 DEF Before
  <2> QED BY <1>5, <2>3, <2>4
<1>7. ASSUME NEW k, NEW i, k \in Elements(queue'), i \in Elements(memory')
      PROVE Before(k, i)
  <2>1. CASE k \in Elements(queue) BY <1>3, <1>7, <2>1 DEF Before
  <2>2. CASE k = j
    <3>1. PICK n \in DOMAIN memory' : memory'[n] = i BY <1>7 DEF Elements
    <3>2. n + 1 \in DOMAIN memory /\ memory[n + 1] = i BY <1>3, <3>1
    <3>3. 1 < n + 1
      <4>1. memory' \in Seq(Flush) BY <1>1, <1>2
      <4>2. n \in 1..Len(memory') BY <3>1, <4>1
      <4> QED BY <4>2
    <3> QED BY <1>3, <2>2, <3>2, <3>3 DEF Before
  <2> QED BY <1>4, <1>7, <2>1, <2>2
<1>8. ASSUME NEW k, NEW i, NEW m \in DOMAIN memory', NEW n \in DOMAIN memory',
             m < n, memory'[m] = k, memory'[n] = i
      PROVE Before(k, i)
  <2>1. memory' \in Seq(Flush) BY <1>1, <1>2
  <2>2. m + 1 < n + 1 BY <1>8, <2>1
  <2> QED BY <1>3, <1>8, <2>2 DEF Before
<1>9. ASSUME NEW k, NEW i, Before(k, i)' PROVE Before(k, i)
  <2>1. \/ \E m, n \in DOMAIN queue' : m < n /\ queue'[m] = k /\ queue'[n] = i
        \/ k \in Elements(queue') /\ i \in Elements(memory')
        \/ \E m, n \in DOMAIN memory' : m < n /\ memory'[m] = k /\ memory'[n] = i
    BY <1>9 DEF Before
  <2> QED BY <1>6, <1>7, <1>8, <2>1
<1>10. Jobs' = Jobs BY <1>3, <1>4 DEF Jobs
<1> QED BY <1>9, <1>10

LEMMA InOrderStep ==
  ASSUME TrafficAssumption, TypeOK, SlotsOnce, Held, InOrder, [Next]_vars
  PROVE InOrder'
<1>1. SUFFICES ASSUME ~troubled'
               PROVE /\ delayed' = {} /\ \A j \in Flush : phase'[j] # "dead"
                     /\ \A p \in Slot : aggregate'[p].current <= seen'[p]
                     /\ Current(flow)'
                     /\ \A k \in Jobs' : phase'[k] # "done" => JobInOrder(k)'
  BY DEF InOrder, Jobs, JobInOrder
<1>2. Jobs \subseteq Flush /\ phase \in [Flush -> Outbox!Phase]
  BY ElementsFinite DEF Jobs, TypeOK, Outbox!TypeOK
<1>3. ASSUME ~troubled
      PROVE /\ delayed = {} /\ \A j \in Flush : phase[j] # "dead"
            /\ \A p \in Slot : aggregate[p].current <= seen[p]
            /\ Current(flow)
            /\ \A k \in Jobs : phase[k] # "done" => JobInOrder(k)
  BY <1>3, InOrderAs
<1>4. /\ \A p \in Slot : aggregate[p].current \in Int /\ seen[p] \in Int
      /\ \A n \in DOMAIN flow : flow[n].slot \in Slot /\ flow[n].current \in Int
      /\ \A j \in Flush : \A n \in DOMAIN rows[j] :
           rows[j][n].slot \in Slot /\ rows[j][n].current \in Int
  BY Counts
<1> DEFINE Goal ==
      /\ delayed' = {} /\ \A j \in Flush : phase'[j] # "dead"
      /\ \A p \in Slot : aggregate'[p].current <= seen'[p]
      /\ Current(flow)'
      /\ \A k \in Jobs' : phase'[k] # "done" => JobInOrder(k)'
<1>5. ASSUME UNCHANGED <<flow, memory, rows, phase, queue, delayed, aggregate, seen, troubled>>
      PROVE Goal
  <2>1. \A k, i : Before(k, i)' <=> Before(k, i) BY <1>5 DEF Before, Elements
  <2>2. Jobs' = Jobs BY <1>5 DEF Jobs, Elements
  <2>3. Current(flow)' BY <1>1, <1>3, <1>5 DEF Current
  <2>4. ASSUME NEW k \in Jobs, phase[k] # "done" PROVE JobInOrder(k)'
    <3>1. JobInOrder(k) BY <1>1, <1>3, <1>5, <2>4
    <3> QED BY <1>5, <2>1, <3>1 DEF JobInOrder, Current, NotNewer
  <2> QED BY <1>1, <1>3, <1>5, <2>2, <2>3, <2>4
<1>6. ASSUME NEW p \in Slot, NEW n \in Visitors, UpsertTraffic(p, n) PROVE Goal
  <2>1. UNCHANGED <<memory, rows, phase, queue, delayed, aggregate, troubled>>
    BY <1>6 DEF UpsertTraffic, outbox
  <2>2. \A m \in DOMAIN flow' :
          \/ flow'[m].slot = p /\ flow'[m].current = seen[p] + 1
          \/ m \in DOMAIN flow /\ flow'[m].slot = flow[m].slot /\ flow'[m].current = flow[m].current
    BY <1>6, CollectStep
  <2>3. \A q \in Slot : seen'[q] = IF q = p THEN seen[q] + 1 ELSE seen[q]
    BY <1>6 DEF UpsertTraffic, TypeOK
  <2>4. \A q \in Slot : seen'[q] \in Int /\ seen[q] <= seen'[q] BY <1>4, <2>3
  <2>5. ASSUME NEW q \in Slot PROVE aggregate'[q].current <= seen'[q]
    <3>1. aggregate[q].current <= seen[q] BY <1>1, <1>3, <2>1
    <3> QED BY <1>4, <2>1, <2>4, <3>1
  <2>6. ASSUME NEW m \in DOMAIN flow'
        PROVE /\ aggregate'[flow'[m].slot].current <= flow'[m].current
              /\ flow'[m].current <= seen'[flow'[m].slot]
    <3>1. CASE flow'[m].slot = p /\ flow'[m].current = seen[p] + 1
      <4>1. aggregate[p].current <= seen[p] BY <1>1, <1>3, <2>1
      <4>2. seen'[p] = seen[p] + 1 BY <2>3
      <4> QED BY <1>4, <2>1, <3>1, <4>1, <4>2
    <3>2. CASE m \in DOMAIN flow /\ flow'[m].slot = flow[m].slot /\ flow'[m].current = flow[m].current
      <4>1. /\ aggregate[flow[m].slot].current <= flow[m].current
            /\ flow[m].current <= seen[flow[m].slot]
        BY <1>1, <1>3, <2>1, <3>2 DEF Current
      <4>2. flow[m].slot \in Slot /\ flow[m].current \in Int BY <1>4, <3>2
      <4> QED BY <1>4, <2>1, <2>4, <3>2, <4>1, <4>2
    <3> QED BY <2>2, <3>1, <3>2
  <2>7. Current(flow)' BY <2>6 DEF Current
  <2>8. \A k, i : Before(k, i)' <=> Before(k, i) BY <2>1 DEF Before, Elements
  <2>9. Jobs' = Jobs BY <2>1 DEF Jobs, Elements
  <2>10. ASSUME NEW k \in Jobs, phase[k] # "done" PROVE JobInOrder(k)'
    <3>1. JobInOrder(k) /\ k \in Flush BY <1>1, <1>2, <1>3, <2>1, <2>10
    <3>2. ASSUME NEW m \in DOMAIN rows[k]
          PROVE /\ aggregate[rows[k][m].slot].current <= rows[k][m].current
                /\ rows[k][m].current <= seen[rows[k][m].slot]
                /\ rows[k][m].current <= seen'[rows[k][m].slot]
                /\ rows[k][m].slot \in Slot /\ rows[k][m].current \in Int
      <4>1. rows[k][m].slot \in Slot /\ rows[k][m].current \in Int BY <1>4, <3>1
      <4>2. /\ aggregate[rows[k][m].slot].current <= rows[k][m].current
            /\ rows[k][m].current <= seen[rows[k][m].slot]
        BY <3>1 DEF JobInOrder, Current
      <4>3. /\ seen[rows[k][m].slot] \in Int /\ seen'[rows[k][m].slot] \in Int
            /\ seen[rows[k][m].slot] <= seen'[rows[k][m].slot]
        BY <1>4, <2>4, <4>1
      <4> QED BY <4>1, <4>2, <4>3
    <3>3. Current(rows[k])' BY <2>1, <3>2 DEF Current
    <3>4. ASSUME NEW m \in DOMAIN rows[k], NEW i \in DOMAIN flow', rows[k][m].slot = flow'[i].slot
          PROVE rows[k][m].current <= flow'[i].current
      <4>1. CASE flow'[i].slot = p /\ flow'[i].current = seen[p] + 1
        <5>1. rows[k][m].current <= seen[p] /\ rows[k][m].current \in Int BY <3>2, <3>4, <4>1
        <5> QED BY <1>4, <4>1, <5>1
      <4>2. CASE i \in DOMAIN flow /\ flow'[i].slot = flow[i].slot /\ flow'[i].current = flow[i].current
        BY <3>1, <3>4, <4>2 DEF JobInOrder, NotNewer
      <4> QED BY <2>2, <4>1, <4>2
    <3>5. NotNewer(rows[k], flow)' BY <2>1, <3>4 DEF NotNewer
    <3>6. \A j \in Flush : Before(k, j)' => NotNewer(rows[k], rows[j])'
      BY <2>1, <2>8, <3>1 DEF JobInOrder, NotNewer
    <3> QED BY <3>3, <3>5, <3>6 DEF JobInOrder
  <2> QED BY <1>1, <1>3, <2>1, <2>5, <2>7, <2>9, <2>10
<1>7. ASSUME NEW j \in Flush, FlushFlow(j) PROVE Goal
  <2>1. UNCHANGED <<phase, queue, delayed, aggregate, seen, troubled>>
    BY <1>7 DEF FlushFlow, outbox
  <2>2. /\ \A k \in Flush : k # j => rows'[k] = rows[k]
        /\ \A m \in DOMAIN rows'[j] : m \in DOMAIN flow /\ rows'[j][m] = flow[m]
        /\ \A m \in DOMAIN flow' : \E n \in DOMAIN flow : flow'[m] = flow[n]
        /\ \A m \in DOMAIN rows'[j], n \in DOMAIN flow' : rows'[j][m].slot # flow'[n].slot
    BY <1>7, CutStep
  <2>3. /\ j \notin Jobs /\ Jobs' = Jobs \union {j}
        /\ \A k, i : Before(k, i)' => k \in Jobs /\ (i = j \/ Before(k, i))
    BY <1>7, BeforeFlush
  <2>4. Current(flow) BY <1>1, <1>3, <2>1
  <2>5. Current(flow)' BY <2>1, <2>2, <2>4 DEF Current
  <2>6. ASSUME NEW k \in Jobs, phase[k] # "done" PROVE JobInOrder(k)'
    <3>1. JobInOrder(k) /\ k \in Flush /\ k # j BY <1>1, <1>2, <1>3, <2>1, <2>3, <2>6
    <3>2. rows'[k] = rows[k] BY <2>2, <3>1
    <3>3. Current(rows[k])' BY <2>1, <3>1, <3>2 DEF Current, JobInOrder
    <3>4. NotNewer(rows[k], flow) BY <3>1 DEF JobInOrder
    <3>5. NotNewer(rows[k], flow)' BY <2>2, <3>2, <3>4 DEF NotNewer
    <3>6. ASSUME NEW i \in Flush, Before(k, i)' PROVE NotNewer(rows[k], rows[i])'
      <4>1. CASE i = j BY <2>2, <3>2, <3>4, <4>1 DEF NotNewer
      <4>2. CASE i # j /\ Before(k, i)
        <5>1. NotNewer(rows[k], rows[i]) BY <3>1, <4>2 DEF JobInOrder
        <5>2. rows'[i] = rows[i] BY <2>2, <4>2
        <5> QED BY <3>2, <5>1, <5>2 DEF NotNewer
      <4> QED BY <2>3, <3>6, <4>1, <4>2
    <3> QED BY <3>3, <3>5, <3>6 DEF JobInOrder
  <2>7. JobInOrder(j)'
    <3>1. Current(rows[j])' BY <2>1, <2>2, <2>4 DEF Current
    <3>2. NotNewer(rows[j], flow)' BY <2>2 DEF NotNewer
    <3>3. \A i \in Flush : ~Before(j, i)' BY <2>3
    <3> QED BY <3>1, <3>2, <3>3 DEF JobInOrder
  <2> QED BY <1>1, <1>3, <2>1, <2>3, <2>5, <2>6, <2>7
<1>8. ASSUME NEW j \in Flush, Persist(j) PROVE Goal
  <2>1. /\ UNCHANGED <<flow, rows, delayed, aggregate, seen, troubled>>
        /\ phase[j] = "absent" /\ phase' = [phase EXCEPT ![j] = "open"]
    BY <1>8 DEF Persist, Outbox!Accept
  <2>2. Jobs' = Jobs /\ \A k, i : Before(k, i)' => Before(k, i) BY <1>8, BeforePersist
  <2>3. \A k \in Flush : /\ phase'[k] = "dead" => phase[k] = "dead"
                         /\ phase'[k] # "done" => phase[k] # "done"
    BY <1>2, <2>1
  <2>4. Current(flow)' BY <1>1, <1>3, <2>1 DEF Current
  <2>5. ASSUME NEW k \in Jobs, phase'[k] # "done" PROVE JobInOrder(k)'
    <3>1. JobInOrder(k) BY <1>1, <1>2, <1>3, <2>1, <2>3, <2>5
    <3> QED BY <2>1, <2>2, <3>1 DEF JobInOrder, Current, NotNewer
  <2> QED BY <1>1, <1>3, <2>1, <2>2, <2>3, <2>4, <2>5
<1>9. ASSUME NEW j \in Flush, Apply(j) PROVE Goal
  <2>1. /\ UNCHANGED <<flow, memory, rows, queue, delayed, seen, troubled>>
        /\ IsNext(j) /\ phase[j] = "open"
        /\ phase' = [k \in Flush |-> IF k \in {j} THEN "done" ELSE phase[k]]
    BY <1>9 DEF Apply, Outbox!Apply
  <2>2. j \in Jobs BY <2>1 DEF IsNext, Jobs, Elements
  <2>3. JobInOrder(j) BY <1>1, <1>3, <2>1, <2>2
  \* What is written is in the job, and so not newer than what follows.
  <2>4. ASSUME NEW s, NotNewer(rows[j], s), Current(s),
               NEW n \in DOMAIN s, s[n].slot \in Slot
        PROVE aggregate'[s[n].slot].current <= s[n].current
    <3>1. CASE aggregate'[s[n].slot] = aggregate[s[n].slot] BY <2>4, <3>1 DEF Current
    <3>2. CASE \E m \in DOMAIN rows[j] : /\ rows[j][m].slot = s[n].slot
                                         /\ aggregate'[s[n].slot].current = rows[j][m].current
      BY <2>4, <3>2 DEF NotNewer
    <3> QED BY <1>9, <2>4, <3>1, <3>2, ApplyWrites
  <2>5. ASSUME NEW p \in Slot PROVE aggregate'[p].current <= seen'[p]
    <3>1. CASE aggregate'[p] = aggregate[p] BY <1>1, <1>3, <2>1, <3>1
    <3>2. CASE \E m \in DOMAIN rows[j] : /\ rows[j][m].slot = p
                                         /\ aggregate'[p].current = rows[j][m].current
      BY <2>1, <2>3, <3>2 DEF JobInOrder, Current
    <3> QED BY <1>9, <3>1, <3>2, ApplyWrites
  <2>6. Current(flow)'
    <3>1. NotNewer(rows[j], flow) /\ Current(flow) BY <1>1, <1>3, <2>1, <2>3 DEF JobInOrder
    <3>2. \A n \in DOMAIN flow : aggregate'[flow[n].slot].current <= flow[n].current
      BY <1>4, <2>4, <3>1
    <3> QED BY <2>1, <3>1, <3>2 DEF Current
  <2>7. Jobs' = Jobs /\ \A k, i : Before(k, i)' <=> Before(k, i)
    BY <2>1 DEF Jobs, Before, Elements
  <2>8. ASSUME NEW k \in Jobs, phase'[k] # "done" PROVE JobInOrder(k)'
    <3>1. k \in Flush /\ k # j /\ phase[k] # "done" BY <1>2, <2>1, <2>8
    <3>2. JobInOrder(k) /\ Before(j, k) BY <1>1, <1>3, <2>1, <3>1, NextIsFirst
    <3>3. NotNewer(rows[j], rows[k]) /\ Current(rows[k]) BY <2>3, <3>1, <3>2 DEF JobInOrder
    <3>4. \A n \in DOMAIN rows[k] : aggregate'[rows[k][n].slot].current <= rows[k][n].current
      BY <1>4, <2>4, <3>1, <3>3
    <3>5. Current(rows[k])' BY <2>1, <3>3, <3>4 DEF Current
    <3>6. NotNewer(rows[k], flow)' BY <2>1, <3>2 DEF JobInOrder, NotNewer
    <3>7. \A i \in Flush : Before(k, i)' => NotNewer(rows[k], rows[i])'
      BY <2>1, <2>7, <3>2 DEF JobInOrder, NotNewer
    <3> QED BY <3>5, <3>6, <3>7 DEF JobInOrder
  <2>9. \A k \in Flush : phase'[k] # "dead" BY <1>1, <1>3, <2>1
  <2> QED BY <1>1, <1>3, <2>1, <2>5, <2>6, <2>7, <2>8, <2>9
<1>10. ASSUME NEW j \in Flush, Return(j) \/ Reopen(j) PROVE Goal
  <2>1. UNCHANGED troubled BY <1>10 DEF Return, Reopen
  <2>2. CASE Return(j) BY <1>1, <1>3, <2>1, <2>2 DEF Return
  <2>3. CASE Reopen(j) BY <1>1, <1>3, <2>1, <2>3 DEF Reopen, Outbox!Reopen
  <2> QED BY <1>10, <2>2, <2>3
<1>11. ASSUME NEW c \in Camera, DeleteCamera(c) PROVE Goal
  <2>1. UNCHANGED <<flow, memory, rows, phase, queue, delayed, seen, troubled>>
    BY <1>11 DEF DeleteCamera, outbox
  <2>2. ASSUME NEW p \in Slot
        PROVE aggregate'[p].current \in Int /\ aggregate'[p].current <= aggregate[p].current
    <3>1. aggregate'[p] = aggregate[p] \/ aggregate'[p].current = 0
      BY <1>11 DEF DeleteCamera
    <3>2. aggregate[p].current \in 0..MaxSeen BY DEF TypeOK
    <3> QED BY <3>1, <3>2 DEF TrafficAssumption
  <2>3. \A p \in Slot : aggregate'[p].current <= seen'[p] BY <1>1, <1>3, <1>4, <2>1, <2>2
  <2>4. ASSUME NEW s, Current(s),
               \A n \in DOMAIN s : s[n].slot \in Slot /\ s[n].current \in Int
        PROVE \A n \in DOMAIN s : aggregate'[s[n].slot].current <= s[n].current
    BY <1>4, <2>2, <2>4 DEF Current
  <2>5. Current(flow)'
    <3>1. Current(flow) BY <1>1, <1>3, <2>1
    <3>2. \A n \in DOMAIN flow : aggregate'[flow[n].slot].current <= flow[n].current
      BY <1>4, <2>4, <3>1
    <3> QED BY <2>1, <3>1, <3>2 DEF Current
  <2>6. Jobs' = Jobs /\ \A k, i : Before(k, i)' <=> Before(k, i)
    BY <2>1 DEF Jobs, Before, Elements
  <2>7. ASSUME NEW k \in Jobs, phase'[k] # "done" PROVE JobInOrder(k)'
    <3>1. JobInOrder(k) /\ k \in Flush BY <1>1, <1>2, <1>3, <2>1, <2>7
    <3>2. \A n \in DOMAIN rows[k] : aggregate'[rows[k][n].slot].current <= rows[k][n].current
      BY <1>4, <2>4, <3>1 DEF JobInOrder
    <3>3. Current(rows[k])' BY <2>1, <3>1, <3>2 DEF Current, JobInOrder
    <3>4. NotNewer(rows[k], flow)' BY <2>1, <3>1 DEF JobInOrder, NotNewer
    <3>5. \A i \in Flush : Before(k, i)' => NotNewer(rows[k], rows[i])'
      BY <2>1, <2>6, <3>1 DEF JobInOrder, NotNewer
    <3> QED BY <3>3, <3>4, <3>5 DEF JobInOrder
  <2> QED BY <1>1, <1>3, <2>1, <2>3, <2>5, <2>6, <2>7
<1>12. ~Postpone /\ ~Crash /\ \A j \in Flush : ~Fail(j)
  BY <1>1 DEF Postpone, Crash, Fail
<1>13. ASSUME UNCHANGED vars PROVE Goal BY <1>5, <1>13 DEF vars
<1> QED BY <1>6, <1>7, <1>8, <1>9, <1>10, <1>11, <1>12, <1>13 DEF Next

-----------------------------------------------------------------------------
(* The theorems *)

\* TInv is inductive: it holds at the start and every step keeps it.
THEOREM TInvAlways == Spec => []TInv
<1>1. Init => TInv
  <2> SUFFICES ASSUME Init PROVE TInv OBVIOUS
  <2>1. TypeOK /\ SlotsOnce BY InitConsistent, TrafficAssumption
  <2>2. /\ DOMAIN memory = {} /\ DOMAIN queue = {} /\ DOMAIN flow = {}
        /\ \A j \in Flush : phase[j] = "absent"
        /\ flow = <<>> /\ delayed = {}
    BY DEF Init, Outbox!Init
  <2>3. Elements(memory) = {} /\ Elements(queue) = {} BY <2>2 DEF Elements
  <2>4. Held BY <2>2, <2>3 DEF Held
  <2>5. EveryVisitorOnce
    <3>1. Unapplied = {} BY <2>2, <2>3 DEF Unapplied
    <3>2. \A p \in Slot : Carried(rows, Unapplied, p) = 0 BY <3>1, SumEmpty DEF Carried
    <3>3. \A p \in Slot : Entered(flow, p) = 0 BY <2>2, EnteredSound
    <3>4. \A p \in Slot : counted[p] = 0 /\ aggregate[p].entered = 0 /\ lost[p] = 0
      BY DEF Init
    <3> QED BY <3>2, <3>3, <3>4, VisitorsAs
  <2>6. InOrder
    <3>1. \A p \in Slot : aggregate[p].current = 0 /\ seen[p] = 0 BY DEF Init
    <3>2. \A p \in Slot : aggregate[p].current <= seen[p] BY <3>1
    <3> QED BY <2>2, <2>3, <3>2 DEF InOrder, Current
  <2> QED BY <2>1, <2>4, <2>5, <2>6 DEF TInv
<1>2. TInv /\ [Next]_vars => TInv'
  BY TrafficAssumption, ConsistentStep, HeldStep, VisitorsStep, InOrderStep DEF TInv
<1> QED BY <1>1, <1>2, PTL DEF Spec

\* The state keeps its types, and neither flow_pending nor a job holds a slot
\* twice: what _flush_flow cuts off it takes out.
THEOREM ConsistentAlways == Spec => []Consistent
<1>1. TInv => Consistent BY DEF TInv, Consistent
<1> QED BY <1>1, TInvAlways, PTL

\* Whatever fails, is retried, reordered, given up or deleted, the visitors the
\* detections counted are in the table, in the outbox or in memory, once, or
\* they were in the memory of a process that was killed.
THEOREM EveryVisitorOnceAlways == Spec => []EveryVisitorOnce
<1>1. TInv => EveryVisitorOnce BY DEF TInv
<1> QED BY <1>1, TInvAlways, PTL

\* As long as nothing has failed no transaction replaces a current count by an
\* older one.
THEOREM CurrentInOrderAlways == Spec => CurrentInOrderUntroubled
<1>1. TInv /\ [Next]_vars => [troubled \/ Forward]_vars
  BY TrafficAssumption, ForwardStep DEF TInv
<1> QED BY <1>1, TInvAlways, PTL DEF Spec, CurrentInOrderUntroubled
=============================================================================
