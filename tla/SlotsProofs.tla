----------------------------- MODULE SlotsProofs -----------------------------
(***************************************************************************)
(* For any schedules, zones, event types, calendars, bookings and ranges:  *)
(* what a wall clock of a host resolves to, that what a listing offers the *)
(* commit path accepts, and that two listings agree where they overlap.    *)
(*                                                                         *)
(* Lists of windows are compared by the instants they cover: merging and   *)
(* intersecting leave the runs of a set of instants, and a set has only    *)
(* one list of runs. The folds over sets of intervals are functions that   *)
(* TLA+ defines by an equation: a function that solves it is shown first.  *)
(* What is open on a date lies within a day of it, what is busy is counted *)
(* in buckets that a start divides, and a day that lies in a range is      *)
(* counted by both paths alike. Each slot of the narrower of two listings  *)
(* is on a grid that begins where the wider one's does.                    *)
(***************************************************************************)
EXTENDS Slots, ZoneProofs, FiniteSetTheorems

-----------------------------------------------------------------------------
(* Runs of a set of instants: its longest stretches without a gap. Lists of    *)
(* windows are compared by the instants that they cover.                       *)

Held(i) == {x \in Int : i.start <= x /\ x < i.end}
Covered(S) == {x \in Int : \E i \in S : i.start <= x /\ x < i.end}

RunOf(m, C) ==
  /\ m.start < m.end /\ \A x \in Int : m.start <= x /\ x < m.end => x \in C
  /\ m.start - 1 \notin C /\ m.end \notin C

Runs(C) == {m \in Interval : RunOf(m, C)}

Bounded(C) == C \subseteq Int /\ \E lo, hi \in Int : \A x \in C : lo <= x /\ x < hi

LEMMA LowestOf ==
  ASSUME NEW S \in SUBSET Int, S # {}, NEW lo \in Int, \A x \in S : lo <= x
  PROVE  Min(S) \in S /\ \A y \in S : Min(S) <= y
<1> DEFINE T == {x - lo : x \in S}
<1>0. \A x \in S : x - lo \in Nat
  OBVIOUS
<1>1. T \subseteq Nat /\ T # {}
  BY <1>0
<1>2. PICK t \in T : \A u \in T : t <= u
  BY <1>1, LeastOf
<1>3. PICK x \in S : t = x - lo
  BY <1>2
<1>4. ASSUME NEW y \in S
      PROVE  x <= y
  <2>1. y - lo \in T
    OBVIOUS
  <2>2. t <= y - lo
    BY <1>2, <2>1
  <2> HIDE DEF T
  <2> QED
    BY <1>3, <2>2
<1> QED
  BY <1>4 DEF Min

LEMMA HighestOf ==
  ASSUME NEW S \in SUBSET Int, S # {}, NEW hi \in Int, \A x \in S : x <= hi
  PROVE  Max(S) \in S /\ \A y \in S : Max(S) >= y
<1> DEFINE T == {hi - x : x \in S}
<1>1. T \subseteq Nat /\ T # {}
  OBVIOUS
<1>2. PICK t \in T : \A u \in T : t <= u
  BY <1>1, LeastOf
<1>3. PICK x \in S : t = hi - x
  BY <1>2
<1>4. ASSUME NEW y \in S
      PROVE  x >= y
  <2>1. hi - y \in T
    OBVIOUS
  <2>2. t <= hi - y
    BY <1>2, <2>1
  <2> HIDE DEF T
  <2> QED
    BY <1>3, <2>2
<1> QED
  BY <1>4 DEF Max

\* Every instant lies in a run ...
LEMMA RunExists ==
  ASSUME NEW C, Bounded(C), NEW x \in C
  PROVE  \E m \in Runs(C) : m.start <= x /\ x < m.end
<1>1. PICK lo \in Int, hi \in Int : \A y \in C : lo <= y /\ y < hi
  BY DEF Bounded
<1>2. C \subseteq Int /\ x \in Int
  BY DEF Bounded
<1> DEFINE A == {y \in Int : y <= x /\ \A z \in Int : y <= z /\ z <= x => z \in C}
           B == {y \in Int : x < y /\ \A z \in Int : x <= z /\ z < y => z \in C}
<1>3. x \in A /\ \A y \in A : lo <= y
  BY <1>1, <1>2
<1>4. x + 1 \in B
  BY <1>2
<1>5. \A y \in B : y <= hi
  <2> SUFFICES ASSUME NEW y \in B
               PROVE  y <= hi
    OBVIOUS
  <2>1. y - 1 \in C
    BY <1>2
  <2> QED
    BY <1>1, <2>1
<1>6. PICK a \in A : \A y \in A : a <= y
  BY <1>3, LowestOf
<1>7. PICK b \in B : \A y \in B : b >= y
  BY <1>4, <1>5, HighestOf
<1>8. a - 1 \notin C
  <2> SUFFICES ASSUME a - 1 \in C
               PROVE  FALSE
    OBVIOUS
  <2>1. a - 1 \in A
    BY <1>2, <1>6
  <2> QED
    BY <1>6, <2>1
<1>9. b \notin C
  <2> SUFFICES ASSUME b \in C
               PROVE  FALSE
    OBVIOUS
  <2>1. b + 1 \in B
    BY <1>2, <1>7
  <2> QED
    BY <1>7, <2>1
<1> DEFINE m == [start |-> a, end |-> b]
<1>10. m \in Interval /\ m.start = a /\ m.end = b
  BY DEF Interval
<1>11. a <= x /\ x < b /\ \A y \in Int : a <= y /\ y < b => y \in C
  BY <1>2
<1> HIDE DEF m
<1>12. RunOf(m, C)
  BY <1>2, <1>8, <1>9, <1>10, <1>11 DEF RunOf
<1> QED
  BY <1>10, <1>11, <1>12 DEF Runs

\* ... and in one only.
LEMMA RunsDiffer ==
  ASSUME NEW C, NEW m \in Runs(C), NEW n \in Runs(C), NEW x \in Int,
         m.start <= x, x < m.end, n.start <= x, x < n.end
  PROVE  m = n
<1>1. m.start \in Int /\ m.end \in Int /\ n.start \in Int /\ n.end \in Int /\ RunOf(m, C) /\ RunOf(n, C)
  BY DEF Runs, Interval
<1>2. ~(m.start < n.start) /\ ~(n.start < m.start) /\ ~(m.end < n.end) /\ ~(n.end < m.end)
  BY <1>1 DEF RunOf
<1>3. m.start = n.start /\ m.end = n.end
  BY <1>1, <1>2
<1> QED
  BY <1>3 DEF Runs, Interval

\* Whatever has no gap is within a run.
LEMMA RunHolds ==
  ASSUME NEW C, Bounded(C), NEW a \in Int, NEW b \in Int, a < b, \A x \in Int : a <= x /\ x < b => x \in C
  PROVE  \E m \in Runs(C) : m.start <= a /\ b <= m.end
<1>1. PICK m \in Runs(C) : m.start <= a /\ a < m.end
  BY RunExists
<1>2. m.end \in Int /\ m.end \notin C
  BY DEF Runs, RunOf, Interval
<1> QED
  BY <1>1, <1>2

LEMMA HeldIs ==
  ASSUME NEW i \in Interval
  PROVE  i.start \in Int /\ i.end \in Int /\ i = [start |-> i.start, end |-> i.end]
  BY DEF Interval

\* mergeIntervals: what overlaps or touches a new window becomes one run with it.
MetBy(next, out) == {m \in out : m.start <= next.end /\ next.start <= m.end} \cup {next}
Absorb(next, out) ==
  (out \ MetBy(next, out))
    \cup {[start |-> Min({m.start : m \in MetBy(next, out)}), end |-> Max({m.end : m \in MetBy(next, out)})]}

\* The ends of what a window meets.
LEMMA EndsOf ==
  ASSUME NEW C, Bounded(C), NEW next \in Interval
  PROVE  \E a, b \in Int :
           /\ a = Min({m.start : m \in MetBy(next, Runs(C))}) /\ b = Max({m.end : m \in MetBy(next, Runs(C))})
           /\ \E m \in MetBy(next, Runs(C)) : a = m.start
           /\ \E m \in MetBy(next, Runs(C)) : b = m.end
           /\ \A m \in MetBy(next, Runs(C)) : a <= m.start /\ m.end <= b
<1> DEFINE M == MetBy(next, Runs(C))
           S == {m.start : m \in M}
           T == {m.end : m \in M}
<1>1. PICK lo \in Int, hi \in Int : \A x \in C : lo <= x /\ x < hi
  BY DEF Bounded
<1>2. next.start \in Int /\ next.end \in Int /\ next \in M
  BY DEF Interval, MetBy
<1>3. ASSUME NEW m \in M
      PROVE  m.start \in Int /\ m.end \in Int /\ (m = next \/ (lo <= m.start /\ m.end <= hi))
  <2>1. CASE m = next
    BY <1>2, <2>1
  <2>2. CASE m \in Runs(C)
    <3>1. m.start \in Int /\ m.end \in Int /\ RunOf(m, C)
      BY <2>2 DEF Runs, Interval
    <3>2. m.start \in C /\ m.end - 1 \in C
      BY <3>1 DEF RunOf
    <3> QED
      BY <1>1, <3>1, <3>2
  <2> QED
    BY <2>1, <2>2 DEF MetBy
<1> DEFINE low == IF lo < next.start THEN lo ELSE next.start
           high == IF hi > next.end THEN hi ELSE next.end
<1>4. S \subseteq Int /\ S # {} /\ low \in Int /\ \A x \in S : low <= x
  <2>1. \A m \in M : low <= m.start
    BY <1>2, <1>3
  <2> HIDE DEF M
  <2> QED
    BY <1>2, <1>3, <2>1
<1>5. T \subseteq Int /\ T # {} /\ high \in Int /\ \A x \in T : x <= high
  <2>1. \A m \in M : m.end <= high
    BY <1>2, <1>3
  <2> HIDE DEF M
  <2> QED
    BY <1>2, <1>3, <2>1
<1> HIDE DEF low, high
<1>6. PICK a \in Int : a = Min(S)
  BY <1>4, LowestOf
<1>7. PICK b \in Int : b = Max(T)
  BY <1>5, HighestOf
<1>8. a \in S /\ \A x \in S : a <= x
  BY <1>4, <1>6, LowestOf
<1>9. b \in T /\ \A x \in T : b >= x
  BY <1>5, <1>7, HighestOf
<1>10. \A m \in M : a <= m.start /\ m.end <= b
  <2> HIDE DEF M
  <2> QED
    BY <1>3, <1>8, <1>9
<1>11. (\E m \in M : a = m.start) /\ (\E m \in M : b = m.end)
  BY <1>8, <1>9
<1> QED
  BY <1>6, <1>7, <1>10, <1>11

LEMMA Absorbed ==
  ASSUME NEW C, Bounded(C), NEW next \in Interval, next.start < next.end
  PROVE  Absorb(next, Runs(C)) = Runs(C \cup Held(next))
<1> DEFINE D == C \cup Held(next)
           M == MetBy(next, Runs(C))
<1>1. PICK a \in Int, b \in Int :
        /\ a = Min({m.start : m \in M}) /\ b = Max({m.end : m \in M})
        /\ \E m \in M : a = m.start
        /\ \E m \in M : b = m.end
        /\ \A m \in M : a <= m.start /\ m.end <= b
  BY EndsOf
<1>2. Absorb(next, Runs(C)) = (Runs(C) \ M) \cup {[start |-> a, end |-> b]}
  BY <1>1 DEF Absorb
<1>3. C \subseteq Int /\ next.start \in Int /\ next.end \in Int /\ next \in M /\ a <= next.start /\ next.end <= b
  BY <1>1 DEF Bounded, Interval, MetBy
<1>4. \A m \in M : m = next \/ (m \in Runs(C) /\ m.start <= next.end /\ next.start <= m.end)
  BY DEF MetBy
<1>5. \A m \in Runs(C) : m.start <= next.end /\ next.start <= m.end => m \in M
  BY DEF MetBy
<1>6. \A x \in Int : x \in D <=> x \in C \/ (next.start <= x /\ x < next.end)
  BY DEF Held
<1>7. \A m \in Runs(C) : m \in Interval /\ m.start \in Int /\ m.end \in Int /\ RunOf(m, C)
  BY DEF Runs, Interval
<1> HIDE DEF D, M
<1>0. \A m \in M : a <= m.start /\ m.end <= b
  BY <1>1
<1>8. ASSUME NEW x \in Int, a <= x, x < b
      PROVE  x \in D
  <2>1. CASE x < next.start
    <3>1. PICK m \in M : a = m.start
      BY <1>1
    <3>2. m \in Runs(C) /\ next.start <= m.end
      BY <1>3, <1>4, <1>8, <2>1, <3>1
    <3> QED
      BY <1>3, <1>6, <1>7, <1>8, <2>1, <3>1, <3>2 DEF RunOf
  <2>2. CASE x >= next.end
    <3>1. PICK m \in M : b = m.end
      BY <1>1
    <3>2. m \in Runs(C) /\ m.start <= next.end
      BY <1>3, <1>4, <1>8, <2>2, <3>1
    <3> QED
      BY <1>3, <1>6, <1>7, <1>8, <2>2, <3>1, <3>2 DEF RunOf
  <2> QED
    BY <1>3, <1>6, <2>1, <2>2
<1>9. a - 1 \notin D
  <2> SUFFICES ASSUME a - 1 \in C
               PROVE  FALSE
    BY <1>3, <1>6
  <2>1. PICK n \in Runs(C) : n.start <= a - 1 /\ a - 1 < n.end
    BY RunExists
  <2>2. n \notin M
    BY <1>0, <1>7, <2>1
  <2>3. n.end < next.start
    BY <1>3, <1>5, <1>7, <2>1, <2>2
  <2>4. PICK m \in M : a = m.start
    BY <1>1
  <2>5. m \in Runs(C)
    BY <1>3, <1>4, <1>7, <2>1, <2>3, <2>4
  <2> QED
    BY <1>7, <2>4, <2>5 DEF RunOf
<1>10. b \notin D
  <2> SUFFICES ASSUME b \in C
               PROVE  FALSE
    BY <1>3, <1>6
  <2>1. PICK n \in Runs(C) : n.start <= b /\ b < n.end
    BY RunExists
  <2>2. n \notin M
    BY <1>0, <1>7, <2>1
  <2>3. next.end < n.start
    BY <1>3, <1>5, <1>7, <2>1, <2>2
  <2>4. PICK m \in M : b = m.end
    BY <1>1
  <2>5. m \in Runs(C)
    BY <1>3, <1>4, <1>7, <2>1, <2>3, <2>4
  <2> QED
    BY <1>7, <2>4, <2>5 DEF RunOf
<1> DEFINE r == [start |-> a, end |-> b]
<1>11. r \in Interval /\ r.start = a /\ r.end = b
  BY DEF Interval
<1> HIDE DEF r
<1>12. r \in Runs(D)
  <2>1. RunOf(r, D)
    BY <1>3, <1>8, <1>9, <1>10, <1>11 DEF RunOf
  <2> QED
    BY <1>11, <2>1 DEF Runs
<1>13. ASSUME NEW m \in Runs(C), m \notin M
       PROVE  m \in Runs(D)
  <2>1. m.end < next.start \/ next.end < m.start
    BY <1>3, <1>5, <1>7, <1>13
  <2>2. RunOf(m, D)
    BY <1>3, <1>6, <1>7, <2>1 DEF RunOf
  <2> QED
    BY <1>7, <2>2 DEF Runs
<1>14. ASSUME NEW m \in Runs(D), m # r
       PROVE  m \in Runs(C) /\ m \notin M
  <2>1. m \in Interval /\ m.start \in Int /\ m.end \in Int /\ RunOf(m, D)
    BY DEF Runs, Interval
  <2>2. ~(\E x \in Int : a <= x /\ x < b /\ m.start <= x /\ x < m.end)
    BY <1>11, <1>12, <1>14, RunsDiffer
  <2>3. m.end <= a \/ b <= m.start
    <3> SUFFICES ASSUME a < m.end, m.start < b
                 PROVE  FALSE
      BY <2>1
    <3>1. a < b /\ m.start < m.end
      BY <1>3, <2>1 DEF RunOf
    <3>2. CASE a <= m.start
      BY <2>1, <2>2, <3>1, <3>2
    <3>3. CASE m.start <= a
      BY <2>1, <2>2, <3>1, <3>3
    <3> QED
      BY <2>1, <3>2, <3>3
  <2>4. m.end # a /\ m.start # b
    <3>1. a \in D /\ b - 1 \in D
      BY <1>3, <1>8
    <3> QED
      BY <2>1, <3>1 DEF RunOf
  <2>5. m.end < next.start \/ next.end < m.start
    BY <1>3, <2>1, <2>3, <2>4
  <2>6. RunOf(m, C)
    BY <1>3, <1>6, <2>1, <2>5 DEF RunOf
  <2>7. m \in Runs(C) /\ m # next
    BY <1>3, <2>1, <2>5, <2>6 DEF Runs
  <2> QED
    BY <1>3, <1>4, <2>1, <2>5, <2>7
<1> QED
  BY <1>2, <1>12, <1>13, <1>14 DEF r, D

\* A nonempty set of finite sets has a least one.
LEMMA SmallestOf ==
  ASSUME NEW S, IsFiniteSet(S), NEW Q \in SUBSET (SUBSET S), Q # {}
  PROVE  \E s \in Q : \A x \in s : s \ {x} \notin Q
<1> DEFINE N == {Cardinality(s) : s \in Q}
<1>1. \A s \in Q : IsFiniteSet(s) /\ Cardinality(s) \in Nat
  BY FS_Subset, FS_CardinalityType
<1>2. N \subseteq Nat /\ N # {}
  BY <1>1
<1>3. PICK n \in N : \A k \in N : n <= k
  BY <1>2, LeastOf
<1>4. PICK s \in Q : n = Cardinality(s)
  BY <1>3
<1>5. ASSUME NEW x \in s, s \ {x} \in Q
      PROVE  FALSE
  <2>1. Cardinality(s \ {x}) = Cardinality(s) - 1
    BY <1>1, <1>4, FS_RemoveElement
  <2>2. n <= Cardinality(s \ {x})
    BY <1>3, <1>5
  <2> QED
    BY <1>1, <1>4, <2>1, <2>2
<1> QED
  BY <1>5

LEMMA MergedAre ==
  ASSUME NEW S, IsFiniteSet(S), S \subseteq Interval, \A i \in S : i.start < i.end, Bounded(Covered(S))
  PROVE  MergeIntervals(S) = Runs(Covered(S))
<1> DEFINE any(s) == CHOOSE x \in s : TRUE
           Body(f, s) == IF s = {} THEN {} ELSE Absorb(any(s), f[s \ {any(s)}])
           iter == CHOOSE f : f = [s \in SUBSET S |-> Body(f, s)]
           runs == [s \in SUBSET S |-> Runs(Covered(s))]
<1>1. MergeIntervals(S) = iter[S]
  BY DEF MergeIntervals, FoldSet, MapThenFoldSet, Absorb, MetBy
<1>2. ASSUME NEW s \in SUBSET S
      PROVE  Runs(Covered(s)) = IF s = {} THEN {} ELSE Absorb(any(s), Runs(Covered(s \ {any(s)})))
  <2>1. CASE s = {}
    <3>1. Covered(s) = {}
      BY <2>1 DEF Covered
    <3>2. ASSUME NEW m \in Runs(Covered(s))
          PROVE  FALSE
      BY <3>1 DEF Runs, RunOf, Interval
    <3> QED
      BY <2>1, <3>2
  <2>2. CASE s # {}
    <3>1. PICK x \in s : x = any(s)
      BY <2>2
    <3>2. x \in Interval /\ x.start < x.end
      OBVIOUS
    <3>3. Bounded(Covered(s \ {x}))
      <4>1. Covered(s \ {x}) \subseteq Covered(S)
        BY DEF Covered
      <4> QED
        BY <4>1 DEF Bounded
    <3>4. Covered(s) = Covered(s \ {x}) \cup Held(x)
      BY DEF Covered, Held
    <3>5. Absorb(x, Runs(Covered(s \ {x}))) = Runs(Covered(s))
      BY <3>2, <3>3, <3>4, Absorbed
    <3> HIDE DEF any
    <3> QED
      BY <2>2, <3>1, <3>5
  <2> QED
    BY <2>1, <2>2
<1> HIDE DEF any
<1>3. runs = [s \in SUBSET S |-> Body(runs, s)]
  <2>1. ASSUME NEW s \in SUBSET S
        PROVE  runs[s] = Body(runs, s)
    <3>1. s \ {any(s)} \in SUBSET S
      OBVIOUS
    <3> QED
      BY <1>2, <3>1
  <2> HIDE DEF Body
  <2> QED
    BY <2>1
<1> HIDE DEF runs
<1>4. iter = [s \in SUBSET S |-> Body(iter, s)]
  BY <1>3
<1> HIDE DEF iter
<1>5. \A s \in SUBSET S : iter[s] = Body(iter, s)
  <2> HIDE DEF Body
  <2> QED
    BY <1>4
<1> DEFINE Q == {s \in SUBSET S : iter[s] # Runs(Covered(s))}
<1>6. Q = {}
  <2> SUFFICES ASSUME Q # {}
               PROVE  FALSE
    OBVIOUS
  <2>1. PICK s \in Q : \A x \in s : s \ {x} \notin Q
    <3>1. Q \in SUBSET (SUBSET S)
      OBVIOUS
    <3> HIDE DEF Q
    <3> QED
      BY <3>1, SmallestOf
  <2>2. s # {}
    BY <1>2, <1>5
  <2>3. any(s) \in s
    BY <2>2 DEF any
  <2>4. iter[s \ {any(s)}] = Runs(Covered(s \ {any(s)}))
    BY <2>1, <2>3
  <2>5. iter[s] = Absorb(any(s), Runs(Covered(s \ {any(s)})))
    BY <1>5, <2>2, <2>4
  <2> QED
    BY <1>2, <2>2, <2>5
<1> QED
  BY <1>1, <1>6

\* intersectIntervals: the time two lists share, as runs again.
LEMMA MeetingIs ==
  ASSUME NEW A, NEW B, Bounded(A), Bounded(B)
  PROVE  IntersectIntervals(Runs(A), Runs(B)) = Runs(A \cap B)
<1> DEFINE meet(a, b) == [start |-> Max({a.start, b.start}), end |-> Min({a.end, b.end})]
<1>1. \A m : m \in IntersectIntervals(Runs(A), Runs(B)) <=>
             \E a \in Runs(A), b \in Runs(B) : Overlaps(a, b) /\ m = meet(a, b)
  <2> DEFINE P == {q \in Runs(A) \X Runs(B) : Overlaps(q[1], q[2])}
  <2>1. IntersectIntervals(Runs(A), Runs(B)) = {meet(p[1], p[2]) : p \in P}
    BY DEF IntersectIntervals
  <2>2. \A a \in Runs(A), b \in Runs(B) : Overlaps(a, b) => <<a, b>> \in P
    OBVIOUS
  <2>3. \A p \in P : p[1] \in Runs(A) /\ p[2] \in Runs(B) /\ Overlaps(p[1], p[2])
    OBVIOUS
  <2> HIDE DEF P, meet
  <2>4. ASSUME NEW a \in Runs(A), NEW b \in Runs(B), Overlaps(a, b)
        PROVE  meet(a, b) \in {meet(p[1], p[2]) : p \in P}
    <3>1. <<a, b>> \in P /\ <<a, b>>[1] = a /\ <<a, b>>[2] = b
      BY <2>2, <2>4
    <3> QED
      BY <3>1
  <2> QED
    BY <2>1, <2>3, <2>4
<1>2. ASSUME NEW a \in Runs(A), NEW b \in Runs(B), Overlaps(a, b)
      PROVE  /\ meet(a, b) \in Runs(A \cap B)
             /\ \A x \in Int : a.start <= x /\ b.start <= x => meet(a, b).start <= x
             /\ \A x \in Int : x < a.end /\ x < b.end => x < meet(a, b).end
  <2>1. /\ a.start \in Int /\ a.end \in Int /\ b.start \in Int /\ b.end \in Int
        /\ RunOf(a, A) /\ RunOf(b, B)
    BY DEF Runs, Interval
  <2>2. PICK s \in Int : s = Max({a.start, b.start}) /\ s = IF a.start <= b.start THEN b.start ELSE a.start
    BY <2>1, TwoNumbers
  <2>3. PICK e \in Int : e = Min({a.end, b.end}) /\ e = IF a.end <= b.end THEN a.end ELSE b.end
    BY <2>1, TwoNumbers
  <2> DEFINE m == [start |-> s, end |-> e]
  <2>4. meet(a, b) = m
    BY <2>2, <2>3
  <2>5. m \in Interval /\ m.start = s /\ m.end = e
    BY DEF Interval
  <2> HIDE DEF m, meet
  <2>6. a.start < b.end /\ b.start < a.end
    BY <1>2 DEF Overlaps
  <2>7. /\ s < e
        /\ \A x \in Int : s <= x /\ x < e => x \in A /\ x \in B
    <3>1. a.start < a.end /\ b.start < b.end
      BY <2>1 DEF RunOf
    <3>2. s < e
      BY <2>1, <2>2, <2>3, <2>6, <3>1
    <3>3. ASSUME NEW x \in Int, s <= x, x < e
          PROVE  a.start <= x /\ x < a.end /\ b.start <= x /\ x < b.end
      BY <2>1, <2>2, <2>3, <3>3
    <3> QED
      BY <2>1, <3>2, <3>3 DEF RunOf
  <2>8. (s - 1 \notin A \/ s - 1 \notin B) /\ (e \notin A \/ e \notin B)
    BY <2>1, <2>2, <2>3 DEF RunOf
  <2>9. RunOf(m, A \cap B)
    BY <2>5, <2>7, <2>8 DEF RunOf
  <2> QED
    BY <2>1, <2>2, <2>3, <2>4, <2>5, <2>9 DEF Runs
<1> HIDE DEF meet
<1>3. ASSUME NEW m \in Runs(A \cap B)
      PROVE  \E a \in Runs(A), b \in Runs(B) : Overlaps(a, b) /\ m = meet(a, b)
  <2>1. m.start \in Int /\ m.end \in Int /\ RunOf(m, A \cap B)
    BY DEF Runs, Interval
  <2>2. m.start \in A /\ m.start \in B
    BY <2>1 DEF RunOf
  <2>3. PICK a \in Runs(A) : a.start <= m.start /\ m.start < a.end
    BY <2>2, RunExists
  <2>4. PICK b \in Runs(B) : b.start <= m.start /\ m.start < b.end
    BY <2>2, RunExists
  <2>5. a.start \in Int /\ a.end \in Int /\ b.start \in Int /\ b.end \in Int
    BY DEF Runs, Interval
  <2>6. Overlaps(a, b)
    BY <2>1, <2>3, <2>4, <2>5 DEF Overlaps
  <2>7. meet(a, b) \in Runs(A \cap B) /\ meet(a, b).start <= m.start /\ m.start < meet(a, b).end
    BY <1>2, <2>1, <2>3, <2>4, <2>6
  <2>8. m.start < m.end
    BY <2>1 DEF RunOf
  <2>9. m = meet(a, b)
    BY <2>1, <2>7, <2>8, RunsDiffer
  <2> QED
    BY <2>6, <2>9
<1> QED
  BY <1>1, <1>2, <1>3

\* What all of D cover.
Shared(D, cov) == {x \in Int : \A h \in D : x \in cov[h]}

LEMMA MeetingOfAll ==
  ASSUME NEW D, IsFiniteSet(D), D # {}, NEW cov, \A h \in D : Bounded(cov[h]),
         NEW sets, DOMAIN sets = D, \A h \in D : sets[h] = Runs(cov[h])
  PROVE  IntersectAll(sets) = Runs(Shared(D, cov)) /\ Bounded(Shared(D, cov))
<1> DEFINE one == CHOOSE h \in DOMAIN sets : TRUE
           S == DOMAIN sets \ {one}
           any(s) == CHOOSE x \in s : TRUE
           Body(f, s) == IF s = {} THEN sets[one] ELSE IntersectIntervals(sets[any(s)], f[s \ {any(s)}])
           iter == CHOOSE f : f = [s \in SUBSET S |-> Body(f, s)]
           C(s) == Shared(s \cup {one}, cov)
           runs == [s \in SUBSET S |-> Runs(C(s))]
<1>1. IntersectAll(sets) = iter[S]
  BY DEF IntersectAll, FoldSet, MapThenFoldSet
<1>2. one \in D /\ S = D \ {one}
  OBVIOUS
<1> HIDE DEF one, S
<1>3. \A s \in SUBSET S : Bounded(C(s))
  <2>1. PICK lo \in Int, hi \in Int : \A x \in cov[one] : lo <= x /\ x < hi
    BY <1>2 DEF Bounded
  <2>2. \A s \in SUBSET S : C(s) \subseteq cov[one] /\ C(s) \subseteq Int
    BY DEF Shared
  <2> QED
    BY <2>1, <2>2 DEF Bounded
<1>4. ASSUME NEW s \in SUBSET S
      PROVE  Runs(C(s)) = IF s = {} THEN sets[one]
                          ELSE IntersectIntervals(sets[any(s)], Runs(C(s \ {any(s)})))
  <2>1. CASE s = {}
    <3>1. C(s) = cov[one]
      BY <1>2, <2>1 DEF Shared, Bounded
    <3> QED
      BY <1>2, <2>1, <3>1
  <2>2. CASE s # {}
    <3>1. PICK x \in s : x = any(s)
      BY <2>2
    <3>2. s \ {x} \in SUBSET S /\ x \in D
      BY <1>2
    <3>3. C(s) = cov[x] \cap C(s \ {x})
      BY <3>2 DEF Shared, Bounded
    <3>4. IntersectIntervals(sets[x], Runs(C(s \ {x}))) = Runs(C(s))
      <4>1. Bounded(cov[x]) /\ Bounded(C(s \ {x})) /\ sets[x] = Runs(cov[x])
        BY <1>3, <3>2
      <4> HIDE DEF C
      <4> QED
        BY <3>3, <4>1, MeetingIs
    <3> HIDE DEF any, C
    <3> QED
      BY <2>2, <3>1, <3>4
  <2> QED
    BY <2>1, <2>2
<1> HIDE DEF any
<1>5. runs = [s \in SUBSET S |-> Body(runs, s)]
  <2>1. ASSUME NEW s \in SUBSET S
        PROVE  runs[s] = Body(runs, s)
    <3>1. s \ {any(s)} \in SUBSET S
      OBVIOUS
    <3> HIDE DEF C
    <3> QED
      BY <1>4, <3>1
  <2> HIDE DEF Body
  <2> QED
    BY <2>1
<1> HIDE DEF runs
<1>6. iter = [s \in SUBSET S |-> Body(iter, s)]
  BY <1>5
<1> HIDE DEF iter, C
<1>7. \A s \in SUBSET S : iter[s] = Body(iter, s)
  <2> HIDE DEF Body
  <2> QED
    BY <1>6
<1> DEFINE Q == {s \in SUBSET S : iter[s] # Runs(C(s))}
<1>8. Q = {}
  <2> SUFFICES ASSUME Q # {}
               PROVE  FALSE
    OBVIOUS
  <2>1. PICK s \in Q : \A x \in s : s \ {x} \notin Q
    <3>1. Q \in SUBSET (SUBSET S) /\ IsFiniteSet(S)
      BY <1>2, FS_RemoveElement
    <3> HIDE DEF Q
    <3> QED
      BY <3>1, SmallestOf
  <2>2. s # {}
    BY <1>4, <1>7
  <2>3. any(s) \in s
    BY <2>2 DEF any
  <2>4. iter[s \ {any(s)}] = Runs(C(s \ {any(s)}))
    BY <2>1, <2>3
  <2>5. iter[s] = IntersectIntervals(sets[any(s)], Runs(C(s \ {any(s)})))
    BY <1>7, <2>2, <2>4
  <2> QED
    BY <1>4, <2>2, <2>5
<1>9. C(S) = Shared(D, cov)
  <2>1. S \cup {one} = D
    BY <1>2
  <2> QED
    BY <2>1 DEF C
<1> QED
  BY <1>1, <1>3, <1>8, <1>9

-----------------------------------------------------------------------------
(* When a host is open. *)

\* What the windows of date d hold, and those of the dates a listing looks at.
Open(row, d) ==
  {x \in Int : \E w \in DayWindows(row, d) :
     LocalTimeToInstant(row.zone, d, w[1]) <= x /\ x < LocalTimeToInstant(row.zone, d, w[2])}

Looked(row, range) == LocalDate(row.zone, range.start - Day) .. LocalDate(row.zone, range.end + Day)

OpenIn(row, range) == {x \in Int : \E d \in Looked(row, range) : x \in Open(row, d)}

LEMMA DayWindowsAre ==
  ASSUME NEW row, HoursRow(row), NEW d \in Int
  PROVE  DayWindows(row, d) \subseteq (0..Day) \X (0..Day)
<1>1. d % Week \in 0 .. (Week - 1)
  BY SlotsAssumption
<1> QED
  BY <1>1 DEF DayWindows, HoursRow

LEMMA WindowsAreFinite ==
  ASSUME NEW lo \in Int, NEW hi \in Int, NEW W, W \subseteq [start: lo..hi, end: lo..hi]
  PROVE  IsFiniteSet(W)
<1> DEFINE P == (lo..hi) \X (lo..hi)
           T == [start: lo..hi, end: lo..hi]
           f == [p \in P |-> [start |-> p[1], end |-> p[2]]]
<1>1. IsFiniteSet(P)
  BY FS_Interval, FS_Product
<1>2. f \in Surjection(P, T)
  <2>1. f \in [P -> T]
    OBVIOUS
  <2>2. ASSUME NEW i \in T
        PROVE  \E p \in P : f[p] = i
    <3>1. <<i.start, i.end>> \in P /\ f[<<i.start, i.end>>] = i
      OBVIOUS
    <3> QED
      BY <3>1
  <2> HIDE DEF f, P, T
  <2> QED
    BY <2>1, <2>2 DEF Surjection
<1> HIDE DEF f, P
<1>3. IsFiniteSet(T)
  BY <1>1, <1>2, FS_Surjection
<1>4. W \in SUBSET T
  OBVIOUS
<1> HIDE DEF T
<1> QED
  BY <1>3, <1>4, FS_Subset

\* freeIntervalsForHost: the runs of the time that the schedule opens.
LEMMA OpenWindowsAre ==
  ASSUME NEW row, HoursRow(row), NEW range \in Interval
  PROVE  OpenWindows(row, range) = Runs(OpenIn(row, range)) /\ Bounded(OpenIn(row, range))
<1> DEFINE res(d, w) == [start |-> LocalTimeToInstant(row.zone, d, w[1]),
                         end |-> LocalTimeToInstant(row.zone, d, w[2])]
           windows == UNION {{res(d, w) : w \in DayWindows(row, d)} : d \in Looked(row, range)}
           W == {w \in windows : w.start < w.end}
<1>1. row.zone \in ZoneRow /\ range.start \in Int /\ range.end \in Int /\ Day \in Int
  BY DayAssumption DEF HoursRow, Interval
<1>2. PICK a \in Int, b \in Int : Looked(row, range) = a..b
  <2>1. range.start - Day \in Int /\ range.end + Day \in Int
    BY <1>1
  <2> QED
    BY <1>1, <2>1, WallIs DEF Looked
<1>3. PICK lo \in Int, hi \in Int : lo = a * Day - Day /\ hi = b * Day + 2 * Day
  BY <1>1
<1>4. ASSUME NEW d \in Looked(row, range), NEW w \in DayWindows(row, d)
      PROVE  /\ res(d, w) \in Interval /\ res(d, w) \in [start: lo..hi, end: lo..hi]
             /\ LocalTimeToInstant(row.zone, d, w[1]) \in lo..hi /\ LocalTimeToInstant(row.zone, d, w[2]) \in lo..hi
  <2>1. d \in Int /\ a <= d /\ d <= b /\ w[1] \in 0..Day /\ w[2] \in 0..Day
    <3>1. d \in Int /\ a <= d /\ d <= b
      BY <1>2
    <3>2. w \in (0..Day) \X (0..Day)
      BY <3>1, DayWindowsAre
    <3> QED
      BY <3>1, <3>2
  <2>2. a * Day <= d * Day /\ d * Day <= b * Day /\ d * Day \in Int /\ a * Day \in Int /\ b * Day \in Int
    BY <2>1, DayAssumption
  <2>3. PICK s \in Int : s = LocalTimeToInstant(row.zone, d, w[1]) /\ d * Day - Day <= s /\ s <= d * Day + 2 * Day
    BY <1>1, <2>1, ResolvedIs DEF FirstReached
  <2>4. PICK e \in Int : e = LocalTimeToInstant(row.zone, d, w[2]) /\ d * Day - Day <= e /\ e <= d * Day + 2 * Day
    BY <1>1, <2>1, ResolvedIs DEF FirstReached
  <2>5. s \in lo..hi /\ e \in lo..hi
    BY <1>1, <1>3, <2>2, <2>3, <2>4
  <2> QED
    BY <2>3, <2>4, <2>5 DEF Interval
<1>5. OpenWindows(row, range) = MergeIntervals(W)
  BY DEF OpenWindows, Looked
<1>6. \A i : i \in W <=> \E d \in Looked(row, range) : \E w \in DayWindows(row, d) : i = res(d, w) /\ i.start < i.end
  OBVIOUS
<1>7. OpenIn(row, range) = Covered(W)
  <2>1. ASSUME NEW x \in OpenIn(row, range)
        PROVE  x \in Covered(W)
    <3>0. PICK d \in Looked(row, range) : x \in Open(row, d)
      BY DEF OpenIn
    <3>1. PICK w \in DayWindows(row, d) :
            LocalTimeToInstant(row.zone, d, w[1]) <= x /\ x < LocalTimeToInstant(row.zone, d, w[2])
      BY <3>0 DEF Open
    <3>5. LocalTimeToInstant(row.zone, d, w[1]) \in lo..hi /\ LocalTimeToInstant(row.zone, d, w[2]) \in lo..hi
      BY <1>4
    <3>2. x \in Int /\ LocalTimeToInstant(row.zone, d, w[1]) \in Int /\ LocalTimeToInstant(row.zone, d, w[2]) \in Int
      BY <3>5 DEF OpenIn
    <3>3. res(d, w) \in W
      BY <1>6, <3>1, <3>2
    <3>4. res(d, w).start <= x /\ x < res(d, w).end
      BY <3>1
    <3> HIDE DEF W, res
    <3> QED
      BY <3>2, <3>3, <3>4 DEF Covered
  <2>2. ASSUME NEW x \in Covered(W)
        PROVE  x \in OpenIn(row, range)
    <3>1. PICK i \in W : i.start <= x /\ x < i.end /\ x \in Int
      BY DEF Covered
    <3>0. PICK d \in Looked(row, range) : \E w \in DayWindows(row, d) : i = res(d, w)
      BY <1>6
    <3>2. PICK w \in DayWindows(row, d) : i = res(d, w)
      BY <3>0
    <3>3. LocalTimeToInstant(row.zone, d, w[1]) <= x /\ x < LocalTimeToInstant(row.zone, d, w[2])
      BY <3>1, <3>2
    <3>4. x \in Open(row, d)
      BY <3>1, <3>2, <3>3 DEF Open
    <3> QED
      BY <3>1, <3>4 DEF OpenIn
  <2> QED
    BY <2>1, <2>2
<1>8. Bounded(OpenIn(row, range))
  <2>1. ASSUME NEW x \in OpenIn(row, range)
        PROVE  lo <= x /\ x < hi
    <3>1. PICK d \in Looked(row, range) : x \in Open(row, d)
      BY DEF OpenIn
    <3>2. PICK w \in DayWindows(row, d) :
            LocalTimeToInstant(row.zone, d, w[1]) <= x /\ x < LocalTimeToInstant(row.zone, d, w[2])
      BY <3>1 DEF Open
    <3>3. LocalTimeToInstant(row.zone, d, w[1]) \in lo..hi /\ LocalTimeToInstant(row.zone, d, w[2]) \in lo..hi /\ x \in Int
      BY <1>4 DEF OpenIn
    <3> QED
      BY <3>2, <3>3
  <2>2. OpenIn(row, range) \subseteq Int
    BY DEF OpenIn
  <2> QED
    BY <2>1, <2>2 DEF Bounded
<1>9. W \subseteq Interval /\ W \subseteq [start: lo..hi, end: lo..hi] /\ \A i \in W : i.start < i.end
  <2> HIDE DEF W, res
  <2> QED
    BY <1>4, <1>6
<1> HIDE DEF W
<1>10. IsFiniteSet(W)
  BY <1>9, WindowsAreFinite
<1> QED
  BY <1>5, <1>7, <1>8, <1>9, <1>10, MergedAre

\* An instant that is open by the windows of a date is at most two days off it,
\* whatever the clocks do.
LEMMA OpenNearDate ==
  ASSUME NEW row, HoursRow(row), NEW d \in Int, NEW x \in Open(row, d)
  PROVE  /\ x \in Int /\ WallClock(row.zone, x) < d * Day + Day
         /\ \E s \in Int : s <= x /\ WallClock(row.zone, s) >= d * Day
<1>1. row.zone \in ZoneRow /\ x \in Int
  BY DEF HoursRow, Open
<1>2. PICK w \in DayWindows(row, d) :
        LocalTimeToInstant(row.zone, d, w[1]) <= x /\ x < LocalTimeToInstant(row.zone, d, w[2])
  BY DEF Open
<1>3. w[1] \in 0..Day /\ w[2] \in 0..Day
  BY DayWindowsAre
<1>4. PICK s \in Int : s = LocalTimeToInstant(row.zone, d, w[1]) /\ WallClock(row.zone, s) >= d * Day + w[1]
  BY <1>1, <1>3, ResolvedIs DEF FirstReached
<1>5. WallClock(row.zone, x) < d * Day + w[2]
  BY <1>1, <1>2, <1>3, ResolvedIs DEF FirstReached
<1>6. PICK a \in Int : a = d * Day
  BY DayAssumption
<1>7. WallClock(row.zone, s) \in Int /\ WallClock(row.zone, x) \in Int /\ Day \in Int
  BY <1>1, WallIs, DayAssumption
<1>8. WallClock(row.zone, s) >= d * Day
  BY <1>3, <1>4, <1>6, <1>7
<1>9. WallClock(row.zone, x) < d * Day + Day
  BY <1>3, <1>5, <1>6, <1>7
<1> QED
  BY <1>1, <1>2, <1>4, <1>8, <1>9

LEMMA OpenWithin ==
  ASSUME NEW row, HoursRow(row), NEW d \in Int, NEW x \in Open(row, d), NEW y \in Int
  PROVE  /\ x + 2 * Day <= y => d <= LocalDate(row.zone, y)
         /\ y + 2 * Day <= x => LocalDate(row.zone, y) <= d
<1>1. row.zone \in ZoneRow /\ x \in Int /\ Day \in Int
  BY DayAssumption DEF HoursRow, Open
<1>2. PICK s \in Int : s <= x /\ WallClock(row.zone, s) >= d * Day
  BY OpenNearDate
<1>3. WallClock(row.zone, x) < d * Day + Day
  BY OpenNearDate
<1>4. PICK a \in Int : a = d * Day
  BY DayAssumption
<1>5. ASSUME x + 2 * Day <= y
      PROVE  d <= LocalDate(row.zone, y)
  <2>1. WallClock(row.zone, y) >= WallClock(row.zone, s) /\ WallClock(row.zone, y) \in Int /\ WallClock(row.zone, s) \in Int
    BY <1>1, <1>2, <1>5, WallIs
  <2>2. d * Day <= WallClock(row.zone, y)
    BY <1>2, <1>4, <2>1
  <2> QED
    BY <2>1, <2>2, DateOrder DEF LocalDate
<1>6. ASSUME y + 2 * Day <= x
      PROVE  LocalDate(row.zone, y) <= d
  <2>1. WallClock(row.zone, y) <= WallClock(row.zone, x) /\ WallClock(row.zone, y) \in Int /\ WallClock(row.zone, x) \in Int
    BY <1>1, <1>6, WallIs
  <2>2. WallClock(row.zone, y) < d * Day + Day
    BY <1>1, <1>3, <1>4, <2>1
  <2> QED
    BY <2>1, <2>2, DateOrder DEF LocalDate
<1> QED
  BY <1>5, <1>6

-----------------------------------------------------------------------------
\* Rows are as REST and the dashboard let them be; what is booked is finite.
BookedRow(b) == b.event \in EventTypes /\ b.start \in Starts /\ b.hosts \subseteq Hosts

SlotsTypeInv ==
  /\ \A h \in Hosts : hours[h] # None => HoursRow(hours[h])
  /\ \A h \in Hosts : outside[h] \subseteq Interval
  /\ IsFiniteSet(booked) /\ \A b \in booked : BookedRow(b)
  /\ clock \in Nat

LEMMA ParticipantsAre ==
  ASSUME NEW e \in EventTypes, NEW t, NEW H \in Accepted(e, t)
  PROVE  H \subseteq e.roster /\ H \subseteq Hosts
<1>1. e.roster \subseteq Hosts
  BY SlotsAssumption DEF EventTypeRow
<1> QED
  BY <1>1 DEF Accepted, Participants

\* The columns keep their types.
LEMMA SlotsTypes ==
  Spec => []SlotsTypeInv
<1>1. SlotsInit => SlotsTypeInv
  BY SlotsAssumption, FS_EmptySet DEF SlotsInit, SlotsTypeInv, ClockInit
<1>2. SlotsTypeInv /\ [SlotsNext]_slotVars => SlotsTypeInv'
  <2> SUFFICES ASSUME SlotsTypeInv, [SlotsNext]_slotVars
               PROVE  SlotsTypeInv'
    OBVIOUS
  <2>1. ASSUME NEW e \in EventTypes, NEW t \in Starts, Book(e, t)
        PROVE  SlotsTypeInv'
    <3>1. PICK H \in Accepted(e, t) : booked' = booked \cup {[event |-> e, start |-> t, hosts |-> H]}
      BY <2>1 DEF Book
    <3>2. H \subseteq Hosts
      BY ParticipantsAre
    <3>3. IsFiniteSet(booked')
      BY <3>1, FS_AddElement DEF SlotsTypeInv
    <3>4. \A b \in booked' : BookedRow(b)
      BY <3>1, <3>2 DEF SlotsTypeInv, BookedRow
    <3> QED
      BY <2>1, <3>3, <3>4 DEF Book, SlotsTypeInv
  <2>2. ASSUME Pass
        PROVE  SlotsTypeInv'
    BY <2>2 DEF Pass, Tick, SlotsTypeInv
  <2>3. ASSUME UNCHANGED slotVars
        PROVE  SlotsTypeInv'
    BY <2>3 DEF slotVars, SlotsTypeInv
  <2> QED
    BY <2>1, <2>2, <2>3 DEF SlotsNext
<1> QED
  BY <1>1, <1>2, PTL DEF Spec

-----------------------------------------------------------------------------
(* Multiples of a bucket. *)

LEMMA BucketsAre ==
  /\ Bucket \in Nat \ {0}
  /\ \A m \in Int : (Bucket * m) % Bucket = 0 /\ (Bucket * m) \div Bucket = m
  /\ \A x \in Int : x % Bucket = 0 => \E m \in Int : x = Bucket * m
<1>1. Bucket \in Nat \ {0}
  BY SlotsAssumption
<1>2. ASSUME NEW m \in Int
      PROVE  (Bucket * m) % Bucket = 0 /\ (Bucket * m) \div Bucket = m
  BY <1>1, Z3
<1>3. ASSUME NEW x \in Int, x % Bucket = 0
      PROVE  \E m \in Int : x = Bucket * m
  <2>1. x % Bucket = x - Bucket * (x \div Bucket)
    BY <1>1
  <2>2. PICK q \in Int : q = x \div Bucket
    BY <1>1
  <2>3. x = Bucket * q
    BY <1>1, <1>3, <2>1, <2>2
  <2> QED
    BY <2>3
<1> QED
  BY <1>1, <1>2, <1>3

Aligned(x) == x \in Int /\ x % Bucket = 0

LEMMA AlignedSum ==
  ASSUME NEW x, NEW y, Aligned(x), Aligned(y)
  PROVE  Aligned(x + y) /\ Aligned(x - y) /\ \A k \in Int : Aligned(k * x)
<1>1. PICK m \in Int, n \in Int : x = Bucket * m /\ y = Bucket * n
  BY BucketsAre DEF Aligned
<1>2. Bucket \in Int
  BY BucketsAre
<1>3. x + y = Bucket * (m + n) /\ x - y = Bucket * (m - n)
  BY <1>1, <1>2
<1>4. m + n \in Int /\ m - n \in Int /\ x + y \in Int /\ x - y \in Int
  BY <1>1, <1>2
<1>5. ASSUME NEW k \in Int
      PROVE  Aligned(k * x)
  <2>1. k * x = Bucket * (k * m) /\ k * m \in Int /\ k * x \in Int
    BY <1>1, <1>2
  <2> QED
    BY <2>1, BucketsAre DEF Aligned
<1> QED
  BY <1>3, <1>4, <1>5, BucketsAre DEF Aligned

LEMMA EventIs ==
  ASSUME NEW e \in EventTypes
  PROVE  /\ e.before \in Nat /\ e.dur \in Nat \ {0} /\ e.after \in Nat
         /\ Aligned(e.before) /\ Aligned(e.dur) /\ Aligned(e.after)
         /\ e.interval = None \/ (e.interval \in Nat \ {0} /\ Aligned(e.interval))
         /\ e.roster \subseteq Hosts
<1>1. e \in EventTypeRow
  BY SlotsAssumption
<1>2. e.before # None /\ e.dur # None /\ e.after # None
  BY <1>1, SlotsAssumption DEF EventTypeRow
<1> QED
  BY <1>1, <1>2, SlotsAssumption DEF EventTypeRow, Aligned

LEMMA FootprintIs ==
  ASSUME NEW e \in EventTypes, NEW t \in Int
  PROVE  /\ Footprint(e, t) \in Interval
         /\ Footprint(e, t).start = t - e.before /\ Footprint(e, t).end = t + e.dur + e.after
         /\ Footprint(e, t).start <= t /\ t < Footprint(e, t).end
         /\ Aligned(t) => Aligned(Footprint(e, t).start) /\ Aligned(Footprint(e, t).end)
<1>1. e.before \in Nat /\ e.dur \in Nat \ {0} /\ e.after \in Nat
  BY EventIs
<1>2. ASSUME Aligned(t)
      PROVE  Aligned(t - e.before) /\ Aligned(t + e.dur + e.after)
  <2>1. Aligned(t - e.before) /\ Aligned(t + e.dur)
    BY <1>2, EventIs, AlignedSum
  <2> QED
    BY <2>1, EventIs, AlignedSum
<1> QED
  BY <1>1, <1>2 DEF Footprint, Interval

\* candidatesInWindow: what the grid of a window offers fits in it, and lies on
\* the buckets' boundaries.
LEMMA CandidateIs ==
  ASSUME NEW e \in EventTypes, NEW w \in Interval, NEW t \in Candidates(e, w)
  PROVE  Aligned(t) /\ Within(Footprint(e, t), w)
<1> DEFINE anchor == ((w.start + Bucket - 1) \div Bucket) * Bucket
           step == IF e.interval = None THEN e.dur ELSE e.interval
<1>1. PICK k \in 0 .. ((w.end - w.start) \div step) : t = anchor + k * step
  BY DEF Candidates
<1>2. Within(Footprint(e, t), w)
  BY DEF Candidates
<1>3. Aligned(step) /\ step \in Nat \ {0}
  BY EventIs
<1>4. Aligned(anchor)
  <2>1. w.start \in Int /\ Bucket \in Nat \ {0}
    BY BucketsAre DEF Interval
  <2>2. PICK q \in Int : q = (w.start + Bucket - 1) \div Bucket
    BY <2>1
  <2>3. anchor = Bucket * q /\ anchor \in Int
    BY <2>1, <2>2
  <2> QED
    BY <2>2, <2>3, BucketsAre DEF Aligned
<1>5. k \in Int
  BY <1>3 DEF Interval
<1> HIDE DEF anchor, step
<1>6. Aligned(k * step)
  BY <1>3, <1>5, AlignedSum
<1> QED
  BY <1>1, <1>2, <1>4, <1>6, AlignedSum

-----------------------------------------------------------------------------
(* What is busy, and how much of it. *)

\* Lock rows begin at buckets' boundaries.
LEMMA LocksAre ==
  ASSUME SlotsTypeInv, NEW h \in Hosts
  PROVE  \A c \in Locks(h) : \E m \in Int : c = Bucket * m
<1>1. ASSUME NEW b \in BookingsOf(h), NEW c \in IntervalToBuckets(Footprint(b.event, b.start))
      PROVE  \E m \in Int : c = Bucket * m
  <2>1. b.event \in EventTypes /\ b.start \in Int
    BY SlotsAssumption DEF BookingsOf, SlotsTypeInv, BookedRow
  <2>2. PICK f \in Interval : f = Footprint(b.event, b.start)
    BY <2>1, FootprintIs
  <2>3. f.start \div Bucket \in Int /\ (f.end - 1) \div Bucket \in Int
    BY BucketsAre DEF Interval
  <2>4. \E m \in (f.start \div Bucket) .. ((f.end - 1) \div Bucket) : c = Bucket * m
    BY <2>2 DEF IntervalToBuckets
  <2> QED
    BY <2>3, <2>4
<1> QED
  BY <1>1 DEF Locks

\* However much more than an aligned footprint is looked at, the same of it is
\* busy.
LEMMA BusyIs ==
  ASSUME SlotsTypeInv, NEW h \in Hosts, NEW f \in Interval, Aligned(f.start), Aligned(f.end), f.start < f.end,
         NEW range \in Interval, Within(f, range)
  PROVE  Clear(f, Busy(h, range)) <=>
           /\ \A c \in Locks(h) : ~(f.start <= c /\ c < f.end)
           /\ \A x \in outside[h] : ~Overlaps(f, x)
<1>1. PICK p \in Int, q \in Int : f.start = Bucket * p /\ f.end = Bucket * q
  BY BucketsAre DEF Aligned
<1>2. f.start \in Int /\ f.end \in Int /\ range.start \in Int /\ range.end \in Int
      /\ range.start <= f.start /\ f.end <= range.end /\ Bucket \in Nat \ {0}
  BY BucketsAre DEF Interval, Within
<1>3. ASSUME NEW c \in Locks(h)
      PROVE  c \in Int /\ \E m \in Int : c = Bucket * m
  <2>1. PICK m \in Int : c = Bucket * m
    BY LocksAre
  <2> QED
    BY <1>2, <2>1
<1>4. ASSUME NEW c \in Locks(h)
      PROVE  f.start < c + Bucket => f.start <= c
  <2>1. PICK m \in Int : c = Bucket * m
    BY <1>3
  <2>2. m < p => c + Bucket <= f.start
    <3> SUFFICES ASSUME m < p
                 PROVE  c + Bucket <= f.start
      OBVIOUS
    <3>1. Bucket * (m + 1) <= Bucket * p
      BY <1>2
    <3>2. Bucket * (m + 1) = Bucket * m + Bucket
      BY <1>2
    <3> QED
      BY <1>1, <2>1, <3>1, <3>2
  <2>3. p <= m => f.start <= c
    BY <1>1, <1>2, <2>1
  <2> QED
    BY <1>2, <1>3, <2>2, <2>3
<1> DEFINE rows == {[start |-> c, end |-> c + Bucket] : c \in {d \in Locks(h) : range.start <= d /\ d < range.end}}
           events == {x \in outside[h] : Overlaps(x, range)}
<1>5. Clear(f, Busy(h, range)) <=> (\A o \in rows : ~Overlaps(f, o)) /\ (\A o \in events : ~Overlaps(f, o))
  BY DEF Clear, Busy
<1>6. (\A o \in rows : ~Overlaps(f, o)) <=> \A c \in Locks(h) : ~(f.start <= c /\ c < f.end)
  <2>1. \A o : o \in rows <=> \E c \in Locks(h) : range.start <= c /\ c < range.end /\ o = [start |-> c, end |-> c + Bucket]
    OBVIOUS
  <2>2. ASSUME NEW c \in Locks(h), f.start <= c, c < f.end
        PROVE  [start |-> c, end |-> c + Bucket] \in rows /\ Overlaps(f, [start |-> c, end |-> c + Bucket])
    BY <1>2, <1>3, <2>2 DEF Overlaps
  <2>3. ASSUME NEW c \in Locks(h), Overlaps(f, [start |-> c, end |-> c + Bucket])
        PROVE  f.start <= c /\ c < f.end
    BY <1>4, <2>3 DEF Overlaps
  <2> HIDE DEF rows
  <2> QED
    BY <2>1, <2>2, <2>3
<1>7. (\A o \in events : ~Overlaps(f, o)) <=> \A x \in outside[h] : ~Overlaps(f, x)
  <2>1. ASSUME NEW x \in outside[h], Overlaps(f, x)
        PROVE  Overlaps(x, range)
    <3>1. x.start \in Int /\ x.end \in Int
      BY DEF SlotsTypeInv, Interval
    <3> QED
      BY <1>2, <2>1, <3>1 DEF Overlaps
  <2> QED
    BY <2>1
<1> HIDE DEF rows, events
<1> QED
  BY <1>5, <1>6, <1>7

LEMMA HostZoneIs ==
  ASSUME SlotsTypeInv, NEW h \in Hosts, hours[h] # None
  PROVE  hours[h].zone \in ZoneRow
  BY DEF SlotsTypeInv, HoursRow

\* perDayCounts and countForHostOnDate count the same bookings, of a day that
\* the range holds.
LEMMA CountsAgree ==
  ASSUME SlotsTypeInv, NEW h \in Hosts, hours[h] # None, DaysOnce(hours[h].zone), NEW date \in Int, NEW range \in Interval,
         Within(DayRange(hours[h].zone, date), range)
  PROVE  CountListed(h, date, range) = CountOnDate(h, date)
<1> DEFINE day == DayRange(hours[h].zone, date)
<1>1. \A b \in BookingsOf(h) : b.event \in EventTypes /\ b.start \in Int
  BY SlotsAssumption DEF BookingsOf, SlotsTypeInv, BookedRow
<1>2. day \in Interval
  BY HostZoneIs, DayRangeIs DEF Interval
<1>3. \A b \in BookingsOf(h) : LocalDate(hours[h].zone, b.start) = date <=> day.start <= b.start /\ b.start < day.end
  BY <1>1, HostZoneIs, DayRangeIs
<1> HIDE DEF day
<1>4. ASSUME NEW b \in BookingsOf(h), day.start <= b.start, b.start < day.end
      PROVE  Overlaps(Met(b), range)
  <2>1. b.event.dur \in Nat \ {0} /\ b.start \in Int
    BY <1>1, EventIs
  <2>2. range.start <= day.start /\ day.end <= range.end
    BY DEF Within, day
  <2>3. range.start \in Int /\ range.end \in Int /\ day.start \in Int /\ day.end \in Int
    BY <1>2 DEF Interval
  <2> QED
    BY <1>4, <2>1, <2>2, <2>3 DEF Overlaps, Met
<1>5. {b \in BookingsOf(h) : Overlaps(Met(b), range) /\ LocalDate(hours[h].zone, b.start) = date}
        = {b \in BookingsOf(h) : day.start <= b.start /\ b.start < day.end}
  BY <1>3, <1>4
<1> QED
  BY <1>5 DEF CountListed, CountOnDate, day

-----------------------------------------------------------------------------
(* The listing. *)

\* What the grids of a host lie in: for a collective, the time all of it shares.
OpenTo(e, range, h) ==
  IF e.kind = "collective" THEN Shared(Listed(e), [g \in Listed(e) |-> OpenIn(hours[g], range)])
  ELSE OpenIn(hours[h], range)

StartsFor(e, range, h) == (UNION {Candidates(e, w) : w \in Runs(OpenTo(e, range, h))}) \cap Takes(h, e, range)

LEMMA ListedAre ==
  ASSUME SlotsTypeInv, NEW e \in EventTypes, NEW h \in Listed(e)
  PROVE  h \in Hosts /\ hours[h] # None /\ HoursRow(hours[h]) /\ h \in e.roster
  BY EventIs DEF Listed, SlotsTypeInv

LEMMA GridsAre ==
  ASSUME SlotsTypeInv, NEW e \in EventTypes, NEW range \in Interval, NEW h \in Listed(e)
  PROVE  LET free == [g \in Listed(e) |-> FreeIntervals(hours[g], range)]
             gridded == [g \in Listed(e) |-> IF e.kind = "collective" THEN IntersectAll(free) ELSE free[g]]
         IN  gridded[h] = Runs(OpenTo(e, range, h)) /\ Bounded(OpenTo(e, range, h))
<1> DEFINE free == [g \in Listed(e) |-> FreeIntervals(hours[g], range)]
           cov == [g \in Listed(e) |-> OpenIn(hours[g], range)]
<1>1. ASSUME NEW g \in Listed(e)
      PROVE  free[g] = Runs(cov[g]) /\ Bounded(cov[g]) /\ cov[g] = OpenIn(hours[g], range)
  <2>1. HoursRow(hours[g])
    BY ListedAre
  <2> QED
    BY <2>1, OpenWindowsAre DEF FreeIntervals
<1>2. IsFiniteSet(Listed(e))
  <2>1. Listed(e) \subseteq Hosts /\ IsFiniteSet(Hosts)
    BY ListedAre, SlotsAssumption
  <2> QED
    BY <2>1, FS_Subset
<1>3. DOMAIN free = Listed(e) /\ Listed(e) # {}
  OBVIOUS
<1> HIDE DEF free, cov
<1>4. IntersectAll(free) = Runs(Shared(Listed(e), cov)) /\ Bounded(Shared(Listed(e), cov))
  BY <1>1, <1>2, <1>3, MeetingOfAll
<1>5. OpenTo(e, range, h) = IF e.kind = "collective" THEN Shared(Listed(e), cov) ELSE cov[h]
  BY <1>1 DEF OpenTo, cov
<1> QED
  BY <1>1, <1>4, <1>5 DEF free

\* computeSlots: each start with the hosts that can take it.
LEMMA ListingIs ==
  ASSUME SlotsTypeInv, NEW e \in EventTypes, NEW range \in Interval, NEW slot
  PROVE  slot \in ComputeSlots(e, range) <=>
           \E g \in Listed(e) : \E t \in StartsFor(e, range, g) :
             /\ slot = [start |-> t, hosts |-> {h \in Listed(e) : t \in StartsFor(e, range, h)}]
             /\ e.kind = "collective" => slot.hosts = Listed(e)
<1> DEFINE free == [h \in Listed(e) |-> FreeIntervals(hours[h], range)]
           gridded == [h \in Listed(e) |-> IF e.kind = "collective" THEN IntersectAll(free) ELSE free[h]]
           starts(h) == (UNION {Candidates(e, w) : w \in gridded[h]}) \cap Takes(h, e, range)
           offers == UNION {{<<t, h>> : t \in starts(h)} : h \in Listed(e)}
           slots == {[start |-> o[1], hosts |-> {p[2] : p \in {q \in offers : q[1] = o[1]}}] : o \in offers}
<1>1. ComputeSlots(e, range) = {s \in slots : e.kind = "collective" => s.hosts = Listed(e)}
  BY DEF ComputeSlots
<1>2. ASSUME NEW h \in Listed(e)
      PROVE  starts(h) = StartsFor(e, range, h)
  <2>1. gridded[h] = Runs(OpenTo(e, range, h))
    BY GridsAre
  <2> HIDE DEF gridded
  <2> QED
    BY <2>1 DEF StartsFor
<1> HIDE DEF gridded, free, starts
<1>3. \A o : o \in offers <=> \E h \in Listed(e) : \E t \in StartsFor(e, range, h) : o = <<t, h>>
  BY <1>2
<1>4. \A o \in offers : o[2] \in Listed(e) /\ o[1] \in StartsFor(e, range, o[2])
  BY <1>3
<1>5. \A h \in Listed(e) : \A t \in StartsFor(e, range, h) : <<t, h>> \in offers
  BY <1>3
<1> HIDE DEF offers
<1>6. ASSUME NEW o \in offers
      PROVE  {p[2] : p \in {q \in offers : q[1] = o[1]}} = {h \in Listed(e) : o[1] \in StartsFor(e, range, h)}
  <2>1. ASSUME NEW h \in Listed(e), o[1] \in StartsFor(e, range, h)
        PROVE  h \in {p[2] : p \in {q \in offers : q[1] = o[1]}}
    <3>1. <<o[1], h>> \in offers /\ <<o[1], h>>[1] = o[1] /\ <<o[1], h>>[2] = h
      BY <1>5, <2>1
    <3> QED
      BY <3>1
  <2> QED
    BY <1>4, <2>1
<1>7. ASSUME NEW s
      PROVE  s \in slots <=> \E g \in Listed(e) : \E t \in StartsFor(e, range, g) :
                               s = [start |-> t, hosts |-> {h \in Listed(e) : t \in StartsFor(e, range, h)}]
  <2>1. s \in slots <=> \E o \in offers : s = [start |-> o[1], hosts |-> {h \in Listed(e) : o[1] \in StartsFor(e, range, h)}]
    BY <1>6
  <2>2. ASSUME NEW g \in Listed(e), NEW t \in StartsFor(e, range, g),
               s = [start |-> t, hosts |-> {h \in Listed(e) : t \in StartsFor(e, range, h)}]
        PROVE  \E o \in offers : s = [start |-> o[1], hosts |-> {h \in Listed(e) : o[1] \in StartsFor(e, range, h)}]
    <3>1. <<t, g>> \in offers /\ <<t, g>>[1] = t
      BY <1>5
    <3> QED
      BY <2>2, <3>1
  <2> QED
    BY <1>4, <2>1, <2>2
<1> HIDE DEF slots
<1> QED
  BY <1>1, <1>7

\* What a start that is listed for a host has passed.
LEMMA StartIs ==
  ASSUME SlotsTypeInv, NEW e \in EventTypes, NEW range \in Interval, NEW h \in Listed(e), NEW t \in StartsFor(e, range, h)
  PROVE  /\ t \in Int /\ Aligned(t) /\ range.start <= t /\ t < range.end /\ InPolicy(e, t)
         /\ ~Full(e, CountListed(h, LocalDate(hours[h].zone, t), range))
         /\ Clear(Footprint(e, t), Busy(h, BusyRange(e, range)))
         /\ \E w \in Runs(OpenTo(e, range, h)) : Within(Footprint(e, t), w)
         /\ \A x \in Int : Footprint(e, t).start <= x /\ x < Footprint(e, t).end => x \in OpenIn(hours[h], range)
<1>1. range.start \in Int /\ range.end \in Int
  BY DEF Interval
<1>2. t \in range.start .. (range.end - 1) /\ InPolicy(e, t)
      /\ ~Full(e, CountListed(h, LocalDate(hours[h].zone, t), range))
      /\ Clear(Footprint(e, t), Busy(h, BusyRange(e, range)))
  <2>1. t \in Takes(h, e, range)
    BY DEF StartsFor
  <2> QED
    BY <2>1 DEF Takes
<1>3. PICK w \in Runs(OpenTo(e, range, h)) : t \in Candidates(e, w)
  BY DEF StartsFor
<1>4. w \in Interval /\ RunOf(w, OpenTo(e, range, h))
  BY DEF Runs
<1>5. Aligned(t) /\ Within(Footprint(e, t), w)
  BY <1>3, <1>4, CandidateIs
<1>6. ASSUME NEW x \in Int, Footprint(e, t).start <= x, x < Footprint(e, t).end
      PROVE  x \in OpenIn(hours[h], range)
  <2>1. Footprint(e, t).start \in Int /\ Footprint(e, t).end \in Int /\ w.start \in Int /\ w.end \in Int
    BY <1>2, <1>4, FootprintIs DEF Interval
  <2>2. x \in OpenTo(e, range, h)
    BY <1>4, <1>5, <1>6, <2>1 DEF Within, RunOf
  <2> QED
    BY <2>2 DEF OpenTo, Shared
<1> QED
  BY <1>1, <1>2, <1>5, <1>6

-----------------------------------------------------------------------------
(* The re-check. *)

\* isSlotStillValid and the batch accept whoever a start is listed for.
LEMMA ListedIsValid ==
  ASSUME SlotsTypeInv, NEW e \in EventTypes, NEW range \in Interval, NEW h \in Listed(e),
         NEW t \in StartsFor(e, range, h), e.cap = None \/ WholeDay(e, t, range)
  PROVE  /\ h \in e.roster /\ hours[h] # None /\ IsSlotStillValid(h, e, t)
         /\ IntervalToBuckets(Footprint(e, t)) \cap Locks(h) = {}
<1> DEFINE row == hours[h]
           f == Footprint(e, t)
           look == [start |-> f.start - Day, end |-> f.end + Day]
<1>1. h \in Hosts /\ row # None /\ HoursRow(row) /\ h \in e.roster
  BY ListedAre
<1>2. /\ t \in Int /\ Aligned(t) /\ range.start <= t /\ t < range.end /\ InPolicy(e, t)
      /\ ~Full(e, CountListed(h, LocalDate(row.zone, t), range))
      /\ Clear(f, Busy(h, BusyRange(e, range)))
      /\ \A x \in Int : f.start <= x /\ x < f.end => x \in OpenIn(row, range)
  BY StartIs
<1>3. /\ f \in Interval /\ f.start \in Int /\ f.end \in Int /\ f.start <= t /\ t < f.end
      /\ f.start = t - e.before /\ f.end = t + e.dur + e.after
      /\ Aligned(f.start) /\ Aligned(f.end)
  BY <1>2, FootprintIs DEF Interval
<1>4. range.start \in Int /\ range.end \in Int /\ Day \in Nat \ {0} /\ row.zone \in ZoneRow
  BY <1>1, DayAssumption DEF Interval, HoursRow
<1> HIDE DEF f, row
<1>5. /\ BusyRange(e, range) \in Interval /\ Within(f, BusyRange(e, range)) /\ Within(f, f)
  <2>1. e.before \in Nat /\ e.dur \in Nat \ {0} /\ e.after \in Nat
    BY EventIs
  <2> QED
    BY <1>2, <1>3, <1>4, <2>1 DEF BusyRange, Within, Interval
<1>6. /\ \A c \in Locks(h) : ~(f.start <= c /\ c < f.end)
      /\ Clear(f, Busy(h, f))
  <2>1. f.start < f.end
    BY <1>2, <1>3
  <2> QED
    BY <1>1, <1>2, <1>3, <1>5, <2>1, BusyIs
<1>7. IntervalToBuckets(f) \cap Locks(h) = {}
  <2> SUFFICES ASSUME NEW c \in IntervalToBuckets(f)
               PROVE  f.start <= c /\ c < f.end
    BY <1>6
  <2>1. Bucket \in Nat \ {0}
    BY BucketsAre
  <2>2. PICK k \in (f.start \div Bucket) .. ((f.end - 1) \div Bucket) : c = Bucket * k
    BY DEF IntervalToBuckets
  <2>3. PICK p \in Int : f.start = Bucket * p
    BY <1>3, BucketsAre DEF Aligned
  <2>4. p <= k
    <3>1. f.start \div Bucket = p
      BY <2>3, BucketsAre
    <3>2. (f.end - 1) \div Bucket \in Int
      BY <1>3, <2>1
    <3> QED
      BY <2>2, <3>1, <3>2
  <2>5. PICK q \in Int : q = (f.end - 1) \div Bucket /\ Bucket * q <= f.end - 1
    BY <1>3, <2>1
  <2>6. k \in Int /\ k <= q
    BY <2>2, <2>4, <2>5
  <2>7. Bucket * p <= Bucket * k /\ Bucket * k <= Bucket * q
    BY <2>1, <2>4, <2>6
  <2>8. c \in Int /\ Bucket * q \in Int
    BY <2>1, <2>2, <2>5, <2>6
  <2> QED
    BY <1>3, <2>2, <2>3, <2>5, <2>7, <2>8
<1>8. ~Full(e, CountOnDate(h, LocalDate(row.zone, t)))
  <2>1. CASE e.cap = None
    BY <2>1 DEF Full
  <2>2. CASE WholeDay(e, t, range)
    <3>1. DaysOnce(hours[h].zone) /\ Within(DayRange(row.zone, LocalDate(row.zone, t)), range)
      BY <2>2 DEF WholeDay, row
    <3>2. LocalDate(row.zone, t) \in Int
      BY <1>2, <1>4, WallIs
    <3>3. CountListed(h, LocalDate(row.zone, t), range) = CountOnDate(h, LocalDate(row.zone, t))
      BY <1>1, <3>1, <3>2, CountsAgree DEF row
    <3> QED
      BY <1>2, <3>3
  <2> QED
    BY <2>1, <2>2
<1>9. look \in Interval /\ look.start = f.start - Day /\ look.end = f.end + Day
  BY <1>3, <1>4 DEF Interval
<1> HIDE DEF look
<1>10. ASSUME NEW x \in Int, f.start <= x, x < f.end
       PROVE  x \in OpenIn(row, look)
  <2>1. PICK d \in Looked(row, range) : x \in Open(row, d)
    BY <1>2, <1>10 DEF OpenIn
  <2>2. d \in Int
    <3>1. range.start - Day \in Int /\ range.end + Day \in Int
      BY <1>4
    <3> QED
      BY <1>4, <3>1, WallIs DEF Looked
  <2>3. look.start - Day \in Int /\ look.end + Day \in Int
        /\ look.start - Day + 2 * Day <= x /\ x + 2 * Day <= look.end + Day
    BY <1>3, <1>4, <1>9, <1>10
  <2>4. LocalDate(row.zone, look.start - Day) <= d /\ d <= LocalDate(row.zone, look.end + Day)
    BY <1>1, <2>1, <2>2, <2>3, OpenWithin
  <2>5. d \in Looked(row, look)
    BY <1>4, <2>2, <2>3, <2>4, WallIs DEF Looked
  <2> QED
    BY <2>1, <2>5 DEF OpenIn
<1>11. \E w \in FreeIntervals(row, look) : Within(f, w)
  <2>1. FreeIntervals(row, look) = Runs(OpenIn(row, look)) /\ Bounded(OpenIn(row, look))
    BY <1>1, <1>9, OpenWindowsAre DEF FreeIntervals
  <2>2. f.start < f.end
    BY <1>2, <1>3
  <2> QED
    BY <1>3, <1>10, <2>1, <2>2, RunHolds DEF Within
<1>12. IsSlotStillValid(h, e, t)
  BY <1>2, <1>6, <1>8, <1>11 DEF IsSlotStillValid, Aligned, f, look, row
<1> QED
  BY <1>1, <1>7, <1>12 DEF f, row

-----------------------------------------------------------------------------
(* Two listings. *)

\* On clocks that do not turn back over midnight, what the windows of a date
\* open lies on that date.
LEMMA OpenOnDate ==
  ASSUME SlotsTypeInv, NEW h \in Hosts, hours[h] # None, DaysOnce(hours[h].zone), NEW d \in Int, NEW x \in Open(hours[h], d)
  PROVE  x \in Int /\ LocalDate(hours[h].zone, x) = d
<1> DEFINE row == hours[h]
           zone == hours[h].zone
<1>1. HoursRow(row) /\ zone \in ZoneRow /\ DaysOnce(zone)
  BY HostZoneIs DEF SlotsTypeInv
<1>2. x \in Int /\ WallClock(zone, x) < d * Day + Day /\ WallClock(zone, x) \in Int
  BY <1>1, OpenNearDate, WallIs
<1>3. PICK s \in Int : s <= x /\ WallClock(zone, s) >= d * Day /\ WallClock(zone, s) \in Int
  BY <1>1, OpenNearDate, WallIs
<1>4. LocalDate(zone, x) <= d
  BY <1>2, DateOrder DEF LocalDate
<1>5. d * Day \in Int
  BY DayAssumption
<1>6. d <= LocalDate(zone, s)
  BY <1>3, <1>5, DateOrder DEF LocalDate
<1>7. LocalDate(zone, s) <= LocalDate(zone, x)
  BY <1>1, <1>2, <1>3, DatesInOrder
<1>8. LocalDate(zone, s) \in Int /\ LocalDate(zone, x) \in Int
  BY <1>1, <1>2, <1>3, WallIs
<1> HIDE DEF row, zone
<1>9. LocalDate(zone, x) = d
  BY <1>4, <1>6, <1>7, <1>8
<1> QED
  BY <1>2, <1>9 DEF zone

\* No window of a listed host that holds t began before the first date that
\* the narrower listing looks at.
Fresh(e, t, narrow, wide) == \A w \in BeganEarlier(e, narrow, wide) : ~(w.start <= t /\ t < w.end)

\* A stretch that is open around t in the wider listing is in the narrower one.
LEMMA SameOpen ==
  ASSUME SlotsTypeInv, NEW e \in EventTypes, NEW h \in Listed(e), DaysOnce(hours[h].zone),
         NEW narrow \in Interval, NEW wide \in Interval, Within(narrow, wide),
         NEW t \in Int, Fresh(e, t, narrow, wide),
         NEW y \in Int, NEW u \in Int, y <= t, t < u,
         LocalDate(hours[h].zone, u - 1) <= LocalDate(hours[h].zone, narrow.end + Day)
  PROVE  /\ OpenIn(hours[h], narrow) \subseteq OpenIn(hours[h], wide)
         /\ (\A x \in Int : y <= x /\ x < u => x \in OpenIn(hours[h], wide))
              => \A x \in Int : y <= x /\ x < u => x \in OpenIn(hours[h], narrow)
<1> DEFINE row == hours[h]
           zone == hours[h].zone
           first == LocalDate(zone, narrow.start - Day)
           last == LocalDate(zone, narrow.end + Day)
<1>1. h \in Hosts /\ row # None /\ HoursRow(row)
  BY ListedAre
<1>2. zone \in ZoneRow /\ DaysOnce(zone)
  BY <1>1, HostZoneIs
<1>3. /\ narrow.start - Day \in Int /\ narrow.end + Day \in Int
      /\ wide.start - Day \in Int /\ wide.end + Day \in Int
      /\ wide.start - Day <= narrow.start - Day /\ narrow.end + Day <= wide.end + Day
  BY DayAssumption DEF Interval, Within
<1>4. first \in Int /\ last \in Int /\ Looked(row, narrow) = first .. last
  BY <1>2, <1>3, WallIs DEF Looked
<1>5. Looked(row, narrow) \subseteq Looked(row, wide) /\ Looked(row, wide) \subseteq Int
  <2>1. /\ LocalDate(zone, wide.start - Day) <= first /\ last <= LocalDate(zone, wide.end + Day)
        /\ LocalDate(zone, wide.start - Day) \in Int /\ LocalDate(zone, wide.end + Day) \in Int
    BY <1>2, <1>3, DatesInOrder, WallIs
  <2>2. Looked(row, wide) = LocalDate(zone, wide.start - Day) .. LocalDate(zone, wide.end + Day)
    BY DEF Looked
  <2> HIDE DEF first, last, zone, row
  <2> QED
    BY <1>4, <2>1, <2>2
<1> HIDE DEF first, last
<1>6. OpenIn(row, narrow) \subseteq OpenIn(row, wide)
  BY <1>5 DEF OpenIn
<1>7. ASSUME \A x \in Int : y <= x /\ x < u => x \in OpenIn(row, wide),
             NEW x \in Int, y <= x, x < u
      PROVE  x \in OpenIn(row, narrow)
  <2>1. FreeIntervals(row, wide) = Runs(OpenIn(row, wide)) /\ Bounded(OpenIn(row, wide))
    BY <1>1, OpenWindowsAre DEF FreeIntervals
  <2>2. PICK r \in Runs(OpenIn(row, wide)) : r.start <= y /\ u <= r.end
    <3>1. y < u
      OBVIOUS
    <3> QED
      BY <1>7, <2>1, <3>1, RunHolds
  <2>3. r \in FreeIntervals(row, wide) /\ r.start \in Int /\ r.end \in Int
    BY <2>1 DEF Runs, Interval
  <2>4. r.start <= t /\ t < r.end /\ r.start <= x
    BY <1>7, <2>2, <2>3
  <2>5. ~(LocalDate(zone, r.start) < LocalDate(zone, narrow.start - Day))
    BY <2>3, <2>4 DEF Fresh, BeganEarlier
  <2>6. first <= LocalDate(zone, r.start) /\ LocalDate(zone, r.start) \in Int
    <3>1. ~(LocalDate(zone, r.start) < first) /\ LocalDate(zone, r.start) \in Int
      BY <1>2, <2>3, <2>5, WallIs DEF first
    <3> QED
      BY <1>4, <3>1
  <2>7. LocalDate(zone, r.start) <= LocalDate(zone, x)
    BY <1>2, <2>3, <2>4, DatesInOrder
  <2>8. LocalDate(zone, x) <= last
    <3>1. x <= u - 1 /\ u - 1 \in Int
      BY <1>7
    <3>2. LocalDate(zone, x) <= LocalDate(zone, u - 1)
      BY <1>2, <3>1, DatesInOrder
    <3>3. LocalDate(zone, x) \in Int /\ LocalDate(zone, u - 1) \in Int /\ LocalDate(zone, u - 1) <= last
      BY <1>2, <3>1, WallIs DEF last
    <3> QED
      BY <1>4, <3>2, <3>3
  <2>9. PICK d \in Looked(row, wide) : x \in Open(row, d)
    BY <1>7 DEF OpenIn
  <2>10. d \in Int /\ LocalDate(zone, x) = d
    BY <1>1, <1>5, <2>9, OpenOnDate
  <2>11. d \in Looked(row, narrow)
    BY <1>4, <2>6, <2>7, <2>8, <2>10
  <2> QED
    BY <2>9, <2>11 DEF OpenIn
<1> QED
  BY <1>6, <1>7

LEMMA SameOpenTo ==
  ASSUME SlotsTypeInv, NEW e \in EventTypes, \A h \in Listed(e) : DaysOnce(hours[h].zone), NEW g \in Listed(e),
         NEW narrow \in Interval, NEW wide \in Interval, Within(narrow, wide),
         NEW t \in Int, Fresh(e, t, narrow, wide),
         NEW y \in Int, NEW u \in Int, y <= t, t < u,
         \A h \in Listed(e) : LocalDate(hours[h].zone, u - 1) <= LocalDate(hours[h].zone, narrow.end + Day)
  PROVE  /\ OpenTo(e, narrow, g) \subseteq OpenTo(e, wide, g)
         /\ (\A x \in Int : y <= x /\ x < u => x \in OpenTo(e, wide, g))
              => \A x \in Int : y <= x /\ x < u => x \in OpenTo(e, narrow, g)
<1> DEFINE C(range, h) == OpenIn(hours[h], range)
           Mates == IF e.kind = "collective" THEN Listed(e) ELSE {g}
<1>1. ASSUME NEW range \in Interval, NEW x \in Int
      PROVE  x \in OpenTo(e, range, g) <=> \A h \in Mates : x \in C(range, h)
  BY DEF OpenTo, Shared
<1>2. \A range \in Interval : OpenTo(e, range, g) \subseteq Int
  BY DEF OpenTo, Shared, OpenIn
<1>3. Mates \subseteq Listed(e)
  OBVIOUS
<1>4. ASSUME NEW h \in Mates
      PROVE  /\ C(narrow, h) \subseteq C(wide, h)
             /\ (\A x \in Int : y <= x /\ x < u => x \in C(wide, h))
                  => \A x \in Int : y <= x /\ x < u => x \in C(narrow, h)
  BY <1>3, SameOpen
<1> HIDE DEF C, Mates
<1>5. OpenTo(e, narrow, g) \subseteq OpenTo(e, wide, g)
  BY <1>1, <1>2, <1>4
<1>6. ASSUME \A x \in Int : y <= x /\ x < u => x \in OpenTo(e, wide, g),
             NEW x \in Int, y <= x, x < u
      PROVE  x \in OpenTo(e, narrow, g)
  <2>1. \A h \in Mates : \A z \in Int : y <= z /\ z < u => z \in C(wide, h)
    BY <1>1, <1>6
  <2>2. \A h \in Mates : x \in C(narrow, h)
    BY <1>4, <1>6, <2>1
  <2> QED
    BY <1>1, <2>2
<1> QED
  BY <1>5, <1>6

\* Every stretch of M up to the end of f that holds f is in N.
SameUpTo(f, N, M) ==
  \A y \in Int :
    y <= f.start /\ (\A x \in Int : y <= x /\ x < f.end => x \in M)
      => \A x \in Int : y <= x /\ x < f.end => x \in N

\* Sets that agree before the end of f have runs that start together.
LEMMA RunsAgree ==
  ASSUME NEW N, NEW M, Bounded(N), Bounded(M), N \subseteq M, NEW f \in Interval, f.start < f.end, SameUpTo(f, N, M)
  PROVE  /\ \A v \in Runs(N) : Within(f, v) => \E w \in Runs(M) : Within(f, w) /\ w.start = v.start
         /\ \A w \in Runs(M) : Within(f, w) => \E v \in Runs(N) : Within(f, v) /\ v.start = w.start
<1>1. f.start \in Int /\ f.end \in Int
  BY DEF Interval
<1>2. ASSUME NEW C, NEW m \in Runs(C)
      PROVE  m.start \in Int /\ m.end \in Int /\ RunOf(m, C)
  BY DEF Runs, Interval
<1>3. ASSUME NEW v \in Runs(N), Within(f, v)
      PROVE  \E w \in Runs(M) : Within(f, w) /\ w.start = v.start
  <2>1. v.start \in Int /\ v.end \in Int /\ RunOf(v, N) /\ v.start <= f.start /\ f.end <= v.end
    BY <1>2, <1>3 DEF Within
  <2>2. \A x \in Int : v.start <= x /\ x < f.end => x \in N
    BY <1>1, <2>1 DEF RunOf
  <2>3. \A x \in Int : f.start <= x /\ x < f.end => x \in M
    BY <1>1, <2>1, <2>2
  <2>4. PICK w \in Runs(M) : w.start <= f.start /\ f.end <= w.end
    BY <1>1, <2>3, RunHolds
  <2>5. w.start \in Int /\ w.end \in Int /\ RunOf(w, M)
    BY <1>2
  <2>6. \A x \in Int : w.start <= x /\ x < f.end => x \in N
    BY <1>1, <2>4, <2>5 DEF RunOf, SameUpTo
  <2>7. ~(w.start < v.start)
    BY <1>1, <2>1, <2>5, <2>6 DEF RunOf
  <2>8. ~(v.start < w.start)
    <3> SUFFICES ASSUME v.start < w.start
                 PROVE  FALSE
      OBVIOUS
    <3>1. w.start - 1 \in N
      BY <1>1, <2>1, <2>2, <2>4, <2>5
    <3> QED
      BY <2>5, <3>1 DEF RunOf
  <2> QED
    BY <2>1, <2>4, <2>5, <2>7, <2>8 DEF Within
<1>4. ASSUME NEW w \in Runs(M), Within(f, w)
      PROVE  \E v \in Runs(N) : Within(f, v) /\ v.start = w.start
  <2>1. w.start \in Int /\ w.end \in Int /\ RunOf(w, M) /\ w.start <= f.start /\ f.end <= w.end
    BY <1>2, <1>4 DEF Within
  <2>2. \A x \in Int : w.start <= x /\ x < f.end => x \in M
    BY <1>1, <2>1 DEF RunOf
  <2>3. \A x \in Int : w.start <= x /\ x < f.end => x \in N
    BY <2>1, <2>2 DEF SameUpTo
  <2>4. PICK v \in Runs(N) : v.start <= w.start /\ f.end <= v.end
    <3>1. w.start < f.end
      BY <1>1, <2>1
    <3> QED
      BY <1>1, <2>1, <2>3, <3>1, RunHolds
  <2>5. v.start \in Int /\ v.end \in Int /\ RunOf(v, N)
    BY <1>2
  <2>6. ~(v.start < w.start)
    <3> SUFFICES ASSUME v.start < w.start
                 PROVE  FALSE
      OBVIOUS
    <3>1. w.start - 1 \in N
      BY <1>1, <2>1, <2>4, <2>5 DEF RunOf
    <3> QED
      BY <2>1, <3>1 DEF RunOf
  <2> QED
    BY <1>1, <2>1, <2>4, <2>5, <2>6 DEF Within
<1> QED
  BY <1>3, <1>4

\* The grid depends on where a window starts; its end only cuts the grid off.
LEMMA GridFromStart ==
  ASSUME NEW e \in EventTypes, NEW v \in Interval, NEW w \in Interval, v.start = w.start,
         NEW t \in Candidates(e, v), Within(Footprint(e, t), w)
  PROVE  t \in Candidates(e, w)
<1> DEFINE step == IF e.interval = None THEN e.dur ELSE e.interval
<1>1. PICK anchor : anchor = ((w.start + Bucket - 1) \div Bucket) * Bucket
  OBVIOUS
<1>2. PICK k \in 0 .. ((v.end - v.start) \div step) : t = anchor + k * step
  BY <1>1 DEF Candidates
<1>3. step \in Nat \ {0} /\ e.dur \in Nat /\ e.after \in Nat
  BY EventIs
<1>4. w.start \in Int /\ w.end \in Int /\ v.start \in Int /\ v.end \in Int /\ Bucket \in Nat \ {0}
  BY BucketsAre DEF Interval
<1> HIDE DEF step
<1>5. k \in Nat
  <2>1. (v.end - v.start) \div step \in Int
    BY <1>3, <1>4
  <2> QED
    BY <2>1
<1>6. anchor \in Int /\ w.start <= anchor
  <2>1. PICK q \in Int : q = (w.start + Bucket - 1) \div Bucket /\ w.start + Bucket - 1 < q * Bucket + Bucket
    BY <1>4
  <2>2. q * Bucket \in Int
    BY <1>4
  <2> QED
    BY <1>1, <1>4, <2>1, <2>2
<1>7. PICK j \in Int : j = k * step
  BY <1>3, <1>5
<1>8. j <= w.end - w.start
  <2>1. t \in Int /\ t + e.dur + e.after <= w.end
    <3>1. t \in Int
      BY CandidateIs DEF Aligned
    <3> QED
      BY <3>1, FootprintIs DEF Within
  <2> QED
    BY <1>2, <1>3, <1>4, <1>6, <1>7, <2>1
<1>9. k <= (w.end - w.start) \div step
  <2>1. PICK c \in Int : c = (w.end - w.start) \div step /\ w.end - w.start < c * step + step
    BY <1>3, <1>4
  <2>2. k > c => k * step >= c * step + step
    <3> SUFFICES ASSUME k > c
                 PROVE  k * step >= c * step + step
      OBVIOUS
    <3>1. (c + 1) * step <= k * step
      BY <1>3, <1>5, <2>1
    <3> QED
      BY <1>3, <3>1
  <2>3. PICK a \in Int : a = c * step
    BY <1>3
  <2> QED
    BY <1>3, <1>4, <1>5, <1>7, <1>8, <2>1, <2>2, <2>3
<1>10. k \in 0 .. ((w.end - w.start) \div step)
  <2>1. (w.end - w.start) \div step \in Int
    BY <1>3, <1>4
  <2> QED
    BY <1>5, <1>9, <2>1
<1> QED
  BY <1>1, <1>2, <1>10 DEF Candidates, step

\* The filters of a host take the same starts for both ranges.
LEMMA TakesAgree ==
  ASSUME SlotsTypeInv, NEW e \in EventTypes, NEW h \in Listed(e), DaysOnce(hours[h].zone),
         NEW narrow \in Interval, NEW wide \in Interval, Within(narrow, wide),
         NEW t, Aligned(t), narrow.start <= t, t < narrow.end, e.cap = None \/ WholeDay(e, t, narrow)
  PROVE  t \in Takes(h, e, narrow) <=> t \in Takes(h, e, wide)
<1> DEFINE f == Footprint(e, t)
           date == LocalDate(hours[h].zone, t)
<1>1. h \in Hosts /\ hours[h] # None /\ hours[h].zone \in ZoneRow
  BY ListedAre DEF HoursRow
<1>2. t \in Int /\ date \in Int
  BY <1>1, WallIs DEF Aligned
<1>3. /\ narrow.start \in Int /\ narrow.end \in Int /\ wide.start \in Int /\ wide.end \in Int
      /\ wide.start <= narrow.start /\ narrow.end <= wide.end
  BY DEF Interval, Within
<1>4. /\ f \in Interval /\ f.start \in Int /\ f.end \in Int /\ f.start < f.end
      /\ f.start = t - e.before /\ f.end = t + e.dur + e.after
      /\ Aligned(f.start) /\ Aligned(f.end)
  BY <1>2, FootprintIs DEF Interval
<1>5. ASSUME NEW range \in {narrow, wide}
      PROVE  /\ range \in Interval /\ range.start <= t /\ t < range.end
             /\ BusyRange(e, range) \in Interval /\ Within(f, BusyRange(e, range))
  <2>1. e.before \in Nat /\ e.dur \in Nat \ {0} /\ e.after \in Nat
    BY EventIs
  <2>2. range.start <= t /\ t < range.end /\ range.start \in Int /\ range.end \in Int
    BY <1>2, <1>3
  <2> QED
    BY <1>2, <1>4, <2>1, <2>2 DEF BusyRange, Within, Interval
<1> HIDE DEF f
<1>6. Clear(f, Busy(h, BusyRange(e, narrow))) <=> Clear(f, Busy(h, BusyRange(e, wide)))
  BY <1>1, <1>4, <1>5, BusyIs
<1>7. Full(e, CountListed(h, date, narrow)) <=> Full(e, CountListed(h, date, wide))
  <2>1. CASE e.cap = None
    BY <2>1 DEF Full
  <2>2. CASE WholeDay(e, t, narrow)
    <3>1. Within(DayRange(hours[h].zone, date), narrow) /\ DayRange(hours[h].zone, date) \in Interval
      BY <1>1, <1>2, <2>2, HostZoneIs, DayRangeIs DEF WholeDay, Interval
    <3>2. Within(DayRange(hours[h].zone, date), wide)
      BY <1>3, <3>1 DEF Within, Interval
    <3> HIDE DEF date
    <3>3. CountListed(h, date, narrow) = CountOnDate(h, date) /\ CountListed(h, date, wide) = CountOnDate(h, date)
      BY <1>1, <1>2, <3>1, <3>2, CountsAgree
    <3> QED
      BY <3>3
  <2> QED
    BY <2>1, <2>2
<1>8. ASSUME NEW range \in {narrow, wide}
      PROVE  t \in Takes(h, e, range) <=>
               InPolicy(e, t) /\ ~Full(e, CountListed(h, date, range)) /\ Clear(f, Busy(h, BusyRange(e, range)))
  <2>1. t \in range.start .. (range.end - 1)
    BY <1>2, <1>3, <1>5
  <2> QED
    BY <2>1 DEF Takes, f
<1> QED
  BY <1>6, <1>7, <1>8

\* A start is offered to a host by both listings or by neither.
LEMMA StartsAgree ==
  ASSUME SlotsTypeInv, NEW e \in EventTypes, \A h \in Listed(e) : DaysOnce(hours[h].zone), NEW g \in Listed(e),
         NEW narrow \in Interval, NEW wide \in Interval, Within(narrow, wide),
         NEW t \in Int, narrow.start <= t, t < narrow.end, Fresh(e, t, narrow, wide), EndsInSight(e, t, narrow),
         e.cap = None \/ WholeDay(e, t, narrow)
  PROVE  t \in StartsFor(e, narrow, g) <=> t \in StartsFor(e, wide, g)
<1> DEFINE f == Footprint(e, t)
           N == OpenTo(e, narrow, g)
           M == OpenTo(e, wide, g)
<1>1. /\ f \in Interval /\ f.start \in Int /\ f.end \in Int /\ f.start <= t /\ t < f.end
      /\ f.start < f.end
      /\ \A h \in Listed(e) : LocalDate(hours[h].zone, f.end - 1) <= LocalDate(hours[h].zone, narrow.end + Day)
  <2>1. f \in Interval /\ f.start \in Int /\ f.end \in Int /\ f.start <= t /\ t < f.end
    BY FootprintIs DEF Interval
  <2> QED
    BY <2>1 DEF EndsInSight
<1> HIDE DEF f
<1>2. N \subseteq M
  BY <1>1, SameOpenTo
<1>3. ASSUME NEW y \in Int, y <= f.start, \A x \in Int : y <= x /\ x < f.end => x \in M
      PROVE  \A x \in Int : y <= x /\ x < f.end => x \in N
  <2>1. y <= t
    BY <1>1, <1>3
  <2> QED
    BY <1>1, <1>3, <2>1, SameOpenTo
<1>4. Bounded(N) /\ Bounded(M)
  BY GridsAre
<1> HIDE DEF N, M
<1>5. /\ \A v \in Runs(N) : Within(f, v) => \E w \in Runs(M) : Within(f, w) /\ w.start = v.start
      /\ \A w \in Runs(M) : Within(f, w) => \E v \in Runs(N) : Within(f, v) /\ v.start = w.start
  <2>1. SameUpTo(f, N, M)
    BY <1>3 DEF SameUpTo
  <2> QED
    BY <1>1, <1>2, <1>4, <2>1, RunsAgree
<1>6. Runs(N) \subseteq Interval /\ Runs(M) \subseteq Interval
  BY DEF Runs
<1>7. ASSUME NEW v \in Runs(N), t \in Candidates(e, v)
      PROVE  Aligned(t) /\ \E w \in Runs(M) : t \in Candidates(e, w)
  <2>1. Aligned(t) /\ Within(f, v)
    BY <1>6, <1>7, CandidateIs DEF f
  <2>2. PICK w \in Runs(M) : Within(f, w) /\ w.start = v.start
    BY <1>5, <2>1
  <2>3. t \in Candidates(e, w)
    BY <1>6, <1>7, <2>2, GridFromStart DEF f
  <2> QED
    BY <2>1, <2>3
<1>8. ASSUME NEW w \in Runs(M), t \in Candidates(e, w)
      PROVE  Aligned(t) /\ \E v \in Runs(N) : t \in Candidates(e, v)
  <2>1. Aligned(t) /\ Within(f, w)
    BY <1>6, <1>8, CandidateIs DEF f
  <2>2. PICK v \in Runs(N) : Within(f, v) /\ v.start = w.start
    BY <1>5, <2>1
  <2>3. t \in Candidates(e, v)
    BY <1>6, <1>8, <2>2, GridFromStart DEF f
  <2> QED
    BY <2>1, <2>3
<1>9. ASSUME Aligned(t)
      PROVE  t \in Takes(g, e, narrow) <=> t \in Takes(g, e, wide)
  BY <1>9, TakesAgree
<1> QED
  BY <1>7, <1>8, <1>9 DEF StartsFor, N, M

-----------------------------------------------------------------------------
(* The theorems. *)

\* Every wall clock of every day, in every zone with one change, resolves to the
\* first instant at which the host's clock shows that time or a later one.
THEOREM WallClocksResolve ==
  Spec => []WallClockResolved
<1>1. ASSUME SlotsTypeInv
      PROVE  WallClockResolved
  <2> SUFFICES ASSUME NEW h \in Hosts, hours[h] # None, NEW s \in Starts, NEW time \in 0 .. (Day - 1)
               PROVE  LET zone == hours[h].zone
                          date == LocalDate(zone, s)
                          target == date * Day + time
                          instant == LocalTimeToInstant(zone, date, time)
                      IN  /\ WallClock(zone, instant) >= target
                          /\ \A t \in (target - 2 * Day) .. (instant - 1) : WallClock(zone, t) < target
    BY DEF WallClockResolved
  <2>1. PICK zone \in ZoneRow : zone = hours[h].zone
    BY <1>1 DEF SlotsTypeInv, HoursRow
  <2>2. PICK date \in Int : date = LocalDate(zone, s)
    BY SlotsAssumption, DayAssumption DEF ZoneRow, LocalDate, WallClock, Offset
  <2>3. PICK target \in Int : target = date * Day + time
    BY DayAssumption
  <2>4. FirstReached(zone, target, LocalTimeToInstant(zone, date, time))
    BY <2>3, WallClockFound DEF LocalTimeToInstant
  <2>5. ASSUME NEW t \in (target - 2 * Day) .. (LocalTimeToInstant(zone, date, time) - 1)
        PROVE  WallClock(zone, t) < target
    BY <2>4, DayAssumption DEF FirstReached
  <2> QED
    BY <2>1, <2>2, <2>3, <2>4, <2>5 DEF FirstReached
<1> QED
  BY <1>1, SlotsTypes, PTL

\* A slot is never offered that a click would find refused: for any schedules,
\* zones, buffers, meetings and bookings, whatever range it was listed for.
THEOREM ListedSlotsCanBeBooked ==
  Spec => []ListedCanBeBooked
<1>1. ASSUME SlotsTypeInv
      PROVE  ListedCanBeBooked
  <2> SUFFICES ASSUME NEW e \in EventTypes, e.kind # "collective" \/ Listed(e) = e.roster,
                      NEW range \in Ranges, NEW slot \in ComputeSlots(e, range),
                      e.cap = None \/ WholeDay(e, slot.start, range),
                      NEW h \in slot.hosts
               PROVE  \E H \in Accepted(e, slot.start) : h \in H
    BY DEF ListedCanBeBooked
  <2>1. range \in Interval
    BY SlotsAssumption
  <2>2. PICK f \in Listed(e) : \E t \in StartsFor(e, range, f) :
             /\ slot = [start |-> t, hosts |-> {g \in Listed(e) : t \in StartsFor(e, range, g)}]
             /\ e.kind = "collective" => slot.hosts = Listed(e)
    BY <1>1, <2>1, ListingIs
  <2>3. PICK t \in StartsFor(e, range, f) :
             /\ slot = [start |-> t, hosts |-> {g \in Listed(e) : t \in StartsFor(e, range, g)}]
             /\ e.kind = "collective" => slot.hosts = Listed(e)
    BY <2>2
  <2>4. slot.start = t /\ slot.hosts = {g \in Listed(e) : t \in StartsFor(e, range, g)}
    BY <2>3
  <2>5. ASSUME NEW g \in slot.hosts
        PROVE  /\ g \in e.roster /\ hours[g] # None /\ IsSlotStillValid(g, e, t)
               /\ IntervalToBuckets(Footprint(e, t)) \cap Locks(g) = {}
    BY <1>1, <2>1, <2>4, ListedIsValid
  <2>6. CASE e.kind = "collective"
    <3>1. slot.hosts = e.roster
      BY <2>3, <2>6
    <3>2. e.roster \in Participants(e, t)
      BY <2>5, <2>6, <3>1 DEF Participants
    <3>3. e.roster \in Accepted(e, t)
      BY <2>5, <3>1, <3>2 DEF Accepted
    <3> QED
      BY <2>4, <3>1, <3>3
  <2>7. CASE e.kind # "collective"
    <3>1. {h} \in Participants(e, t)
      BY <2>5, <2>7 DEF Participants
    <3>2. {h} \in Accepted(e, t)
      BY <2>5, <3>1 DEF Accepted
    <3> QED
      BY <2>4, <3>2
  <2> QED
    BY <2>6, <2>7
<1> QED
  BY <1>1, SlotsTypes, PTL

\* Two guests who look at ranges that overlap are shown the same times with the
\* same hosts where they overlap, whatever the schedules and what is booked: for
\* all starts but those which ListingsAgree names as outside its promise, in
\* time open since before the day looked back on, or over after the day ahead.
THEOREM ListingsAlwaysAgree ==
  Spec => []ListingsAgree
<1>1. ASSUME SlotsTypeInv
      PROVE  ListingsAgree
  <2> SUFFICES ASSUME NEW e \in EventTypes, \A h \in Listed(e) : DaysOnce(hours[h].zone),
                      NEW narrow \in Ranges, NEW wide \in Ranges, Within(narrow, wide), NEW slot,
                      narrow.start <= slot.start, slot.start < narrow.end,
                      Fresh(e, slot.start, narrow, wide), EndsInSight(e, slot.start, narrow),
                      e.cap = None \/ WholeDay(e, slot.start, narrow)
               PROVE  slot \in ComputeSlots(e, narrow) <=> slot \in ComputeSlots(e, wide)
    BY DEF ListingsAgree, Fresh
  <2>1. narrow \in Interval /\ wide \in Interval
    BY SlotsAssumption
  <2>2. ASSUME slot.start \in Int, NEW h \in Listed(e)
        PROVE  slot.start \in StartsFor(e, narrow, h) <=> slot.start \in StartsFor(e, wide, h)
    BY <1>1, <2>1, <2>2, StartsAgree
  <2>3. ASSUME NEW range \in Interval
        PROVE  slot \in ComputeSlots(e, range) <=>
                 /\ slot.start \in Int
                 /\ \E g \in Listed(e) : slot.start \in StartsFor(e, range, g)
                 /\ slot = [start |-> slot.start, hosts |-> {h \in Listed(e) : slot.start \in StartsFor(e, range, h)}]
                 /\ e.kind = "collective" => slot.hosts = Listed(e)
    <3>1. ASSUME NEW g \in Listed(e), NEW t \in StartsFor(e, range, g)
          PROVE  t \in Int
      BY <1>1, <3>1, StartIs
    <3>2. ASSUME slot \in ComputeSlots(e, range)
          PROVE  /\ slot.start \in Int
                 /\ \E g \in Listed(e) : slot.start \in StartsFor(e, range, g)
                 /\ slot = [start |-> slot.start, hosts |-> {h \in Listed(e) : slot.start \in StartsFor(e, range, h)}]
                 /\ e.kind = "collective" => slot.hosts = Listed(e)
      <4>1. PICK g \in Listed(e) : \E t \in StartsFor(e, range, g) :
                   /\ slot = [start |-> t, hosts |-> {h \in Listed(e) : t \in StartsFor(e, range, h)}]
                   /\ e.kind = "collective" => slot.hosts = Listed(e)
        BY <1>1, <3>2, ListingIs
      <4>2. PICK t \in StartsFor(e, range, g) :
                   /\ slot = [start |-> t, hosts |-> {h \in Listed(e) : t \in StartsFor(e, range, h)}]
                   /\ e.kind = "collective" => slot.hosts = Listed(e)
        BY <4>1
      <4>3. slot.start = t
        BY <4>2
      <4> QED
        BY <3>1, <4>2, <4>3
    <3>3. ASSUME NEW g \in Listed(e), slot.start \in StartsFor(e, range, g),
                 slot = [start |-> slot.start, hosts |-> {h \in Listed(e) : slot.start \in StartsFor(e, range, h)}],
                 e.kind = "collective" => slot.hosts = Listed(e)
          PROVE  slot \in ComputeSlots(e, range)
      BY <1>1, <3>3, ListingIs
    <3> QED
      BY <3>2, <3>3
  <2>4. ASSUME slot.start \in Int
        PROVE  {h \in Listed(e) : slot.start \in StartsFor(e, narrow, h)}
                 = {h \in Listed(e) : slot.start \in StartsFor(e, wide, h)}
    BY <2>2, <2>4
  <2> QED
    BY <2>1, <2>2, <2>3, <2>4
<1> QED
  BY <1>1, SlotsTypes, PTL
==============================================================================
