-------------------------- MODULE SandboxPoolProofs --------------------------
(***************************************************************************)
(* Theorems about SandboxPool for any sandboxes, sessions, sizes, limits   *)
(* and failures.                                                           *)
(***************************************************************************)
EXTENDS SandboxPool, SequenceTheorems, WellFoundedInduction, TLAPS

-----------------------------------------------------------------------------
(* What the eviction has drained is in its hands only while it is at work: *)
(* it is never at work while the pool stops.                               *)
AtWork == loop.pc \in {"evicting", "shedding"}

Shaped ==
  /\ IF AtWork THEN loop.victim \in Boxes ELSE loop.victim = None /\ loop.kept = <<>>
  /\ Stopping => loop.pc = "off"

(* A session that holds a sandbox knows which.                             *)
Seated == \A c \in Sessions : user[c].pc \in HasBox => user[c].box \in Boxes

(* What the queue, the eviction's list and its victim have of a sandbox,   *)
(* they have once.                                                         *)
Apart(p, k) == IsInjective(p) /\ IsInjective(k) /\ Range(p) \cap Range(k) = {}

Queued == Range(pool) \cup Range(loop.kept) \cup ({loop.victim} \ {None})

Held ==
  /\ Apart(pool, loop.kept) /\ loop.victim \notin Pooled
  /\ \A f, g \in Fills : fill[f] \in Boxes /\ fill[f] = fill[g] => f = g
  /\ \A c, d \in Sessions :
       user[c].pc \in HasBox /\ user[d].pc \in HasBox /\ user[c].box = user[d].box => c = d
  /\ Queued \cap Used = {} /\ Queued \cap Filling = {} /\ Used \cap Filling = {}

(* What is created, verified or about to be paused is within the grace     *)
(* period of the reaper.                                                   *)
Young == \A b \in Boxes : pauser[b] # "none" \/ b \in Filling => box[b].age = 0

IInv == TypeOK /\ Shaped /\ Seated /\ Held /\ Tracked /\ Young /\ ReaperSparesPool



-----------------------------------------------------------------------------
(* Sequences of sandboxes. *)
Boxed(s) == s \in Seq(Boxes)

LEMMA BoxedLens ==
  ASSUME NEW s, Boxed(s)
  PROVE  /\ Len(s) \in Nat /\ DOMAIN s = 1..Len(s) /\ Range(s) \subseteq Boxes
         /\ \A i \in 1..Len(s) : s[i] \in Boxes /\ s[i] \in Range(s)
         /\ \A x \in Range(s) : \E i \in 1..Len(s) : x = s[i]
  <1>1. Len(s) \in Nat /\ DOMAIN s = 1..Len(s) /\ \A i \in 1..Len(s) : s[i] \in Boxes
    BY LenProperties, ElementOfSeq DEF Boxed
  <1>2. QED
    BY <1>1 DEF Range

LEMMA CatDoes ==
  ASSUME NEW s, NEW t, Boxed(s), Boxed(t)
  PROVE  /\ Boxed(s \o t) /\ Len(s \o t) = Len(s) + Len(t)
         /\ Range(s \o t) = Range(s) \cup Range(t)
         /\ Apart(s, t) <=> IsInjective(s \o t)
  <1> DEFINE u == s \o t
  <1>1. /\ Boxed(u) /\ Len(u) = Len(s) + Len(t)
        /\ \A i \in 1..Len(s) : u[i] = s[i]
        /\ \A i \in 1..Len(t) : u[Len(s) + i] = t[i]
    BY ConcatProperties DEF Boxed
  <1> HIDE DEF u
  <1>2. /\ Len(s) \in Nat /\ Len(t) \in Nat /\ Len(u) \in Nat
        /\ DOMAIN s = 1..Len(s) /\ DOMAIN t = 1..Len(t) /\ DOMAIN u = 1..Len(u)
    BY <1>1, BoxedLens
  <1>3. \A i \in 1..Len(u) : \/ i \in 1..Len(s) /\ u[i] = s[i]
                             \/ i - Len(s) \in 1..Len(t) /\ u[i] = t[i - Len(s)]
    <2>1. ASSUME NEW i \in 1..Len(u), i > Len(s)
          PROVE  i - Len(s) \in 1..Len(t) /\ u[i] = t[i - Len(s)]
      <3>1. i - Len(s) \in 1..Len(t) /\ Len(s) + (i - Len(s)) = i
        BY <1>1, <1>2, <2>1
      <3>2. QED
        BY <1>1, <3>1
    <2>2. QED
      BY <1>1, <1>2, <2>1
  <1>4. Range(u) = Range(s) \cup Range(t)
    <2>1. ASSUME NEW x \in Range(s) PROVE x \in Range(u)
      BY <1>1, <1>2, <2>1 DEF Range
    <2>2. ASSUME NEW x \in Range(t) PROVE x \in Range(u)
      <3>1. PICK i \in 1..Len(t) : x = t[i]
        BY <1>2, <2>2 DEF Range
      <3>2. Len(s) + i \in 1..Len(u) /\ u[Len(s) + i] = x
        BY <1>1, <1>2, <3>1
      <3>3. QED
        BY <1>2, <3>2 DEF Range
    <2>3. ASSUME NEW x \in Range(u) PROVE x \in Range(s) \cup Range(t)
      BY <1>2, <1>3, <2>3 DEF Range
    <2>4. QED
      BY <2>1, <2>2, <2>3
  <1>5. ASSUME IsInjective(u) PROVE Apart(s, t)
    <2>1. ASSUME NEW i \in 1..Len(s), NEW j \in 1..Len(s), s[i] = s[j]
          PROVE  i = j
      BY <1>1, <1>2, <1>5, <2>1 DEF IsInjective
    <2>2. ASSUME NEW i \in 1..Len(t), NEW j \in 1..Len(t), t[i] = t[j]
          PROVE  i = j
      <3>1. Len(s) + i \in 1..Len(u) /\ Len(s) + j \in 1..Len(u)
        BY <1>1, <1>2
      <3>2. QED
        BY <1>1, <1>2, <1>5, <2>2, <3>1 DEF IsInjective
    <2>3. ASSUME NEW i \in 1..Len(s), NEW j \in 1..Len(t), s[i] = t[j]
          PROVE  FALSE
      <3>1. i \in 1..Len(u) /\ Len(s) + j \in 1..Len(u) /\ i # Len(s) + j
        BY <1>1, <1>2
      <3>2. QED
        BY <1>1, <1>2, <1>5, <2>3, <3>1 DEF IsInjective
    <2>4. QED
      BY <1>2, <2>1, <2>2, <2>3 DEF Apart, IsInjective, Range
  <1>6. ASSUME Apart(s, t) PROVE IsInjective(u)
    <2>1. ASSUME NEW i \in 1..Len(u), NEW j \in 1..Len(u), u[i] = u[j]
          PROVE  i = j
      <3>1. CASE i \in 1..Len(s) /\ u[i] = s[i] /\ j \in 1..Len(s) /\ u[j] = s[j]
        BY <1>2, <1>6, <2>1, <3>1 DEF Apart, IsInjective
      <3>2. CASE /\ i - Len(s) \in 1..Len(t) /\ u[i] = t[i - Len(s)]
                 /\ j - Len(s) \in 1..Len(t) /\ u[j] = t[j - Len(s)]
        <4>1. i - Len(s) = j - Len(s)
          BY <1>2, <1>6, <2>1, <3>2 DEF Apart, IsInjective
        <4>2. QED
          BY <1>2, <4>1
      <3>3. CASE /\ i \in 1..Len(s) /\ u[i] = s[i]
                 /\ j - Len(s) \in 1..Len(t) /\ u[j] = t[j - Len(s)]
        BY <1>2, <1>6, <2>1, <3>3 DEF Apart, Range
      <3>4. CASE /\ j \in 1..Len(s) /\ u[j] = s[j]
                 /\ i - Len(s) \in 1..Len(t) /\ u[i] = t[i - Len(s)]
        BY <1>2, <1>6, <2>1, <3>4 DEF Apart, Range
      <3>5. QED
        BY <1>3, <3>1, <3>2, <3>3, <3>4
    <2>2. QED
      BY <1>2, <2>1 DEF IsInjective
  <1>7. QED
    BY <1>1, <1>4, <1>5, <1>6 DEF u

LEMMA TailDoes ==
  ASSUME NEW s, Boxed(s), s # <<>>
  PROVE  /\ Boxed(Tail(s)) /\ Len(Tail(s)) <= Len(s) /\ Head(s) \in Range(s)
         /\ Head(s) \in Boxes /\ Range(Tail(s)) \subseteq Range(s)
         /\ IsInjective(s) => IsInjective(Tail(s)) /\ Head(s) \notin Range(Tail(s))
  <1> DEFINE t == Tail(s)
  <1>1. /\ Head(s) = s[1] /\ Boxed(t) /\ Len(t) = Len(s) - 1 /\ Len(s) # 0
        /\ \A i \in 1..Len(t) : t[i] = s[i + 1]
    BY HeadTailProperties, EmptySeq DEF Boxed
  <1> HIDE DEF t
  <1>2. /\ Len(s) \in Nat /\ Len(t) \in Nat /\ DOMAIN s = 1..Len(s) /\ DOMAIN t = 1..Len(t)
    BY <1>1, BoxedLens
  <1>3. 1 \in 1..Len(s) /\ \A i \in 1..Len(t) : i + 1 \in 1..Len(s) /\ i + 1 # 1
    BY <1>1, <1>2
  <1>4. Head(s) \in Range(s) /\ Range(t) \subseteq Range(s)
    BY <1>1, <1>2, <1>3 DEF Range
  <1>5. ASSUME IsInjective(s)
        PROVE  IsInjective(t) /\ Head(s) \notin Range(t)
    <2>1. ASSUME NEW i \in 1..Len(t), NEW j \in 1..Len(t), t[i] = t[j]
          PROVE  i = j
      <3>1. i + 1 = j + 1
        BY <1>1, <1>2, <1>3, <1>5, <2>1 DEF IsInjective
      <3>2. QED
        BY <1>2, <3>1
    <2>2. \A i \in 1..Len(t) : t[i] # s[1]
      BY <1>1, <1>2, <1>3, <1>5 DEF IsInjective
    <2>3. QED
      BY <1>1, <1>2, <2>1, <2>2 DEF IsInjective, Range
  <1>6. QED
    BY <1>1, <1>2, <1>4, <1>5, BoxedLens DEF t

LEMMA AppendDoes ==
  ASSUME NEW s, Boxed(s), NEW b \in Boxes
  PROVE  /\ Boxed(Append(s, b)) /\ Len(Append(s, b)) = Len(s) + 1
         /\ Range(Append(s, b)) = Range(s) \cup {b}
         /\ IsInjective(s) /\ b \notin Range(s) => IsInjective(Append(s, b))
  <1> DEFINE t == Append(s, b)
  <1>1. /\ Boxed(t) /\ Len(t) = Len(s) + 1 /\ t[Len(s) + 1] = b
        /\ \A i \in 1..Len(s) : t[i] = s[i]
    BY AppendProperties DEF Boxed
  <1> HIDE DEF t
  <1>2. /\ Len(s) \in Nat /\ Len(t) \in Nat /\ DOMAIN s = 1..Len(s) /\ DOMAIN t = 1..Len(t)
    BY <1>1, BoxedLens
  <1>3. \A i \in 1..Len(t) : i \in 1..Len(s) \/ i = Len(s) + 1
    BY <1>1, <1>2
  <1>4. \A i \in 1..Len(s) : i \in 1..Len(t)
    BY <1>1, <1>2
  <1>5. Len(s) + 1 \in 1..Len(t)
    BY <1>1, <1>2
  <1>6. Range(t) = Range(s) \cup {b}
    BY <1>1, <1>2, <1>3, <1>4, <1>5 DEF Range
  <1>7. ASSUME IsInjective(s), b \notin Range(s)
        PROVE  IsInjective(t)
    BY <1>1, <1>2, <1>3, <1>7 DEF IsInjective, Range
  <1>8. QED
    BY <1>1, <1>6, <1>7 DEF t

(* A piece of a sequence, and two pieces that do not overlap. *)
LEMMA PieceDoes ==
  ASSUME NEW s, Boxed(s), NEW m \in 1..(Len(s) + 1), NEW n \in 0..Len(s)
  PROVE  LET t == SubSeq(s, m, n) IN
         /\ Boxed(t) /\ Len(t) = (IF m <= n THEN n - m + 1 ELSE 0)
         /\ Range(t) \subseteq Range(s)
         /\ \A x \in Range(t) : \E i \in m..n : i \in 1..Len(s) /\ x = s[i]
         /\ IsInjective(s) => IsInjective(t)
  <1> DEFINE t == SubSeq(s, m, n)
  <1>1. Len(s) \in Nat /\ DOMAIN s = 1..Len(s) /\ s \in Seq(Boxes)
    BY BoxedLens DEF Boxed
  <1>2. \A i \in m..n : i \in 1..Len(s) /\ s[i] \in Boxes
    BY <1>1, BoxedLens
  <1>3. m \in Int /\ n \in Int
    BY <1>1
  <1>4. /\ t \in Seq(Boxes) /\ Len(t) = (IF m <= n THEN n - m + 1 ELSE 0)
        /\ \A i \in 1..Len(t) : t[i] = s[m + i - 1]
    BY <1>1, <1>2, <1>3, SubSeqProperties
  <1> HIDE DEF t
  <1>5. Len(t) \in Nat /\ DOMAIN t = 1..Len(t)
    BY <1>4, LenProperties
  <1>6. \A i \in 1..Len(t) : m + i - 1 \in m..n
    BY <1>1, <1>4, <1>5
  <1>7. \A x \in Range(t) : \E i \in m..n : i \in 1..Len(s) /\ x = s[i]
    BY <1>2, <1>4, <1>5, <1>6 DEF Range
  <1>8. Range(t) \subseteq Range(s)
    BY <1>1, <1>7 DEF Range
  <1>9. ASSUME IsInjective(s)
        PROVE  IsInjective(t)
    <2>1. ASSUME NEW i \in 1..Len(t), NEW j \in 1..Len(t), t[i] = t[j]
          PROVE  i = j
      <3>1. m + i - 1 = m + j - 1
        BY <1>1, <1>2, <1>4, <1>6, <1>9, <2>1 DEF IsInjective
      <3>2. QED
        BY <1>1, <1>5, <3>1
    <2>2. QED
      BY <1>5, <2>1 DEF IsInjective
  <1>10. QED
    BY <1>4, <1>7, <1>8, <1>9 DEF Boxed, t

LEMMA CutDoes ==
  ASSUME NEW s, Boxed(s), IsInjective(s), NEW i \in 1..Len(s)
  PROVE  LET l == SubSeq(s, 1, i - 1)  r == SubSeq(s, i + 1, Len(s)) IN
         /\ Boxed(l) /\ Boxed(r) /\ Len(r) <= Len(s) /\ Len(l) <= Len(s)
         /\ s[i] \in Boxes /\ s[i] \in Range(s)
         /\ Range(l) \subseteq Range(s) /\ Range(r) \subseteq Range(s)
         /\ Apart(l, r) /\ s[i] \notin Range(l) \cup Range(r)
  <1> DEFINE l == SubSeq(s, 1, i - 1)
             r == SubSeq(s, i + 1, Len(s))
  <1>1. Len(s) \in Nat /\ DOMAIN s = 1..Len(s) /\ s[i] \in Boxes /\ s[i] \in Range(s)
    BY BoxedLens
  <1>2. /\ 1 \in 1..(Len(s) + 1) /\ i - 1 \in 0..Len(s)
        /\ i + 1 \in 1..(Len(s) + 1) /\ Len(s) \in 0..Len(s)
    BY <1>1
  <1>3. /\ Boxed(l) /\ Len(l) <= Len(s) /\ Range(l) \subseteq Range(s) /\ IsInjective(l)
        /\ \A x \in Range(l) : \E j \in 1..(i - 1) : j \in 1..Len(s) /\ x = s[j]
    BY <1>1, <1>2, PieceDoes
  <1>4. /\ Boxed(r) /\ Len(r) <= Len(s) /\ Range(r) \subseteq Range(s) /\ IsInjective(r)
        /\ \A x \in Range(r) : \E j \in (i + 1)..Len(s) : j \in 1..Len(s) /\ x = s[j]
    <2> DEFINE m == i + 1
               n == Len(s)
               t == SubSeq(s, m, n)
    <2>1. m \in 1..(n + 1) /\ n \in 0..n /\ n \in Nat
      BY <1>1, <1>2
    <2>2. t = r
      OBVIOUS
    <2> HIDE DEF m, n
    <2>3. /\ Boxed(t) /\ Range(t) \subseteq Range(s) /\ IsInjective(t)
          /\ Len(t) = (IF m <= n THEN n - m + 1 ELSE 0)
          /\ \A x \in Range(t) : \E j \in m..n : j \in 1..n /\ x = s[j]
      BY <2>1, PieceDoes DEF n
    <2>4. Len(t) <= n
      BY <2>1, <2>3
    <2>5. QED
      BY <2>2, <2>3, <2>4 DEF m, n
  <1> HIDE DEF l, r
  <1>5. Range(l) \cap Range(r) = {}
    BY <1>1, <1>3, <1>4 DEF IsInjective
  <1>6. s[i] \notin Range(l) \cup Range(r)
    BY <1>1, <1>3, <1>4 DEF IsInjective
  <1>7. QED
    BY <1>1, <1>3, <1>4, <1>5, <1>6 DEF Apart, l, r


LEMMA Nobody == Boxed(<<>>) /\ Len(<<>>) = 0 /\ Range(<<>>) = {} /\ IsInjective(<<>>)
  BY DEF Boxed, Range, IsInjective

LEMMA LeastExists ==
  ASSUME NEW I \in SUBSET Nat, I # {}
  PROVE  \E x \in I : \A y \in I : x <= y
  <1>1. PICK x \in I : \A y \in I : ~(<<y, x>> \in OpToRel(<, Nat))
    BY WFMin, NatLessThanWellFounded
  <1>2. \A y \in I : ~(y < x)
    BY <1>1 DEF OpToRel
  <1>3. QED
    BY <1>2

LEMMA PoolTyped ==
  ASSUME TypeOK
  PROVE  /\ Boxed(pool) /\ Boxed(loop.kept) /\ Len(pool) \in Nat /\ Len(pool) <= MaxSize
         /\ Pooled \subseteq Boxes /\ Queued \subseteq Boxes
         /\ loop.victim \in Boxes \cup {None} /\ loop.stale \subseteq Boxes
  <1>1. Boxed(pool) /\ Boxed(loop.kept)
    BY DEF TypeOK, Boxed
  <1>2. QED
    BY <1>1, BoxedLens DEF TypeOK, Pooled, Queued

-----------------------------------------------------------------------------
(* Eviction: from where it was interrupted to where it is interrupted next, *)
(* or to the end of its round.                                              *)
LoopType ==
  [pc : {"sleep", "evicting", "shedding", "warming", "off"},
   stale : SUBSET Boxes, kept : Seq(Boxes), victim : Boxes \cup {None}]

Interrupted ==
  /\ loop'.pc \in {"evicting", "shedding"} /\ loop'.victim \in Boxes
  /\ fill' = fill /\ reaper' = reaper

RoundOver(known) ==
  /\ loop'.pc = "warming" /\ loop'.kept = <<>> /\ loop'.victim = None
  /\ fill' = [fill EXCEPT !["loop"] = "check"]
  /\ \/ reaper' = reaper
     \/ reaper' = [pc |-> "asking",
                   cands |-> {b \in Boxes : Exists(b) /\ box[b].age > 0} \ known]

Sorted(q, known) ==
  /\ Boxed(pool') /\ Len(pool') <= MaxSize /\ loop' \in LoopType
  /\ Apart(pool', loop'.kept) /\ loop'.victim \notin Pooled'
  /\ Queued' \subseteq q
  /\ Interrupted \/ RoundOver(known)

LEMMA WarmsDoes ==
  ASSUME NEW all, Boxed(all), IsInjective(all), Len(all) <= MaxSize, NEW known,
         Warms(all, known)
  PROVE  Sorted(Range(all), known)
  <1>1. /\ pool' = all /\ loop' = [pc |-> "warming", stale |-> {}, kept |-> <<>>,
                                   victim |-> None]
    BY DEF Warms, Asleep
  <1>2. loop' \in LoopType
    BY <1>1, Nobody DEF LoopType, Boxed
  <1>3. Range(loop'.kept) = {} /\ loop'.victim = None /\ IsInjective(loop'.kept)
    BY <1>1, Nobody
  <1>4. None \notin Range(all)
    BY BoxedLens, NamesAssumption
  <1>5. RoundOver(known)
    BY <1>1 DEF Warms, RoundOver
  <1>6. QED
    BY <1>1, <1>2, <1>3, <1>4, <1>5 DEF Sorted, Apart, Pooled, Queued

LEMMA RequeueDoes ==
  ASSUME NEW all, Boxed(all), IsInjective(all), NEW known, Requeue(all, known)
  PROVE  Sorted(Range(all), known)
  <1>1. CASE Len(all) <= MaxSize
    BY <1>1, WarmsDoes DEF Requeue
  <1>2. CASE ~(Len(all) <= MaxSize)
    <2> DEFINE n == MaxSize + 1
               l == SubSeq(all, 1, n - 1)
               r == SubSeq(all, n + 1, Len(all))
    <2>1. Len(all) \in Nat /\ MaxSize \in Nat
      BY BoxedLens, SizesAssumption
    <2>2. n \in 1..Len(all) /\ n - 1 = MaxSize /\ n + 1 = MaxSize + 2
      BY <1>2, <2>1
    <2>3. /\ pool' = l
          /\ loop' = [pc |-> "shedding", stale |-> {}, kept |-> r, victim |-> all[n]]
          /\ fill' = fill /\ reaper' = reaper
      BY <1>2, <2>2 DEF Requeue, Asleep
    <2>4. Len(l) = MaxSize
      <3>1. 1 \in 1..(Len(all) + 1) /\ MaxSize \in 0..Len(all)
        BY <1>2, <2>1
      <3>2. Len(SubSeq(all, 1, MaxSize)) = IF 1 <= MaxSize THEN MaxSize - 1 + 1 ELSE 0
        BY <3>1, PieceDoes
      <3>3. QED
        BY <2>1, <2>2, <3>2
    <2> HIDE DEF n, l, r
    <2>5. /\ Boxed(l) /\ Boxed(r) /\ all[n] \in Boxes /\ all[n] \in Range(all)
          /\ Range(l) \subseteq Range(all) /\ Range(r) \subseteq Range(all)
          /\ Apart(l, r) /\ all[n] \notin Range(l) \cup Range(r)
      BY <2>2, CutDoes DEF l, r
    <2>6. loop' \in LoopType
      BY <2>3, <2>5 DEF LoopType, Boxed
    <2>7. loop'.kept = r /\ loop'.victim = all[n] /\ loop'.pc = "shedding"
      BY <2>3
    <2>8. Interrupted
      BY <2>3, <2>5 DEF Interrupted
    <2>9. pool' = l /\ Len(pool') <= MaxSize
      BY <2>1, <2>3, <2>4
    <2>10. QED
      BY <2>5, <2>6, <2>7, <2>8, <2>9 DEF Sorted, Pooled, Queued
  <1>3. QED
    BY <1>1, <1>2

LEMMA DrainDoes ==
  ASSUME TypeOK, NEW kept, Boxed(kept), Apart(pool, kept), NEW stale \in SUBSET Boxes,
         NEW known, Drain(kept, stale, known)
  PROVE  Sorted(Range(pool) \cup Range(kept), known)
  <1> DEFINE i == SelectInSeq(pool, LAMBDA b : b \in stale)
  <1>1. Boxed(pool) /\ Len(pool) \in Nat /\ Len(pool) <= MaxSize
    BY PoolTyped
  <1>2. i = 0 \/ i \in 1..Len(pool)
    <2> DEFINE I == {j \in 1..Len(pool) : pool[j] \in stale}
    <2>1. i = IF I # {} THEN Min(I) ELSE 0
      BY DEF SelectInSeq
    <2>2. I \in SUBSET Nat
      BY <1>1
    <2>3. ASSUME I # {}
          PROVE  Min(I) \in I
      <3>1. \E x \in I : \A y \in I : x <= y
        BY <2>2, <2>3, LeastExists
      <3>2. QED
        BY <3>1 DEF Min
    <2>4. QED
      BY <2>1, <2>3
  <1>3. \/ i = 0 /\ Requeue(kept \o pool, known)
        \/ /\ i # 0
           /\ pool' = SubSeq(pool, i + 1, Len(pool))
           /\ loop' = [pc |-> "evicting", stale |-> stale, victim |-> pool[i],
                       kept |-> kept \o SubSeq(pool, 1, i - 1)]
           /\ UNCHANGED <<fill, reaper>>
    BY DEF Drain
  <1> HIDE DEF i
  <1>4. CASE i = 0
    <2>1. /\ Boxed(kept \o pool) /\ IsInjective(kept \o pool)
          /\ Range(kept \o pool) = Range(pool) \cup Range(kept)
      BY <1>1, CatDoes DEF Apart
    <2>2. QED
      BY <1>3, <1>4, <2>1, RequeueDoes
  <1>5. CASE i \in 1..Len(pool)
    <2> DEFINE l == SubSeq(pool, 1, i - 1)
               r == SubSeq(pool, i + 1, Len(pool))
    <2>1. i # 0
      BY <1>5
    <2>2. /\ pool' = r
          /\ loop' = [pc |-> "evicting", stale |-> stale, victim |-> pool[i],
                      kept |-> kept \o l]
          /\ fill' = fill /\ reaper' = reaper
      BY <1>3, <2>1
    <2>3. /\ Boxed(l) /\ Boxed(r) /\ Len(r) <= Len(pool) /\ pool[i] \in Boxes
          /\ pool[i] \in Range(pool)
          /\ Range(l) \subseteq Range(pool) /\ Range(r) \subseteq Range(pool)
          /\ Apart(l, r) /\ pool[i] \notin Range(l) \cup Range(r)
      BY <1>1, <1>5, CutDoes DEF Apart
    <2> HIDE DEF l, r
    <2>4. Apart(kept, l)
      BY <2>3 DEF Apart
    <2>5. /\ Boxed(kept \o l) /\ IsInjective(kept \o l)
          /\ Range(kept \o l) = Range(kept) \cup Range(l)
      BY <2>3, <2>4, CatDoes
    <2>6. loop' \in LoopType
      BY <2>2, <2>3, <2>5 DEF LoopType, Boxed
    <2>7. loop'.kept = kept \o l /\ loop'.victim = pool[i] /\ loop'.pc = "evicting"
      BY <2>2
    <2>8. Interrupted
      BY <2>2, <2>3, <2>7 DEF Interrupted
    <2>9. Apart(pool', loop'.kept)
      BY <2>2, <2>3, <2>5, <2>7 DEF Apart
    <2>10. Len(pool') <= MaxSize
      BY <1>1, <2>2, <2>3, BoxedLens, SizesAssumption
    <2>11. loop'.victim \notin Pooled' /\ Queued' \subseteq Range(pool) \cup Range(kept)
      BY <2>2, <2>3, <2>5, <2>7 DEF Pooled, Queued, Apart
    <2>12. QED
      BY <2>2, <2>3, <2>6, <2>8, <2>9, <2>10, <2>11 DEF Sorted
  <1>6. QED
    BY <1>2, <1>4, <1>5


-----------------------------------------------------------------------------
(* Who has what. *)
Hands == Shaped /\ Seated /\ Held
Seen  == Tracked /\ Young /\ ReaperSparesPool

LEMMA InvParts ==
  (IInv <=> TypeOK /\ Hands /\ Seen) /\ (IInv' <=> TypeOK' /\ Hands' /\ Seen')
  BY DEF IInv, Hands, Seen

LEMMA UsedBy ==
  ASSUME NEW b
  PROVE  b \in Used <=> \E c \in Sessions : user[c].pc \in HasBox /\ user[c].box = b
  BY DEF Used

LEMMA FilledBy ==
  ASSUME NEW b
  PROVE  b \in Filling <=> b \in Boxes /\ \E f \in Fills : fill[f] = b
  BY DEF Filling

\* nobody gets a sandbox in this step
NoGain ==
  /\ \A f \in Fills : fill'[f] \in Boxes => fill'[f] = fill[f]
  /\ \A c \in Sessions : user'[c].pc \in HasBox =>
       user[c].pc \in HasBox /\ user'[c].box = user[c].box

LEMMA NoGainLess ==
  ASSUME NoGain
  PROVE  Filling' \subseteq Filling /\ Used' \subseteq Used
  <1>1. ASSUME NEW b \in Filling'
        PROVE  b \in Filling
    <2>1. b \in Boxes /\ \E f \in Fills : fill'[f] = b
      BY <1>1 DEF Filling
    <2>2. QED
      BY <2>1, FilledBy DEF NoGain
  <1>2. ASSUME NEW b \in Used'
        PROVE  b \in Used
    <2>1. \E c \in Sessions : user'[c].pc \in HasBox /\ user'[c].box = b
      BY <1>2 DEF Used
    <2>2. QED
      BY <2>1, UsedBy DEF NoGain
  <1>3. QED
    BY <1>1, <1>2

LEMMA HandsShrink ==
  ASSUME Hands, NoGain, Shaped', Apart(pool', loop'.kept), loop'.victim \notin Pooled',
         Queued' \subseteq Queued
  PROVE  Hands'
  <1>1. Seated'
    BY DEF Hands, Seated, NoGain
  <1>2. Held'
    <2>1. Queued' \cap Used' = {} /\ Queued' \cap Filling' = {} /\ Used' \cap Filling' = {}
      BY NoGainLess DEF Hands, Held
    <2>2. \A f, g \in Fills : fill'[f] \in Boxes /\ fill'[f] = fill'[g] => f = g
      BY DEF Hands, Held, NoGain
    <2>3. \A c, d \in Sessions :
            user'[c].pc \in HasBox /\ user'[d].pc \in HasBox /\ user'[c].box = user'[d].box
              => c = d
      BY DEF Hands, Held, NoGain
    <2>4. QED
      BY <2>1, <2>2, <2>3 DEF Held
  <1>3. QED
    BY <1>1, <1>2 DEF Hands

LEMMA HandsStay ==
  ASSUME Hands, NoGain, UNCHANGED <<pool, loop, phase>>
  PROVE  Hands'
  <1>1. Pooled' = Pooled /\ Queued' = Queued
    BY DEF Pooled, Queued
  <1>2. Shaped'
    BY DEF Hands, Shaped, AtWork, Stopping
  <1>3. QED
    BY <1>1, <1>2, HandsShrink DEF Hands, Held

\* what is seen stays seen
StillSeen ==
  /\ Pooled' \subseteq Pooled /\ Filling' \subseteq Filling
  /\ reaper'.cands \subseteq reaper.cands
  /\ \A b \in Pooled' : b \in stamps \/ pauser[b] = "pausing" =>
                        b \in stamps' \/ pauser'[b] = "pausing"
  /\ \A b \in Boxes :
       /\ pauser'[b] # "none" => pauser[b] # "none"
       /\ pauser[b] # "none" \/ b \in Filling => box'[b].age \in {0, box[b].age}

LEMMA SeenStays ==
  ASSUME Seen, StillSeen
  PROVE  Seen'
  <1>1. Tracked'
    BY DEF Seen, Tracked, StillSeen
  <1>2. Young'
    BY DEF Seen, Young, StillSeen
  <1>3. ReaperSparesPool'
    BY DEF Seen, ReaperSparesPool, StillSeen
  <1>4. QED
    BY <1>1, <1>2, <1>3 DEF Seen

LEMMA FillingNames ==
  ASSUME TypeOK
  PROVE  "idle" \notin Boxes /\ "check" \notin Boxes /\ None \notin Boxes
         /\ "loop" \in Fills /\ Tasks \subseteq Fills
  BY NamesAssumption DEF Fills

-----------------------------------------------------------------------------
(* Time, and the containers. *)
Container == [state : {"gone", "running", "paused", "exited"}, age : 0..2]

\* only container b changes
BoxOnly(b) ==
  /\ box' \in [Boxes -> Container]
  /\ \A d \in Boxes : d # b => box'[d] = box[d]

LEMMA BoxChanged ==
  ASSUME TypeOK, NEW b \in Boxes, NEW x \in Container, box' = [box EXCEPT ![b] = x]
  PROVE  BoxOnly(b) /\ box'[b] = x
  BY DEF TypeOK, Container, BoxOnly

LEMMA StateChanged ==
  ASSUME TypeOK, NEW b \in Boxes, NEW x \in {"gone", "running", "paused", "exited"},
         box' = [box EXCEPT ![b].state = x]
  PROVE  /\ BoxOnly(b) /\ box'[b].state = x
         /\ \A d \in Boxes : box'[d].age = box[d].age
  <1> DEFINE y == [box[b] EXCEPT !.state = x]
  <1>1. box[b] \in Container
    BY DEF TypeOK, Container
  <1>2. y \in Container /\ y.state = x /\ y.age = box[b].age
    BY <1>1 DEF Container
  <1>3. box' = [box EXCEPT ![b] = y]
    OBVIOUS
  <1> HIDE DEF y
  <1>4. BoxOnly(b) /\ box'[b] = y
    BY <1>2, <1>3, BoxChanged
  <1>5. QED
    BY <1>2, <1>4 DEF BoxOnly

LEMMA Removed ==
  ASSUME TypeOK, NEW b \in Boxes, box' = [box EXCEPT ![b] = Gone]
  PROVE  /\ BoxOnly(b) /\ box'[b] = Gone
         /\ \A d \in Boxes : box'[d].age \in {0, box[d].age}
  <1>1. Gone \in Container /\ Gone.age = 0
    BY DEF Gone, Container
  <1>2. BoxOnly(b) /\ box'[b] = Gone
    BY <1>1, BoxChanged
  <1>3. QED
    BY <1>1, <1>2 DEF BoxOnly

LEMMA Made ==
  ASSUME TypeOK, NEW b \in Boxes, box' = [box EXCEPT ![b] = Running]
  PROVE  /\ BoxOnly(b) /\ box'[b] = Running
         /\ \A d \in Boxes : box'[d].age \in {0, box[d].age}
  <1>1. Running \in Container /\ Running.age = 0
    BY DEF Running, Container
  <1>2. BoxOnly(b) /\ box'[b] = Running
    BY <1>1, BoxChanged
  <1>3. QED
    BY <1>1, <1>2 DEF BoxOnly

LEMMA Aged ==
  ASSUME TypeOK, NEW b \in Boxes, Ages(b)
  PROVE  BoxOnly(b)
  <1> DEFINE y == [box[b] EXCEPT !.age = @ + 1]
  <1>1. box[b] \in Container /\ box[b].age < 2
    BY DEF TypeOK, Container, Ages
  <1>2. y \in Container
    BY <1>1 DEF Container
  <1>3. box' = [box EXCEPT ![b] = y]
    BY DEF Ages
  <1> HIDE DEF y
  <1>4. QED
    BY <1>2, <1>3, BoxChanged

LEMMA AgesKeeps ==
  ASSUME IInv, NEW b \in Boxes, Ages(b) \/ Exits(b)
  PROVE  IInv'
  <1>1. TypeOK /\ Hands /\ Seen
    BY InvParts
  <1>2. UNCHANGED <<poolVars, fails, taskVars, user>>
    BY DEF Ages, Exits, breakerVars
  <1>3. TypeOK'
    <2>1. box' \in [Boxes -> Container]
      <3>1. Ages(b) => box' \in [Boxes -> Container]
        BY <1>1, Aged DEF BoxOnly
      <3>2. Exits(b) => box' \in [Boxes -> Container]
        BY <1>1, StateChanged DEF Exits, BoxOnly
      <3>3. QED
        BY <3>1, <3>2
    <2>2. faults' \in 0..MaxFaults
      BY <1>1, SizesAssumption DEF TypeOK, Ages, Exits, Fault
    <2>3. breaker' \in {"closed", "open", "due"} /\ spin' \in BOOLEAN
      BY <1>1 DEF TypeOK, Ages, Exits, breakerVars
    <2>4. QED
      BY <1>1, <1>2, <2>1, <2>2, <2>3 DEF TypeOK, Container, poolVars, taskVars
  <1>4. Hands'
    BY <1>1, <1>2, HandsStay DEF NoGain, poolVars, taskVars
  <1>5. StillSeen
    <2>1. \A d \in Boxes : pauser[d] # "none" \/ d \in Filling =>
            box'[d].age \in {0, box[d].age}
      <3>1. ASSUME Ages(b), NEW d \in Boxes, pauser[d] # "none" \/ d \in Filling
            PROVE  box'[d].age = box[d].age
        BY <1>1, <3>1, Aged DEF BoxOnly, Ages
      <3>2. Exits(b) => \A d \in Boxes : box'[d].age = box[d].age
        BY <1>1, StateChanged DEF Exits
      <3>3. QED
        BY <3>1, <3>2
    <2>2. QED
      BY <1>2, <2>1 DEF StillSeen, Pooled, Filling, poolVars, taskVars
  <1>6. QED
    BY <1>1, <1>3, <1>4, <1>5, SeenStays, InvParts

LEMMA BackoffKeeps ==
  ASSUME IInv, BackoffOver
  PROVE  IInv'
  <1>1. TypeOK /\ Hands /\ Seen
    BY InvParts
  <1>2. UNCHANGED <<box, phase, pool, stamps, pausedIds, fails, fill, pauser, loop, reaper,
                    user, faults>>
    BY DEF BackoffOver, poolVars, taskVars
  <1>3. TypeOK'
    BY <1>1, <1>2 DEF TypeOK, BackoffOver
  <1>4. Hands'
    BY <1>1, <1>2, HandsStay DEF NoGain
  <1>5. StillSeen
    BY <1>2 DEF StillSeen, Pooled, Filling
  <1>6. QED
    BY <1>1, <1>3, <1>4, <1>5, SeenStays, InvParts

LEMMA PauseKeeps ==
  ASSUME IInv, NEW b \in Boxes, PauseStart(b) \/ PauseDone(b)
  PROVE  IInv'
  <1>1. TypeOK /\ Hands /\ Seen
    BY InvParts
  <1>2. UNCHANGED <<phase, pool, breakerVars, fill, loop, reaper, user>>
    BY DEF PauseStart, PauseDone
  <1>6. \/ box' = box
        \/ BoxOnly(b) /\ \A d \in Boxes : box'[d].age = box[d].age
    <2>1. \/ box' = box
          \/ \E x \in {"gone", "running", "paused", "exited"} :
               box' = [box EXCEPT ![b].state = x]
      <3>1. box[b].state \in {"gone", "running", "paused", "exited"}
        BY <1>1 DEF TypeOK
      <3>2. QED
        BY <3>1 DEF PauseStart, PauseDone
    <2>2. QED
      BY <1>1, <2>1, StateChanged
  <1>3. TypeOK'
    <2>1. box' \in [Boxes -> Container]
      BY <1>1, <1>6 DEF TypeOK, Container, BoxOnly
    <2>2. faults' \in 0..MaxFaults
      BY <1>1, SizesAssumption DEF TypeOK, PauseStart, PauseDone, Fault
    <2>3. /\ stamps' \subseteq Boxes /\ pausedIds' \subseteq Boxes
          /\ pauser' \in [Boxes -> {"none", "delay", "pausing"}]
      BY <1>1 DEF TypeOK, PauseStart, PauseDone
    <2>4. QED
      BY <1>1, <1>2, <2>1, <2>2, <2>3 DEF TypeOK, Container, breakerVars
  <1>4. Hands'
    BY <1>1, <1>2, HandsStay DEF NoGain
  <1>5. StillSeen
    <2>1. \A d \in Boxes : box'[d].age = box[d].age
      BY <1>6
    <2>2. Pooled' = Pooled /\ Filling' = Filling /\ Pooled \subseteq Boxes
      BY <1>1, <1>2, PoolTyped DEF Pooled, Filling
    <2>3. \A d \in Boxes : /\ d \in stamps \/ pauser[d] = "pausing" =>
                              d \in stamps' \/ pauser'[d] = "pausing"
                           /\ pauser'[d] # "none" => pauser[d] # "none"
      BY <1>1 DEF TypeOK, PauseStart, PauseDone
    <2>4. QED
      BY <1>2, <2>1, <2>2, <2>3 DEF StillSeen
  <1>7. QED
    BY <1>1, <1>3, <1>4, <1>5, SeenStays, InvParts


-----------------------------------------------------------------------------
(* Filling the pool. *)
LEMMA FaultTyped ==
  ASSUME TypeOK, Fault \/ faults' = faults
  PROVE  faults' \in 0..MaxFaults
  BY SizesAssumption DEF TypeOK, Fault

LEMMA FailedTyped ==
  ASSUME TypeOK, NEW n \in 0..MaxFails, Failed(n)
  PROVE  fails' \in 0..MaxFails /\ breaker' \in {"closed", "open", "due"}
  BY SizesAssumption DEF TypeOK, Failed

\* a run of _warm_pool goes on, or ends, without a sandbox
Quits(f) ==
  EnoughOrStopping(f) \/ MemoryPressure(f) \/ CircuitOpen(f) \/ CreateRaises(f) \/ CreateFails(f)

LEMMA QuitsKeeps ==
  ASSUME IInv, NEW f \in Fills, Quits(f)
  PROVE  IInv'
  <1>1. TypeOK /\ Hands /\ Seen
    BY InvParts
  <1>2. UNCHANGED <<box, phase, pool, stamps, pausedIds, pauser, loop, reaper, user>>
    BY DEF Quits, EnoughOrStopping, MemoryPressure, CircuitOpen, CreateRaises, CreateFails,
           poolVars, taskVars
  <1>3. fill' = fill \/ fill' = [fill EXCEPT ![f] = "idle"]
                     \/ fill' = [fill EXCEPT ![f] = "check"]
    BY DEF Quits, EnoughOrStopping, MemoryPressure, CircuitOpen, CreateRaises, CreateFails,
           poolVars, taskVars
  <1>4. /\ fill' \in [Fills -> Boxes \cup {"idle", "check"}]
        /\ \A g \in Fills : fill'[g] \in Boxes => fill'[g] = fill[g]
    BY <1>1, <1>3, FillingNames DEF TypeOK
  <1>5. faults' \in 0..MaxFaults
    BY <1>1, FaultTyped DEF Quits, EnoughOrStopping, MemoryPressure, CircuitOpen,
       CreateRaises, CreateFails
  <1>6. fails' \in 0..MaxFails /\ breaker' \in {"closed", "open", "due"} /\ spin' \in BOOLEAN
    <2>1. fails \in 0..MaxFails /\ breaker \in {"closed", "open", "due"} /\ spin \in BOOLEAN
          /\ 0 \in 0..MaxFails
      BY <1>1, SizesAssumption DEF TypeOK
    <2>2. CASE CreateRaises(f) \/ CreateFails(f)
      BY <1>1, <2>1, <2>2, FailedTyped DEF CreateRaises, CreateFails
    <2>3. CASE EnoughOrStopping(f) \/ MemoryPressure(f) \/ CircuitOpen(f)
      BY <2>1, <2>3 DEF EnoughOrStopping, MemoryPressure, CircuitOpen, breakerVars
    <2>4. QED
      BY <2>2, <2>3 DEF Quits
  <1>7. TypeOK'
    BY <1>1, <1>2, <1>4, <1>5, <1>6 DEF TypeOK
  <1>8. NoGain
    BY <1>2, <1>4 DEF NoGain
  <1>9. Hands'
    BY <1>1, <1>2, <1>8, HandsStay
  <1>10. Pooled' = Pooled
    BY <1>2 DEF Pooled
  <1>11. StillSeen
    BY <1>2, <1>8, <1>10, NoGainLess DEF StillSeen
  <1>12. QED
    BY <1>1, <1>7, <1>9, <1>11, SeenStays, InvParts

LEMMA CreateStartKeeps ==
  ASSUME IInv, NEW f \in Fills, CreateStart(f)
  PROVE  IInv'
  <1>1. TypeOK /\ Hands /\ Seen
    BY InvParts
  <1>2. PICK b \in Boxes :
          /\ Unknown(b) /\ box' = [box EXCEPT ![b] = Running]
          /\ fill' = [fill EXCEPT ![f] = b]
    BY DEF CreateStart
  <1>3. /\ UNCHANGED <<phase, pool, stamps, pausedIds, spin, pauser, loop, reaper, user,
                       faults>>
        /\ fill[f] = "check" /\ breaker' = "closed" /\ fails' \in {0, fails}
    BY DEF CreateStart, Wanted, poolVars
  <1>4. /\ fill' \in [Fills -> Boxes \cup {"idle", "check"}] /\ fill'[f] = b
        /\ \A g \in Fills : g # f => fill'[g] = fill[g]
    BY <1>1, <1>2 DEF TypeOK
  <1>5. BoxOnly(b) /\ box'[b] = Running /\ \A d \in Boxes : box'[d].age \in {0, box[d].age}
    BY <1>1, <1>2, Made
  <1>6. TypeOK'
    BY <1>1, <1>3, <1>4, <1>5, SizesAssumption DEF TypeOK, BoxOnly, Container
  <1>7. /\ pauser[b] = "none" /\ b \notin stamps /\ b \notin Pooled /\ b \notin Filling
        /\ b # loop.victim /\ b \notin reaper.cands /\ \A c \in Sessions : user[c].box # b
    BY <1>2 DEF Unknown
  <1>8. Filling' = Filling \cup {b}
    <2>1. ASSUME NEW d \in Filling
          PROVE  d \in Filling'
      <3>1. PICK g \in Fills : fill[g] = d /\ d \in Boxes
        BY <2>1, FilledBy
      <3>2. g # f
        BY <1>3, <3>1, <1>1, FillingNames
      <3>3. QED
        BY <1>4, <3>1, <3>2 DEF Filling
    <2>2. ASSUME NEW d \in Filling'
          PROVE  d \in Filling \cup {b}
      <3>1. PICK g \in Fills : fill'[g] = d /\ d \in Boxes
        BY <2>2 DEF Filling
      <3>2. QED
        BY <1>4, <3>1, FilledBy
    <2>3. b \in Filling'
      BY <1>4 DEF Filling
    <2>4. QED
      BY <2>1, <2>2, <2>3
  <1>9. Pooled' = Pooled /\ Queued' = Queued /\ Used' = Used
    BY <1>3 DEF Pooled, Queued, Used
  <1>10. Shaped' /\ Seated'
    BY <1>1, <1>3 DEF Hands, Shaped, AtWork, Stopping, Seated
  <1>11. b \notin Queued /\ b \notin Used
    BY <1>7, UsedBy DEF Queued, Pooled
  <1>12. Held'
    <2>1. \A g, h \in Fills : fill'[g] \in Boxes /\ fill'[g] = fill'[h] => g = h
      <3>1. \A g \in Fills : fill[g] # b
        BY <1>7, FilledBy
      <3>2. QED
        BY <1>1, <1>4, <3>1 DEF Hands, Held
    <2>2. Queued' \cap Used' = {} /\ Queued' \cap Filling' = {} /\ Used' \cap Filling' = {}
      BY <1>1, <1>8, <1>9, <1>11 DEF Hands, Held
    <2>3. QED
      BY <1>1, <1>3, <1>9, <2>1, <2>2 DEF Hands, Held
  <1>13. Seen'
    <2>1. Tracked'
      BY <1>1, <1>3, <1>9 DEF Seen, Tracked
    <2>2. Young'
      BY <1>1, <1>3, <1>5, <1>8 DEF Seen, Young, Running, BoxOnly
    <2>3. ReaperSparesPool'
      BY <1>1, <1>3, <1>7, <1>8, <1>9 DEF Seen, ReaperSparesPool
    <2>4. QED
      BY <2>1, <2>2, <2>3 DEF Seen
  <1>14. QED
    BY <1>6, <1>10, <1>12, <1>13, InvParts DEF Hands

LEMMA CreateDoneKeeps ==
  ASSUME IInv, NEW f \in Fills, CreateDone(f)
  PROVE  IInv'
  <1> DEFINE b == fill[f]
  <1>1. TypeOK /\ Hands /\ Seen
    BY InvParts
  <1>2. /\ b \in Boxes /\ fails' = 0
        /\ UNCHANGED <<phase, pausedIds, breaker, spin, loop, reaper, user, faults>>
    BY DEF CreateDone
  <1>3. \/ /\ Len(pool) < MaxSize /\ pool' = Append(pool, b) /\ stamps' = stamps \cup {b}
           /\ pauser' = [pauser EXCEPT ![b] = IF PauseIdle THEN "delay" ELSE @]
           /\ fill' = [fill EXCEPT ![f] = "check"] /\ box' = box
        \/ /\ box' = [box EXCEPT ![b] = Gone] /\ fill' = [fill EXCEPT ![f] = "idle"]
           /\ UNCHANGED <<pool, stamps, pauser>>
    BY DEF CreateDone
  <1>4. b \in Filling
    BY <1>2, FilledBy
  <1>5. /\ fill' \in [Fills -> Boxes \cup {"idle", "check"}] /\ fill'[f] \notin Boxes
        /\ \A g \in Fills : g # f => fill'[g] = fill[g]
    BY <1>1, <1>3, FillingNames DEF TypeOK
  <1>6. NoGain
    BY <1>2, <1>5 DEF NoGain
  <1>7. Filling' \subseteq Filling /\ b \notin Filling' /\ Used' = Used
    <2>1. \A g \in Fills : fill[g] = b => g = f
      BY <1>1, <1>2 DEF Hands, Held
    <2>2. \A g \in Fills : fill'[g] # b
      BY <1>2, <1>5, <2>1
    <2>3. b \notin Filling'
      BY <2>2 DEF Filling
    <2>4. QED
      BY <1>2, <1>6, <2>3, NoGainLess DEF Used
  <1>8. fails' \in 0..MaxFails
    BY <1>2, SizesAssumption
  <1>9. CASE box' = [box EXCEPT ![b] = Gone] /\ UNCHANGED <<pool, stamps, pauser>>
    <2>1. BoxOnly(b) /\ \A d \in Boxes : box'[d].age \in {0, box[d].age}
      BY <1>1, <1>2, <1>9, Removed
    <2>2. TypeOK'
      BY <1>1, <1>2, <1>5, <1>8, <1>9, <2>1 DEF TypeOK, BoxOnly, Container
    <2>3. Hands'
      BY <1>1, <1>2, <1>6, <1>9, HandsStay
    <2>4. Pooled' = Pooled
      BY <1>2, <1>9 DEF Pooled
    <2>5. StillSeen
      BY <1>2, <1>7, <1>9, <2>1, <2>4 DEF StillSeen
    <2>6. QED
      BY <1>1, <2>2, <2>3, <2>5, SeenStays, InvParts
  <1>10. CASE /\ Len(pool) < MaxSize /\ pool' = Append(pool, b) /\ stamps' = stamps \cup {b}
              /\ pauser' = [pauser EXCEPT ![b] = IF PauseIdle THEN "delay" ELSE @]
              /\ box' = box
    <2>1. /\ Boxed(pool) /\ Len(pool) \in Nat /\ MaxSize \in Nat
          /\ IsInjective(pool) /\ b \notin Queued /\ Range(pool) \subseteq Queued
          /\ Pooled \subseteq Queued /\ b \notin Used
      BY <1>1, <1>4, PoolTyped, SizesAssumption, NamesAssumption
         DEF Hands, Held, Apart, Queued, Pooled
    <2>2. /\ Boxed(pool') /\ Len(pool') <= MaxSize /\ IsInjective(pool')
          /\ Range(pool') = Range(pool) \cup {b}
      <3>1. /\ Boxed(pool') /\ Len(pool') = Len(pool) + 1
            /\ Range(pool') = Range(pool) \cup {b} /\ IsInjective(pool')
        BY <1>2, <1>10, <2>1, AppendDoes
      <3>2. QED
        BY <1>10, <2>1, <3>1
    <2>3. Pooled' = Pooled \cup {b} /\ Queued' = Queued \cup {b}
      BY <1>2, <2>2 DEF Pooled, Queued
    <2>4. /\ pauser' \in [Boxes -> {"none", "delay", "pausing"}]
          /\ \A d \in Boxes : d # b => pauser'[d] = pauser[d]
      BY <1>1, <1>10 DEF TypeOK
    <2>5. TypeOK'
      BY <1>1, <1>2, <1>5, <1>8, <1>10, <2>2, <2>4 DEF TypeOK, Boxed
    <2>6. Shaped' /\ Seated'
      BY <1>1, <1>2 DEF Hands, Shaped, AtWork, Stopping, Seated
    <2>7. Held'
      <3>1. Apart(pool', loop'.kept) /\ loop'.victim \notin Pooled'
        BY <1>1, <1>2, <2>1, <2>2, <2>3, NamesAssumption
           DEF Hands, Held, Apart, Pooled, Queued
      <3>2. Queued' \cap Used' = {} /\ Queued' \cap Filling' = {} /\ Used' \cap Filling' = {}
        BY <1>1, <1>7, <2>1, <2>3 DEF Hands, Held
      <3>3. \A g, h \in Fills : fill'[g] \in Boxes /\ fill'[g] = fill'[h] => g = h
        BY <1>1, <1>6 DEF Hands, Held, NoGain
      <3>4. QED
        BY <1>1, <1>2, <3>1, <3>2, <3>3 DEF Hands, Held
    <2>8. Seen'
      <3>1. Tracked'
        BY <1>1, <1>10, <2>1, <2>3, <2>4, PoolTyped DEF Seen, Tracked
      <3>2. Young'
        BY <1>1, <1>4, <1>7, <1>10, <2>4 DEF Seen, Young
      <3>3. ReaperSparesPool'
        BY <1>1, <1>2, <1>4, <1>7, <2>3 DEF Seen, ReaperSparesPool
      <3>4. QED
        BY <3>1, <3>2, <3>3 DEF Seen
    <2>9. QED
      BY <2>5, <2>6, <2>7, <2>8, InvParts DEF Hands
  <1>11. QED
    BY <1>3, <1>9, <1>10


-----------------------------------------------------------------------------
(* Sessions. *)
Session == [pc : {"idle", "asking", "creating", "over"} \cup HasBox,
            box : Boxes \cup {None}, tries : 0..MaxRetries]

\* only session c changes
UserOnly(c) ==
  /\ user' \in [Sessions -> Session]
  /\ \A d \in Sessions : d # c => user'[d] = user[d]

LEMMA UserChanged ==
  ASSUME TypeOK, NEW c \in Sessions, NEW x \in Session, user' = [user EXCEPT ![c] = x]
  PROVE  UserOnly(c) /\ user'[c] = x
  BY DEF TypeOK, Session, UserOnly

LEMMA Seats ==
  ASSUME TypeOK, NEW c \in Sessions, NEW p \in HasBox, NEW b \in Boxes,
         user' = [user EXCEPT ![c].pc = p, ![c].box = b]
  PROVE  UserOnly(c) /\ user'[c].pc = p /\ user'[c].box = b
  <1> DEFINE x == [[user[c] EXCEPT !.pc = p] EXCEPT !.box = b]
  <1>1. user[c] \in Session
    BY DEF TypeOK, Session
  <1>2. x \in Session /\ x.pc = p /\ x.box = b
    BY <1>1 DEF Session
  <1>3. user' = [user EXCEPT ![c] = x]
    OBVIOUS
  <1> HIDE DEF x
  <1>4. QED
    BY <1>2, <1>3, UserChanged

LEMMA MovesOn ==
  ASSUME TypeOK, NEW c \in Sessions, NEW p \in {"idle", "asking", "creating", "over"} \cup HasBox,
         user' = [user EXCEPT ![c].pc = p]
  PROVE  UserOnly(c) /\ user'[c].pc = p /\ user'[c].box = user[c].box
  <1> DEFINE x == [user[c] EXCEPT !.pc = p]
  <1>1. user[c] \in Session
    BY DEF TypeOK, Session
  <1>2. x \in Session /\ x.pc = p /\ x.box = user[c].box
    BY <1>1 DEF Session
  <1>3. user' = [user EXCEPT ![c] = x]
    OBVIOUS
  <1> HIDE DEF x
  <1>4. QED
    BY <1>2, <1>3, UserChanged

Calls(c) == Ask(c) \/ TimedOut(c) \/ NoRoom(c) \/ Bind(c) \/ Waits(c) \/ End(c) \/ Cancelled(c)

LEMMA CallsDo ==
  ASSUME TypeOK, NEW c \in Sessions, Calls(c)
  PROVE  /\ UserOnly(c)
         /\ user'[c].pc \in HasBox => user[c].pc \in HasBox /\ user'[c].box = user[c].box
  <1>1. 0 \in 0..MaxRetries
    BY SizesAssumption
  <1>2. CASE Ask(c) \/ NoRoom(c) \/ End(c) \/ Cancelled(c)
    <2> DEFINE x == [NoUser EXCEPT !.pc = "asking"]
    <2>1. x \in Session /\ Over \in Session /\ x.pc = "asking" /\ Over.pc = "over"
      BY <1>1 DEF Session, NoUser, Over
    <2>2. user' = [user EXCEPT ![c] = x] \/ user' = [user EXCEPT ![c] = Over]
      BY <1>2 DEF Ask, NoRoom, End, Cancelled
    <2> HIDE DEF x
    <2>3. UserOnly(c) /\ (user'[c] = x \/ user'[c] = Over)
      BY <2>1, <2>2, UserChanged
    <2>4. QED
      BY <2>1, <2>3 DEF HasBox, Saved
  <1>3. CASE Bind(c)
    BY <1>3, MovesOn DEF Bind, HasBox, Saved
  <1>4. CASE Waits(c)
    <2>1. \E p \in Saved : user' = [user EXCEPT ![c].pc = p]
      BY <1>4 DEF Waits, Saved
    <2>2. QED
      BY <1>4, <2>1, MovesOn DEF Waits, HasBox, Saved
  <1>5. CASE TimedOut(c)
    <2> DEFINE x == [[user[c] EXCEPT !.pc = "creating"] EXCEPT !.tries = 0]
    <2>1. user[c] \in Session
      BY DEF TypeOK, Session
    <2>2. x \in Session /\ x.pc = "creating"
      BY <1>1, <2>1 DEF Session
    <2>3. user' = [user EXCEPT ![c] = x]
      BY <1>5 DEF TimedOut
    <2> HIDE DEF x
    <2>4. QED
      BY <2>2, <2>3, UserChanged DEF HasBox, Saved
  <1>6. QED
    BY <1>2, <1>3, <1>4, <1>5 DEF Calls

LEMMA CallsKeep ==
  ASSUME IInv, NEW c \in Sessions, Calls(c)
  PROVE  IInv'
  <1>1. TypeOK /\ Hands /\ Seen
    BY InvParts
  <1>2. /\ UNCHANGED <<box, phase, pool, stamps, pausedIds, fails, breaker, spin, fill,
                       pauser, loop, reaper>>
        /\ Fault \/ faults' = faults
    BY DEF Calls, Ask, TimedOut, NoRoom, Bind, Waits, End, Cancelled, poolVars, breakerVars,
           taskVars
  <1>3. /\ UserOnly(c)
        /\ user'[c].pc \in HasBox => user[c].pc \in HasBox /\ user'[c].box = user[c].box
    BY <1>1, CallsDo
  <1>4. TypeOK'
    BY <1>1, <1>2, <1>3, FaultTyped DEF TypeOK, UserOnly, Session
  <1>5. NoGain
    BY <1>2, <1>3 DEF NoGain, UserOnly
  <1>6. Hands'
    BY <1>1, <1>2, <1>5, HandsStay
  <1>7. Pooled' = Pooled /\ Filling' = Filling
    BY <1>2 DEF Pooled, Filling
  <1>8. StillSeen
    BY <1>2, <1>7 DEF StillSeen
  <1>9. QED
    BY <1>1, <1>4, <1>6, <1>8, SeenStays, InvParts

(* A replenishment that starts has no sandbox yet.                          *)
LEMMA Replenished ==
  ASSUME TypeOK, Replenish
  PROVE  /\ fill' \in [Fills -> Boxes \cup {"idle", "check"}]
         /\ \A g \in Fills : fill'[g] \in Boxes => fill'[g] = fill[g]
         /\ Filling' = Filling
  <1>1. \/ fill' = fill
        \/ \E t \in Tasks : fill[t] = "idle" /\ fill' = [fill EXCEPT ![t] = "check"]
    BY DEF Replenish
  <1>2. /\ fill' \in [Fills -> Boxes \cup {"idle", "check"}]
        /\ \A g \in Fills : fill'[g] = fill[g] \/ (fill[g] \notin Boxes /\ fill'[g] \notin Boxes)
    BY <1>1, FillingNames DEF TypeOK
  <1>3. Filling' = Filling
    <2>1. \A b : b \in Filling' <=> b \in Boxes /\ \E g \in Fills : fill'[g] = b
      BY DEF Filling
    <2>2. QED
      BY <1>2, <2>1, FilledBy
  <1>4. QED
    BY <1>2, <1>3

LEMMA UnpausedKeeps ==
  ASSUME IInv, NEW c \in Sessions, Unpaused(c) \/ Unhealthy(c)
  PROVE  IInv'
  <1> DEFINE b == user[c].box
  <1>1. TypeOK /\ Hands /\ Seen
    BY InvParts
  <1>2. /\ user[c].pc = "unpausing" /\ Replenish
        /\ UNCHANGED <<phase, pool, stamps, pausedIds, fails, breaker, spin, pauser, loop,
                       reaper>>
        /\ Fault \/ faults' = faults
    BY DEF Unpaused, Unhealthy, poolVars, breakerVars
  <1>3. b \in Boxes /\ user[c].tries \in 0..MaxRetries /\ 0 \in 0..MaxRetries
    BY <1>1, <1>2, SizesAssumption DEF Hands, Seated, HasBox, TypeOK
  <1>4. BoxOnly(b) /\ \A d \in Boxes : box'[d].age \in {0, box[d].age}
    <2>1. \/ box' = [box EXCEPT ![b].state = "running"]
          \/ box' = [box EXCEPT ![b] = Gone]
      BY DEF Unpaused, Unhealthy
    <2>2. QED
      BY <1>1, <1>3, <2>1, StateChanged, Removed
  <1>5. /\ UserOnly(c)
        /\ user'[c].pc \in HasBox => user'[c].box = user[c].box
    <2>1. CASE Unpaused(c)
      <3> DEFINE x == [[user[c] EXCEPT !.pc = "held"] EXCEPT !.tries = 0]
      <3>1. user[c] \in Session
        BY <1>1 DEF TypeOK, Session
      <3>2. x \in Session /\ x.box = b
        BY <1>3, <3>1 DEF Session, HasBox
      <3>3. user' = [user EXCEPT ![c] = x]
        BY <2>1 DEF Unpaused
      <3> HIDE DEF x
      <3>4. QED
        BY <1>1, <3>2, <3>3, UserChanged
    <2>2. CASE Unhealthy(c)
      <3> DEFINE p == IF user[c].tries < MaxRetries THEN "asking" ELSE "creating"
                 n == IF user[c].tries < MaxRetries THEN user[c].tries + 1 ELSE 0
                 x == [[[user[c] EXCEPT !.box = None] EXCEPT !.pc = p] EXCEPT !.tries = n]
      <3>1. user[c] \in Session /\ p \in {"asking", "creating"} /\ n \in 0..MaxRetries
        BY <1>1, <1>3, SizesAssumption DEF TypeOK, Session
      <3>2. user' = [user EXCEPT ![c] = x]
        BY <2>2 DEF Unhealthy
      <3> HIDE DEF p, n
      <3>3. x \in Session /\ x.pc = p
        BY <3>1 DEF Session
      <3> HIDE DEF x
      <3>4. QED
        BY <1>1, <3>1, <3>2, <3>3, UserChanged DEF HasBox, Saved
    <2>3. QED
      BY <2>1, <2>2
  <1>6. /\ fill' \in [Fills -> Boxes \cup {"idle", "check"}]
        /\ \A g \in Fills : fill'[g] \in Boxes => fill'[g] = fill[g]
        /\ Filling' = Filling
    BY <1>1, <1>2, Replenished
  <1>7. TypeOK'
    BY <1>1, <1>2, <1>4, <1>5, <1>6, FaultTyped
       DEF TypeOK, UserOnly, Session, BoxOnly, Container
  <1>8. NoGain
    BY <1>2, <1>5, <1>6 DEF NoGain, UserOnly, HasBox
  <1>9. Hands'
    BY <1>1, <1>2, <1>8, HandsStay
  <1>10. Pooled' = Pooled
    BY <1>2 DEF Pooled
  <1>11. StillSeen
    BY <1>2, <1>4, <1>6, <1>10 DEF StillSeen
  <1>12. QED
    BY <1>1, <1>7, <1>9, <1>11, SeenStays, InvParts

\* session c gets sandbox b, which nobody else has
Gets(c, b) ==
  /\ UserOnly(c) /\ user[c].pc \notin HasBox
  /\ user'[c].pc \in HasBox /\ user'[c].box = b /\ b \in Boxes
  /\ b \notin Used /\ b \notin Filling' /\ b \notin Queued'

LEMMA GetsHolds ==
  ASSUME Hands, NEW c \in Sessions, NEW b, Gets(c, b), Shaped', Queued' \subseteq Queued,
         \A g \in Fills : fill'[g] \in Boxes => fill'[g] = fill[g],
         Apart(pool', loop'.kept), loop'.victim \notin Pooled'
  PROVE  Hands'
  <1>1. \A d \in Sessions : d # c => user'[d] = user[d]
    BY DEF Gets, UserOnly
  <1>2. Seated'
    BY <1>1 DEF Hands, Seated, Gets
  <1>3. Filling' \subseteq Filling
    <2>1. ASSUME NEW d \in Filling'
          PROVE  d \in Filling
      <3>1. d \in Boxes /\ \E g \in Fills : fill'[g] = d
        BY <2>1 DEF Filling
      <3>2. QED
        BY <3>1, FilledBy
    <2>2. QED
      BY <2>1
  <1>4. Used' \subseteq Used \cup {b}
    <2>1. ASSUME NEW d \in Used'
          PROVE  d \in Used \cup {b}
      <3>1. PICK e \in Sessions : user'[e].pc \in HasBox /\ user'[e].box = d
        BY <2>1 DEF Used
      <3>2. QED
        BY <1>1, <3>1, UsedBy DEF Gets
    <2>2. QED
      BY <2>1
  <1>5. \A d, e \in Sessions :
          user'[d].pc \in HasBox /\ user'[e].pc \in HasBox /\ user'[d].box = user'[e].box
            => d = e
    <2>1. \A d \in Sessions : user[d].pc \in HasBox => user[d].box # b
      BY UsedBy DEF Gets
    <2>2. QED
      BY <1>1, <2>1 DEF Hands, Held, Gets
  <1>6. Queued' \cap Used' = {} /\ Queued' \cap Filling' = {} /\ Used' \cap Filling' = {}
    BY <1>3, <1>4 DEF Hands, Held, Gets
  <1>7. \A f, g \in Fills : fill'[f] \in Boxes /\ fill'[f] = fill'[g] => f = g
    BY DEF Hands, Held
  <1>8. Held'
    BY <1>5, <1>6, <1>7 DEF Held
  <1>9. QED
    BY <1>2, <1>8 DEF Hands


LEMMA GetKeeps ==
  ASSUME IInv, NEW c \in Sessions, Get(c)
  PROVE  IInv'
  <1> DEFINE b == Head(pool)
  <1>1. TypeOK /\ Hands /\ Seen
    BY InvParts
  <1>2. /\ user[c].pc = "asking" /\ pool # <<>> /\ pool' = Tail(pool)
        /\ stamps' = stamps \ {b} /\ pausedIds' = pausedIds \ {b}
        /\ UNCHANGED <<box, phase, fails, breaker, spin, pauser, loop, reaper, faults>>
    BY DEF Get, breakerVars
  <1>3. \/ user' = [user EXCEPT ![c].pc = "unpausing", ![c].box = b] /\ fill' = fill
        \/ user' = [user EXCEPT ![c] = [pc |-> "held", box |-> b, tries |-> 0]] /\ Replenish
    BY DEF Get
  <1>4. /\ Boxed(pool) /\ Boxed(pool') /\ Len(pool') <= Len(pool) /\ Len(pool) <= MaxSize
        /\ Len(pool) \in Nat /\ Len(pool') \in Nat
        /\ b \in Range(pool) /\ b \in Boxes
        /\ Range(pool') \subseteq Range(pool) /\ IsInjective(pool') /\ b \notin Range(pool')
    BY <1>1, <1>2, PoolTyped, TailDoes, BoxedLens DEF Hands, Held, Apart
  <1> HIDE DEF b
  <1>5. /\ fill' \in [Fills -> Boxes \cup {"idle", "check"}]
        /\ \A g \in Fills : fill'[g] \in Boxes => fill'[g] = fill[g]
        /\ Filling' = Filling
    <2>1. fill' = fill => Filling' = Filling
      BY DEF Filling
    <2>2. QED
      BY <1>1, <1>3, <2>1, Replenished DEF TypeOK
  <1>6. UserOnly(c) /\ user'[c].pc \in HasBox /\ user'[c].box = b
    <2>1. "unpausing" \in HasBox /\ "held" \in HasBox
      BY DEF HasBox
    <2>2. [pc |-> "held", box |-> b, tries |-> 0] \in Session
      BY <1>4, <2>1, SizesAssumption DEF Session
    <2>3. CASE user' = [user EXCEPT ![c].pc = "unpausing", ![c].box = b]
      BY <1>1, <1>4, <2>1, <2>3, Seats
    <2>4. CASE user' = [user EXCEPT ![c] = [pc |-> "held", box |-> b, tries |-> 0]]
      <3> DEFINE x == [pc |-> "held", box |-> b, tries |-> 0]
      <3>1. x \in Session /\ x.pc = "held" /\ x.box = b /\ user' = [user EXCEPT ![c] = x]
        BY <2>2, <2>4
      <3> HIDE DEF x
      <3>2. QED
        BY <1>1, <2>1, <3>1, UserChanged
    <2>5. QED
      BY <1>3, <2>3, <2>4
  <1>7. TypeOK'
    <2>1. Len(pool') <= MaxSize
      BY <1>4, SizesAssumption
    <2>2. QED
      BY <1>1, <1>2, <1>4, <1>5, <1>6, <2>1 DEF TypeOK, Boxed, UserOnly, Session
  <1>8. /\ b \in Queued /\ b \in Pooled /\ b \notin Range(loop.kept) /\ b # loop.victim
        /\ b \notin Used /\ b \notin Filling
    BY <1>1, <1>4, NamesAssumption DEF Hands, Held, Apart, Queued, Pooled
  <1>9. /\ Pooled' \subseteq Pooled /\ Queued' \subseteq Queued
        /\ b \notin Pooled' /\ b \notin Queued'
    BY <1>2, <1>4, <1>8 DEF Pooled, Queued
  <1>10. Hands'
    <2>1. Shaped'
      BY <1>1, <1>2 DEF Hands, Shaped, AtWork, Stopping
    <2>2. Gets(c, b)
      BY <1>2, <1>4, <1>5, <1>6, <1>8, <1>9 DEF Gets, HasBox, Saved
    <2>3. Apart(pool', loop'.kept) /\ loop'.victim \notin Pooled'
      BY <1>1, <1>2, <1>4, <1>9 DEF Hands, Held, Apart
    <2>4. QED
      BY <1>1, <1>5, <1>9, <2>1, <2>2, <2>3, GetsHolds
  <1>11. StillSeen
    BY <1>2, <1>5, <1>9 DEF StillSeen
  <1>12. QED
    BY <1>1, <1>7, <1>10, <1>11, SeenStays, InvParts

LEMMA OnDemandKeeps ==
  ASSUME IInv, NEW c \in Sessions, OnDemand(c)
  PROVE  IInv'
  <1>1. TypeOK /\ Hands /\ Seen
    BY InvParts
  <1>2. PICK b \in Boxes :
          /\ Unknown(b) /\ box' = [box EXCEPT ![b] = Running]
          /\ user' = [user EXCEPT ![c].pc = "held", ![c].box = b]
    BY DEF OnDemand
  <1>3. /\ user[c].pc = "creating"
        /\ UNCHANGED <<phase, pool, stamps, pausedIds, fails, breaker, spin, fill, pauser,
                       loop, reaper, faults>>
    BY DEF OnDemand, poolVars, breakerVars, taskVars
  <1>4. BoxOnly(b) /\ \A d \in Boxes : box'[d].age \in {0, box[d].age}
    BY <1>1, <1>2, Made
  <1>5. UserOnly(c) /\ user'[c].pc = "held" /\ user'[c].box = b
    BY <1>1, <1>2, Seats DEF HasBox
  <1>6. TypeOK'
    BY <1>1, <1>3, <1>4, <1>5 DEF TypeOK, UserOnly, Session, BoxOnly, Container
  <1>7. Pooled' = Pooled /\ Queued' = Queued /\ Filling' = Filling
    BY <1>3 DEF Pooled, Queued, Filling
  <1>8. b \notin Pooled /\ b \notin Queued /\ b \notin Filling /\ b \notin Used
    BY <1>2, UsedBy DEF Unknown, Queued, Pooled
  <1>9. Hands'
    <2>1. Shaped'
      BY <1>1, <1>3 DEF Hands, Shaped, AtWork, Stopping
    <2>2. Gets(c, b)
      BY <1>3, <1>5, <1>7, <1>8 DEF Gets, HasBox, Saved
    <2>3. Apart(pool', loop'.kept) /\ loop'.victim \notin Pooled'
      BY <1>1, <1>3, <1>7 DEF Hands, Held
    <2>4. QED
      BY <1>1, <1>3, <1>7, <2>1, <2>2, <2>3, GetsHolds
  <1>10. StillSeen
    BY <1>3, <1>4, <1>7 DEF StillSeen
  <1>11. QED
    BY <1>1, <1>6, <1>9, <1>10, SeenStays, InvParts

-----------------------------------------------------------------------------
(* The maintenance loop. *)

(* A step of the eviction: what was drained is put back or kept, and known  *)
(* by its stamp to the reaper that starts at the end of the round.          *)
LEMMA SortedKeeps ==
  ASSUME IInv, NEW q, q \subseteq Pooled, Sorted(q, stamps'), ~Stopping,
         UNCHANGED <<phase, fails, breaker, spin, pauser, user>>,
         Fault \/ faults' = faults,
         box' \in [Boxes -> Container],
         \A d \in Boxes : box'[d].age \in {0, box[d].age},
         stamps' \subseteq stamps, pausedIds' \subseteq pausedIds,
         stamps \ stamps' \subseteq Boxes \ q
  PROVE  IInv'
  <1>1. TypeOK /\ Hands /\ Seen
    BY InvParts
  <1>2. /\ Boxed(pool') /\ Len(pool') <= MaxSize /\ loop' \in LoopType
        /\ Apart(pool', loop'.kept) /\ loop'.victim \notin Pooled'
        /\ Queued' \subseteq q
        /\ Interrupted \/ RoundOver(stamps')
    BY DEF Sorted
  <1>3. /\ fill' \in [Fills -> Boxes \cup {"idle", "check"}]
        /\ \A g \in Fills : fill'[g] \in Boxes => fill'[g] = fill[g]
    BY <1>1, <1>2, FillingNames DEF TypeOK, Interrupted, RoundOver
  <1>4. /\ reaper' \in [pc : {"idle", "due", "asking", "removing"}, cands : SUBSET Boxes]
        /\ \/ reaper' = reaper
           \/ reaper'.cands \subseteq {b \in Boxes : box[b].age > 0} \ stamps'
    BY <1>1, <1>2 DEF TypeOK, Interrupted, RoundOver
  <1>5. TypeOK'
    BY <1>1, <1>2, <1>3, <1>4, FaultTyped DEF TypeOK, LoopType, Boxed, Container
  <1>6. NoGain
    BY <1>3 DEF NoGain
  <1>7. Pooled \subseteq Queued /\ Pooled' \subseteq Queued'
    BY DEF Pooled, Queued
  <1>8. Shaped'
    BY <1>2 DEF Shaped, AtWork, Interrupted, RoundOver, Stopping
  <1>9. Hands'
    BY <1>1, <1>2, <1>6, <1>7, <1>8, HandsShrink
  <1>10. Filling' \subseteq Filling
    BY <1>6, NoGainLess
  <1>11. Tracked'
    BY <1>1, <1>2, <1>7 DEF Seen, Tracked
  <1>12. Young'
    BY <1>1, <1>10 DEF Seen, Young
  <1>13. ReaperSparesPool'
    <2>1. CASE reaper' = reaper
      BY <1>1, <1>2, <1>7, <1>10, <2>1 DEF Seen, ReaperSparesPool
    <2>2. CASE reaper'.cands \subseteq {b \in Boxes : box[b].age > 0} \ stamps'
      <3>1. ASSUME NEW b \in reaper'.cands, b \in Pooled'
            PROVE  FALSE
        <4>1. b \in Boxes /\ box[b].age > 0 /\ b \notin stamps'
          BY <2>2, <3>1
        <4>2. pauser[b] = "pausing"
          BY <1>11, <3>1, <4>1 DEF Tracked
        <4>3. QED
          BY <1>1, <4>1, <4>2 DEF Seen, Young
      <3>2. ASSUME NEW b \in reaper'.cands, b \in Filling'
            PROVE  FALSE
        BY <1>1, <1>10, <2>2, <3>2 DEF Seen, Young
      <3>3. QED
        BY <3>1, <3>2 DEF ReaperSparesPool
    <2>3. QED
      BY <1>4, <2>1, <2>2
  <1>14. QED
    BY <1>5, <1>9, <1>11, <1>12, <1>13, InvParts DEF Seen

LEMMA LoopRoundKeeps ==
  ASSUME IInv, LoopRound
  PROVE  IInv'
  <1>1. TypeOK /\ Hands
    BY InvParts
  <1>2. /\ loop.pc = "sleep" /\ phase = "up"
        /\ Warms(pool, stamps) \/ Drain(<<>>, Stale, stamps)
        /\ UNCHANGED <<box, phase, stamps, pausedIds, fails, breaker, spin, pauser, user,
                       faults>>
    BY DEF LoopRound, breakerVars
  <1>3. Stale \in SUBSET Boxes
    BY <1>1 DEF TypeOK, Stale
  <1>4. /\ Boxed(pool) /\ Len(pool) <= MaxSize /\ IsInjective(pool)
        /\ Apart(pool, <<>>) /\ Boxed(<<>>) /\ Range(<<>>) = {}
    BY <1>1, PoolTyped, Nobody DEF Hands, Held, Apart
  <1>5. Sorted(Range(pool), stamps)
    <2>1. CASE Warms(pool, stamps)
      BY <1>4, <2>1, WarmsDoes
    <2>2. CASE Drain(<<>>, Stale, stamps)
      <3>1. Range(pool) \cup Range(<<>>) = Range(pool)
        BY <1>4
      <3>2. Sorted(Range(pool) \cup Range(<<>>), stamps)
        BY <1>1, <1>3, <1>4, <2>2, DrainDoes
      <3>3. QED
        BY <3>1, <3>2
    <2>3. QED
      BY <1>2, <2>1, <2>2
  <1>6. Range(pool) \subseteq Pooled
    BY DEF Pooled
  <1>7. box' \in [Boxes -> Container] /\ \A d \in Boxes : box'[d].age \in {0, box[d].age}
    BY <1>1, <1>2 DEF TypeOK, Container
  <1>8. QED
    BY <1>2, <1>5, <1>6, <1>7, SortedKeeps DEF Stopping

LEMMA EvictKeeps ==
  ASSUME IInv, Evict
  PROVE  IInv'
  <1>1. TypeOK /\ Hands
    BY InvParts
  <1>2. /\ loop.pc = "evicting" /\ loop.victim \in Boxes /\ ~Stopping
        /\ loop.victim \notin Pooled
    BY <1>1 DEF Evict, Hands, Held, Shaped, AtWork
  <1>3. /\ stamps' = stamps \ {loop.victim}
        /\ Drain(loop.kept, loop.stale, stamps')
        /\ UNCHANGED <<phase, fails, breaker, spin, pauser, user>>
        /\ Fault \/ faults' = faults
        /\ \/ box' = [box EXCEPT ![loop.victim] = Gone]
              /\ pausedIds' = pausedIds \ {loop.victim}
           \/ UNCHANGED <<box, pausedIds>>
    BY DEF Evict, breakerVars
  <1>4. box' \in [Boxes -> Container] /\ \A d \in Boxes : box'[d].age \in {0, box[d].age}
    <2>1. CASE box' = box
      BY <1>1, <2>1 DEF TypeOK, Container
    <2>2. CASE box' = [box EXCEPT ![loop.victim] = Gone]
      BY <1>1, <1>2, <2>2, Removed DEF BoxOnly
    <2>3. QED
      BY <1>3, <2>1, <2>2
  <1>5. Boxed(loop.kept) /\ loop.stale \in SUBSET Boxes /\ Apart(pool, loop.kept)
    BY <1>1, PoolTyped DEF Hands, Held
  <1>6. Sorted(Range(pool) \cup Range(loop.kept), stamps')
    BY <1>1, <1>3, <1>5, DrainDoes
  <1>7. Range(pool) \cup Range(loop.kept) = Pooled
    BY DEF Pooled
  <1>8. stamps \ stamps' \subseteq Boxes \ Pooled
    BY <1>2, <1>3
  <1>9. QED
    BY <1>2, <1>3, <1>4, <1>6, <1>7, <1>8, SortedKeeps

LEMMA ShedKeeps ==
  ASSUME IInv, Shed
  PROVE  IInv'
  <1>1. TypeOK /\ Hands
    BY InvParts
  <1>2. /\ loop.pc = "shedding" /\ loop.victim \in Boxes /\ ~Stopping
        /\ box' = [box EXCEPT ![loop.victim] = Gone]
        /\ Requeue(pool \o loop.kept, stamps)
        /\ UNCHANGED <<phase, stamps, pausedIds, fails, breaker, spin, pauser, user, faults>>
    BY <1>1 DEF Shed, Hands, Shaped, AtWork, breakerVars
  <1>3. box' \in [Boxes -> Container] /\ \A d \in Boxes : box'[d].age \in {0, box[d].age}
    BY <1>1, <1>2, Removed DEF BoxOnly
  <1>4. /\ Boxed(pool \o loop.kept) /\ IsInjective(pool \o loop.kept)
        /\ Range(pool \o loop.kept) = Pooled
    BY <1>1, PoolTyped, CatDoes DEF Hands, Held, Pooled
  <1>5. Sorted(Pooled, stamps)
    BY <1>2, <1>4, RequeueDoes
  <1>6. QED
    BY <1>2, <1>3, <1>5, SortedKeeps

LEMMA LoopSleepsKeeps ==
  ASSUME IInv, LoopSleeps
  PROVE  IInv'
  <1>1. TypeOK /\ Hands /\ Seen
    BY InvParts
  <1>2. /\ loop.pc = "warming" /\ loop' = Asleep
        /\ UNCHANGED <<box, phase, pool, stamps, pausedIds, fails, breaker, spin, fill,
                       pauser, reaper, user, faults>>
    BY DEF LoopSleeps, poolVars, breakerVars
  <1>3. /\ loop'.pc = "sleep" /\ loop'.kept = <<>> /\ loop'.victim = None
        /\ loop' \in LoopType
    BY <1>2, Nobody DEF Asleep, LoopType, Boxed
  <1>4. loop.kept = <<>> /\ loop.victim = None /\ ~Stopping
    BY <1>1, <1>2 DEF Hands, Shaped, AtWork
  <1>5. Pooled' = Pooled /\ Queued' = Queued /\ Filling' = Filling
    BY <1>2, <1>3, <1>4 DEF Pooled, Queued, Filling
  <1>6. TypeOK'
    BY <1>1, <1>2, <1>3 DEF TypeOK, LoopType
  <1>7. Hands'
    <2>1. Shaped'
      BY <1>2, <1>3, <1>4 DEF Shaped, AtWork, Stopping
    <2>2. NoGain
      BY <1>2 DEF NoGain
    <2>3. Apart(pool', loop'.kept) /\ loop'.victim \notin Pooled'
      BY <1>1, <1>2, <1>3, <1>4, <1>5 DEF Hands, Held
    <2>4. QED
      BY <1>1, <1>5, <2>1, <2>2, <2>3, HandsShrink
  <1>8. StillSeen
    BY <1>2, <1>5 DEF StillSeen
  <1>9. QED
    BY <1>1, <1>6, <1>7, <1>8, SeenStays, InvParts


-----------------------------------------------------------------------------
(* The reaper. *)
LEMMA ReaperKeeps ==
  ASSUME IInv, ReaperDue \/ ReaperScan \/ \E b \in Boxes : ReaperRemove(b)
  PROVE  IInv'
  <1>1. TypeOK /\ Hands /\ Seen
    BY InvParts
  <1>2. /\ UNCHANGED <<phase, pool, stamps, pausedIds, fails, breaker, spin, fill, pauser,
                       loop, user>>
        /\ Fault \/ faults' = faults
    BY DEF ReaperDue, ReaperScan, ReaperRemove, poolVars, breakerVars
  <1>3. reaper.cands \subseteq Boxes
    BY <1>1 DEF TypeOK
  <1>4. /\ reaper' \in [pc : {"idle", "due", "asking", "removing"}, cands : SUBSET Boxes]
        /\ reaper'.cands \subseteq reaper.cands
    <2>1. CASE ReaperDue
      BY <1>1, <2>1 DEF ReaperDue, TypeOK
    <2>2. CASE ReaperScan
      BY <1>3, <2>2 DEF ReaperScan, LeftOf, NoReap
    <2>3. CASE \E b \in Boxes : ReaperRemove(b)
      BY <1>1, <1>3, <2>3 DEF ReaperRemove, LeftOf, NoReap, TypeOK
    <2>4. QED
      BY <2>1, <2>2, <2>3
  <1>5. box' \in [Boxes -> Container] /\ \A d \in Boxes : box'[d].age \in {0, box[d].age}
    <2>1. box' = box \/ \E b \in Boxes : box' = [box EXCEPT ![b] = Gone]
      BY DEF ReaperDue, ReaperScan, ReaperRemove
    <2>2. box \in [Boxes -> Container]
      BY <1>1 DEF TypeOK, Container
    <2>3. QED
      BY <1>1, <2>1, <2>2, Removed DEF BoxOnly
  <1>6. TypeOK'
    BY <1>1, <1>2, <1>4, <1>5, FaultTyped DEF TypeOK, Container
  <1>7. Hands'
    BY <1>1, <1>2, HandsStay DEF NoGain
  <1>8. Pooled' = Pooled /\ Filling' = Filling
    BY <1>2 DEF Pooled, Filling
  <1>9. StillSeen
    BY <1>2, <1>4, <1>5, <1>8 DEF StillSeen
  <1>10. QED
    BY <1>1, <1>6, <1>7, <1>9, SeenStays, InvParts

-----------------------------------------------------------------------------
(* The first of the queue is taken away, by a die event or by stop().       *)
LEMMA HeadGoes ==
  ASSUME IInv, pool # <<>>, pool' = Tail(pool),
         stamps' \in {stamps, stamps \ {Head(pool)}}, pausedIds' \subseteq pausedIds,
         UNCHANGED <<phase, fails, breaker, spin, fill, pauser, loop, reaper, user>>,
         box' = box \/ box' = [box EXCEPT ![Head(pool)] = Gone],
         Fault \/ faults' = faults
  PROVE  IInv'
  <1> DEFINE b == Head(pool)
  <1>1. TypeOK /\ Hands /\ Seen
    BY InvParts
  <1>2. /\ Boxed(pool) /\ Boxed(pool') /\ Len(pool') <= Len(pool) /\ Len(pool) <= MaxSize
        /\ Len(pool) \in Nat /\ Len(pool') \in Nat
        /\ b \in Range(pool) /\ b \in Boxes
        /\ Range(pool') \subseteq Range(pool) /\ IsInjective(pool') /\ b \notin Range(pool')
    BY <1>1, PoolTyped, TailDoes, BoxedLens DEF Hands, Held, Apart
  <1>3. /\ stamps' \subseteq stamps /\ stamps \ stamps' \subseteq {b}
        /\ box' = box \/ box' = [box EXCEPT ![b] = Gone]
    OBVIOUS
  <1> HIDE DEF b
  <1>4. box' \in [Boxes -> Container] /\ \A d \in Boxes : box'[d].age \in {0, box[d].age}
    <2>1. box \in [Boxes -> Container]
      BY <1>1 DEF TypeOK, Container
    <2>2. QED
      BY <1>1, <1>2, <1>3, <2>1, Removed DEF BoxOnly
  <1>5. Len(pool') <= MaxSize
    BY <1>2, SizesAssumption
  <1>6. TypeOK'
    BY <1>1, <1>2, <1>3, <1>4, <1>5, FaultTyped DEF TypeOK, Boxed, Container
  <1>7. b \notin Range(loop.kept)
    BY <1>1, <1>2 DEF Hands, Held, Apart
  <1>8. /\ Pooled' \subseteq Pooled /\ Queued' \subseteq Queued /\ b \notin Pooled'
        /\ Filling' = Filling
    BY <1>2, <1>7 DEF Pooled, Queued, Filling
  <1>9. Hands'
    <2>1. Shaped'
      BY <1>1 DEF Hands, Shaped, AtWork, Stopping
    <2>2. Apart(pool', loop'.kept) /\ loop'.victim \notin Pooled'
      BY <1>1, <1>2, <1>8 DEF Hands, Held, Apart
    <2>3. NoGain
      BY DEF NoGain
    <2>4. QED
      BY <1>1, <1>8, <2>1, <2>2, <2>3, HandsShrink
  <1>10. StillSeen
    BY <1>3, <1>4, <1>8 DEF StillSeen
  <1>11. QED
    BY <1>1, <1>6, <1>9, <1>10, SeenStays, InvParts

LEMMA HeadGone ==
  ASSUME IInv, DieEvent \/ StopOne
  PROVE  IInv'
  <1>1. CASE DieEvent
    BY <1>1, HeadGoes DEF DieEvent, breakerVars, taskVars
  <1>2. CASE StopOne
    BY <1>2, HeadGoes DEF StopOne, breakerVars, taskVars
  <1>3. QED
    BY <1>1, <1>2

LEMMA StopKeeps ==
  ASSUME IInv, Stop
  PROVE  IInv'
  <1>1. TypeOK /\ Hands /\ Seen
    BY InvParts
  <1>2. /\ phase' = "stopping" /\ loop' = [Asleep EXCEPT !.pc = "off"]
        /\ fill' = [fill EXCEPT !["loop"] = "idle"] /\ Fault
        /\ UNCHANGED <<box, pool, stamps, pausedIds, fails, breaker, spin, pauser, reaper,
                       user>>
    BY DEF Stop, breakerVars
  <1>3. /\ loop'.pc = "off" /\ loop'.kept = <<>> /\ loop'.victim = None
        /\ loop' \in LoopType
    BY <1>2, Nobody DEF Asleep, LoopType, Boxed
  <1>4. /\ fill' \in [Fills -> Boxes \cup {"idle", "check"}]
        /\ \A g \in Fills : fill'[g] \in Boxes => fill'[g] = fill[g]
    BY <1>1, <1>2, FillingNames DEF TypeOK
  <1>5. NoGain
    BY <1>2, <1>4 DEF NoGain
  <1>6. Range(pool) \subseteq Pooled /\ Pooled \subseteq Queued
        /\ Pooled' = Range(pool) /\ Queued' = Range(pool)
    BY <1>2, <1>3, Nobody DEF Pooled, Queued
  <1>7. TypeOK'
    BY <1>1, <1>2, <1>3, <1>4, FaultTyped DEF TypeOK, LoopType
  <1>8. Hands'
    <2>1. Shaped'
      BY <1>3 DEF Shaped, AtWork
    <2>2. Apart(pool', loop'.kept)
      BY <1>1, <1>2, <1>3, Nobody DEF Hands, Held, Apart
    <2>3. loop'.victim \notin Pooled'
      BY <1>1, <1>3, <1>6, PoolTyped, NamesAssumption
    <2>4. QED
      BY <1>1, <1>5, <1>6, <2>1, <2>2, <2>3, HandsShrink
  <1>9. StillSeen
    BY <1>2, <1>5, <1>6, NoGainLess DEF StillSeen
  <1>10. QED
    BY <1>1, <1>7, <1>8, <1>9, SeenStays, InvParts

LEMMA StopEndKeeps ==
  ASSUME IInv, StopEnd
  PROVE  IInv'
  <1>1. TypeOK /\ Hands /\ Seen
    BY InvParts
  <1>2. /\ phase = "stopping" /\ pool = <<>> /\ phase' = "stopped"
        /\ stamps' = {} /\ pausedIds' = {}
        /\ UNCHANGED <<box, pool, fails, breaker, spin, fill, pauser, loop, reaper, user,
                       faults>>
    BY DEF StopEnd, breakerVars, taskVars
  <1>3. TypeOK'
    BY <1>1, <1>2 DEF TypeOK
  <1>4. Pooled' = Pooled /\ Queued' = Queued /\ Filling' = Filling
    BY <1>2 DEF Pooled, Queued, Filling
  <1>5. loop.kept = <<>>
    BY <1>1, <1>2 DEF Hands, Shaped, AtWork, Stopping
  <1>6. Pooled = {}
    BY <1>2, <1>5, Nobody DEF Pooled
  <1>7. Hands'
    <2>1. Shaped'
      BY <1>1, <1>2 DEF Hands, Shaped, AtWork, Stopping
    <2>2. NoGain
      BY <1>2 DEF NoGain
    <2>3. QED
      BY <1>1, <1>2, <1>4, <2>1, <2>2, HandsShrink DEF Hands, Held
  <1>8. StillSeen
    BY <1>2, <1>4, <1>6 DEF StillSeen
  <1>9. QED
    BY <1>1, <1>3, <1>7, <1>8, SeenStays, InvParts

(* A process that starts: its pool is empty, and nothing is under way.      *)
Fresh ==
  /\ phase = "up" /\ pool = <<>> /\ stamps = {} /\ pausedIds = {}
  /\ fails = 0 /\ breaker = "closed" /\ spin = FALSE
  /\ \E t \in Tasks : fill = Started(t)
  /\ pauser = [b \in Boxes |-> "none"]
  /\ loop = Asleep /\ reaper = NoReap

LEMMA FreshIs ==
  ASSUME Fresh
  PROVE  /\ fill \in [Fills -> {"idle", "check"}] /\ Filling = {}
         /\ loop \in LoopType /\ loop.pc = "sleep" /\ loop.kept = <<>> /\ loop.victim = None
         /\ reaper \in [pc : {"idle"}, cands : {{}}]
         /\ Pooled = {} /\ Queued = {} /\ Apart(pool, loop.kept)
         /\ pool \in Seq(Boxes) /\ Len(pool) <= MaxSize /\ fails \in 0..MaxFails
  <1>1. fill \in [Fills -> {"idle", "check"}]
    BY DEF Fresh, Started
  <1>2. Filling = {}
    BY <1>1, NamesAssumption DEF Filling
  <1>3. /\ loop \in LoopType /\ loop.pc = "sleep" /\ loop.kept = <<>> /\ loop.victim = None
        /\ reaper \in [pc : {"idle"}, cands : {{}}]
    BY Nobody DEF Fresh, Asleep, LoopType, Boxed, NoReap
  <1>4. Pooled = {} /\ Queued = {} /\ Apart(pool, loop.kept)
    BY <1>3, Nobody DEF Fresh, Pooled, Queued, Apart
  <1>5. pool \in Seq(Boxes) /\ Len(pool) <= MaxSize /\ fails \in 0..MaxFails
    BY Nobody, SizesAssumption DEF Fresh, Boxed
  <1>6. QED
    BY <1>1, <1>2, <1>3, <1>4, <1>5

LEMMA FreshHolds ==
  ASSUME Fresh,
         box \in [Boxes -> Container], user \in [Sessions -> Session], faults \in 0..MaxFaults,
         Seated,
         \A c, d \in Sessions :
           user[c].pc \in HasBox /\ user[d].pc \in HasBox /\ user[c].box = user[d].box => c = d
  PROVE  IInv
  <1>1. TypeOK
    BY FreshIs DEF Fresh, TypeOK, LoopType, Container, Session
  <1>2. Shaped
    BY FreshIs DEF Fresh, Shaped, AtWork, Stopping
  <1>3. Held
    <2>1. \A f \in Fills : fill[f] \notin Boxes
      BY FreshIs, NamesAssumption
    <2>2. QED
      BY <2>1, FreshIs DEF Held
  <1>4. Tracked /\ Young /\ ReaperSparesPool
    BY FreshIs DEF Fresh, Tracked, Young, ReaperSparesPool
  <1>5. QED
    BY <1>1, <1>2, <1>3, <1>4 DEF IInv

(* Nothing exists yet.                                                      *)
THEOREM InitEstablishes == Init => IInv
  <1> SUFFICES ASSUME Init
               PROVE  IInv
    OBVIOUS
  <1>1. Fresh
    BY DEF Init, Fresh
  <1>2. Gone \in Container
    BY DEF Gone, Container
  <1>3. NoUser \in Session /\ NoUser.pc = "idle"
    BY SizesAssumption DEF NoUser, Session
  <1>4. box \in [Boxes -> Container] /\ user \in [Sessions -> Session]
        /\ faults \in 0..MaxFaults
    BY <1>2, <1>3, SizesAssumption DEF Init
  <1>5. \A c \in Sessions : user[c].pc \notin HasBox
    BY <1>3 DEF Init, HasBox, Saved
  <1>6. QED
    BY <1>1, <1>4, <1>5, FreshHolds DEF Seated

(* The process starts again, after a stop or a crash: sessions that had     *)
(* saved their sandbox still have it, and nothing else has one.             *)
Restarted ==
  /\ Fresh
  /\ box \in [Boxes -> Container] /\ user \in [Sessions -> Session] /\ faults \in 0..MaxFaults
  /\ Seated
  /\ \A c, d \in Sessions :
       user[c].pc \in HasBox /\ user[d].pc \in HasBox /\ user[c].box = user[d].box => c = d

LEMMA RestartedHolds == Restarted' => IInv'
  <1>1. Restarted => IInv
    BY FreshHolds DEF Restarted
  <1>2. QED
    BY <1>1, PTL

LEMMA RestartKeeps ==
  ASSUME IInv, Restart
  PROVE  IInv'
  <1>1. TypeOK /\ Hands
    BY InvParts
  <1>2. /\ Fault \/ faults' = faults
        /\ box' = box
        /\ user' = [c \in Sessions |-> IF user[c].pc \in Saved THEN user[c] ELSE Over]
    BY DEF Restart
  <1>3. Over \in Session /\ Over.pc = "over"
    BY SizesAssumption DEF NoUser, Over, Session
  <1>4. Fresh'
    BY DEF Restart, Fresh
  <1>5. box' \in [Boxes -> Container] /\ faults' \in 0..MaxFaults
    BY <1>1, <1>2, FaultTyped DEF TypeOK, Container
  <1>6. /\ user' \in [Sessions -> Session]
        /\ \A c \in Sessions :
             user'[c].pc \in HasBox => user'[c] = user[c]
    BY <1>1, <1>2, <1>3 DEF TypeOK, Session, HasBox, Saved
  <1>7. Seated'
    BY <1>1, <1>6 DEF Hands, Seated
  <1>8. \A c, d \in Sessions :
          user'[c].pc \in HasBox /\ user'[d].pc \in HasBox /\ user'[c].box = user'[d].box
            => c = d
    BY <1>1, <1>6 DEF Hands, Held
  <1>9. Restarted'
    BY <1>4, <1>5, <1>6, <1>7, <1>8 DEF Restarted
  <1>10. QED
    BY <1>9, RestartedHolds

-----------------------------------------------------------------------------
(* Every step of the pool, its tasks, its callers and the host preserves    *)
(* the inductive invariant.                                                 *)
THEOREM StepPreserves == IInv /\ [Next]_vars => IInv'
  <1> SUFFICES ASSUME IInv, [Next]_vars
               PROVE  IInv'
    OBVIOUS
  <1>1. ASSUME NEW b \in Boxes, Ages(b) \/ Exits(b) \/ PauseStart(b) \/ PauseDone(b)
        PROVE  IInv'
    BY <1>1, AgesKeeps, PauseKeeps
  <1>2. CASE BackoffOver
    BY <1>2, BackoffKeeps
  <1>3. ASSUME NEW f \in Fills, Fill(f)
        PROVE  IInv'
    <2>1. Quits(f) \/ CreateStart(f) \/ CreateDone(f)
      BY <1>3 DEF Fill, Quits
    <2>2. QED
      BY <2>1, QuitsKeeps, CreateStartKeeps, CreateDoneKeeps
  <1>4. ASSUME NEW c \in Sessions,
               Ask(c) \/ Answer(c) \/ Bind(c) \/ Waits(c) \/ End(c) \/ Cancelled(c)
        PROVE  IInv'
    <2>1. Calls(c) \/ Get(c) \/ Unpaused(c) \/ Unhealthy(c) \/ OnDemand(c)
      BY <1>4 DEF Answer, Calls
    <2>2. QED
      BY <2>1, CallsKeep, GetKeeps, UnpausedKeeps, OnDemandKeeps
  <1>5. CASE Loop
    BY <1>5, LoopRoundKeeps, EvictKeeps, ShedKeeps, LoopSleepsKeeps DEF Loop
  <1>6. CASE Reaps
    BY <1>6, ReaperKeeps DEF Reaps
  <1>7. CASE DieEvent \/ Stop \/ Stops \/ Restart
    BY <1>7, HeadGone, StopKeeps, StopEndKeeps, RestartKeeps DEF Stops
  <1>8. CASE UNCHANGED vars
    <2>1. TypeOK /\ Hands /\ Seen
      BY InvParts
    <2>2. UNCHANGED <<box, phase, pool, stamps, pausedIds, fails, breaker, spin, fill, pauser,
                      loop, reaper, user, faults>>
      BY <1>8 DEF vars, poolVars, breakerVars, taskVars
    <2>3. TypeOK'
      BY <2>1, <2>2 DEF TypeOK
    <2>4. NoGain
      BY <2>2 DEF NoGain
    <2>5. Pooled' = Pooled /\ Filling' = Filling
      BY <2>2 DEF Pooled, Filling
    <2>6. StillSeen
      BY <2>2, <2>5 DEF StillSeen
    <2>7. QED
      BY <2>1, <2>2, <2>3, <2>4, <2>6, HandsStay, SeenStays, InvParts
  <1>9. QED
    BY <1>1, <1>2, <1>3, <1>4, <1>5, <1>6, <1>7, <1>8 DEF Next

(* Whatever the sessions, tasks and failures, the inductive invariant holds *)
(* in every reachable state of the pool.                                    *)
THEOREM Invariance == Spec => []IInv
  <1>1. QED
    BY InitEstablishes, StepPreserves, PTL DEF Spec

(* The pool, its tasks and its callers keep to their types: in particular,  *)
(* neither an eviction nor a shutdown overfills the queue.                  *)
THEOREM TypeCorrect == Spec => []TypeOK
  <1>1. IInv => TypeOK
    BY DEF IInv
  <1>2. QED
    BY <1>1, Invariance, PTL

(* No sandbox of the pool is unknown to eviction and reaper, for any number *)
(* of sandboxes, sessions and tasks.                                        *)
THEOREM AlwaysTracked == Spec => []Tracked
  <1>1. IInv => Tracked
    BY DEF IInv
  <1>2. QED
    BY <1>1, Invariance, PTL

(* The reaper's snapshot never names what the pool holds or creates.        *)
THEOREM ReaperSpares == Spec => []ReaperSparesPool
  <1>1. IInv => ReaperSparesPool
    BY DEF IInv
  <1>2. QED
    BY <1>1, Invariance, PTL

LEMMA HeldOnce ==
  ASSUME IInv
  PROVE  Exclusive
  <1> DEFINE victims == IF loop.pc \in {"evicting", "shedding"} THEN <<loop.victim>> ELSE <<>>
             taken   == pool \o loop.kept
             queued  == taken \o victims
  <1>1. TypeOK /\ Shaped /\ Held
    BY DEF IInv
  <1>2. Boxed(pool) /\ Boxed(loop.kept)
    BY <1>1, PoolTyped DEF Boxed
  <1>3. /\ Boxed(victims) /\ IsInjective(victims)
        /\ Range(victims) = {loop.victim} \ {None}
    <2>1. CASE AtWork
      <3>1. loop.victim \in Boxes /\ victims = <<loop.victim>>
        BY <1>1, <2>1 DEF AtWork, Shaped
      <3>2. QED
        BY <3>1, NamesAssumption, Nobody DEF Boxed, IsInjective, Range
    <2>2. CASE ~AtWork
      <3>1. loop.victim = None /\ victims = <<>>
        BY <1>1, <2>2 DEF AtWork, Shaped
      <3>2. QED
        BY <3>1, Nobody
    <2>3. QED
      BY <2>1, <2>2
  <1> HIDE DEF victims
  <1>4. Boxed(taken) /\ Range(taken) = Pooled /\ IsInjective(taken)
    BY <1>1, <1>2, CatDoes DEF Held, Pooled
  <1> HIDE DEF taken
  <1>5. Apart(taken, victims)
    BY <1>1, <1>3, <1>4 DEF Held, Apart
  <1>6. IsInjective(queued) /\ Range(queued) = Queued
    BY <1>3, <1>4, <1>5, CatDoes DEF Queued, Pooled
  <1> HIDE DEF queued
  <1>7. Range(queued) \cap (Used \cup Filling) = {} /\ Used \cap Filling = {}
    BY <1>1, <1>6 DEF Held
  <1>8. QED
    BY <1>1, <1>6, <1>7 DEF Exclusive, Held, queued, taken, victims

(* No sandbox is in the queue twice, in the eviction's list and the queue,  *)
(* or in the hands of two sessions or creations.                            *)
THEOREM NeverShared == Spec => []Exclusive
  <1>1. QED
    BY HeldOnce, Invariance, PTL

-----------------------------------------------------------------------------
(* What a step may remove. *)
LEMMA NotGone ==
  ASSUME TypeOK, NEW d \in Boxes, NEW b \in Boxes, Exists(b),
         NEW s \in {"gone", "running", "paused", "exited"}, s # "gone" \/ s = box[d].state,
         box' = [box EXCEPT ![d].state = s]
  PROVE  box'[b] # Gone
  <1>1. box[b] \in Container /\ box'[b] \in Container
    BY StateChanged DEF TypeOK, Container, BoxOnly
  <1>2. /\ d # b => box'[b] = box[b]
        /\ box'[d].state = s /\ box'[d].age = box[d].age
    BY StateChanged DEF BoxOnly
  <1>3. QED
    BY <1>1, <1>2 DEF Exists, Gone, Container

LEMMA RemovedBy ==
  ASSUME IInv, [Next]_vars, NEW c \in Sessions, user[c].pc \in {"held"} \cup Saved,
         Exists(user[c].box)
  PROVE  box'[user[c].box] # Gone \/ user[c].box \in reaper.cands
  <1> DEFINE b == user[c].box
  <1>1. TypeOK /\ Hands
    BY InvParts
  <1>2. b \in Boxes /\ b \in Used /\ b \notin Queued /\ b \notin Filling
    BY <1>1, UsedBy DEF Hands, Seated, Held, HasBox
  <1>3. Exists(b)
    OBVIOUS
  <1>4. \A d \in Sessions : user[d].pc = "unpausing" => user[d].box # b
    BY <1>1 DEF Hands, Held, HasBox, Saved
  <1> SUFFICES ASSUME b \notin reaper.cands
               PROVE  box'[b] # Gone
    OBVIOUS
  <1> HIDE DEF b
  <1>5. box' = box => box'[b] # Gone
    BY <1>3 DEF Exists
  <1>6. \A d \in Boxes : d # b /\ box' = [box EXCEPT ![d] = Gone] => box'[b] # Gone
    BY <1>1, <1>2, <1>3, Removed DEF Exists, BoxOnly
  <1>7. \A d \in Boxes : box' = [box EXCEPT ![d] = Running] => box'[b] # Gone
    <2>1. Running # Gone
      BY DEF Running, Gone
    <2>2. QED
      BY <1>1, <1>2, <1>3, <2>1, Made DEF Exists, BoxOnly
  <1>8. ASSUME NEW d \in Boxes, Ages(d) \/ Exits(d) \/ PauseStart(d) \/ PauseDone(d)
        PROVE  box'[b] # Gone
    <2>1. CASE Ages(d)
      <3>1. box'[d].age = box[d].age + 1 /\ box[d].age \in Nat
        <4> DEFINE y == [box[d] EXCEPT !.age = @ + 1]
        <4>1. box[d] \in Container
          BY <1>1 DEF TypeOK, Container
        <4>2. y.age = box[d].age + 1 /\ box[d].age \in Nat
          BY <4>1 DEF Container
        <4>3. box' = [box EXCEPT ![d] = y]
          BY <2>1 DEF Ages
        <4> HIDE DEF y
        <4>4. box'[d] = y
          BY <1>1, <4>3 DEF TypeOK
        <4>5. QED
          BY <4>2, <4>4
      <3>2. QED
        BY <1>1, <1>2, <1>3, <2>1, <3>1, Aged DEF BoxOnly, Exists, Gone
    <2>2. CASE Exits(d)
      BY <1>1, <1>2, <1>3, <2>2, NotGone DEF Exits
    <2>3. CASE PauseStart(d)
      BY <1>5, <2>3 DEF PauseStart
    <2>4. CASE PauseDone(d)
      <3>1. \/ box' = box
            \/ \E s \in {"gone", "running", "paused", "exited"} :
                 /\ s # "gone" \/ s = box[d].state
                 /\ box' = [box EXCEPT ![d].state = s]
        BY <1>1, <2>4 DEF PauseDone, TypeOK
      <3>2. QED
        BY <1>1, <1>2, <1>3, <1>5, <3>1, NotGone
    <2>5. QED
      BY <1>8, <2>1, <2>2, <2>3, <2>4
  <1>9. ASSUME NEW f \in Fills, Fill(f)
        PROVE  box'[b] # Gone
    <2>1. CASE CreateStart(f)
      BY <1>7, <2>1 DEF CreateStart
    <2>2. CASE CreateDone(f)
      <3>1. fill[f] \in Filling /\ fill[f] \in Boxes
        BY <2>2, FilledBy DEF CreateDone
      <3>2. QED
        BY <1>2, <1>5, <1>6, <2>2, <3>1 DEF CreateDone
    <2>3. CASE Quits(f)
      BY <1>5, <2>3 DEF Quits, EnoughOrStopping, MemoryPressure, CircuitOpen, CreateRaises,
                        CreateFails
    <2>4. QED
      BY <1>9, <2>1, <2>2, <2>3 DEF Fill, Quits
  <1>10. ASSUME NEW d \in Sessions,
                Ask(d) \/ Answer(d) \/ Bind(d) \/ Waits(d) \/ End(d) \/ Cancelled(d)
         PROVE  box'[b] # Gone
    <2>1. CASE Calls(d)
      BY <1>5, <2>1 DEF Calls, Ask, TimedOut, NoRoom, Bind, Waits, End, Cancelled
    <2>2. CASE Get(d)
      BY <1>5, <2>2 DEF Get
    <2>3. CASE Unpaused(d)
      <3>1. user[d].box \in Boxes
        BY <1>1, <2>3 DEF Unpaused, Hands, Seated, HasBox
      <3>2. QED
        BY <1>1, <1>2, <1>3, <2>3, <3>1, NotGone DEF Unpaused
    <2>4. CASE Unhealthy(d)
      <3>1. user[d].box \in Boxes /\ user[d].box # b
        BY <1>1, <1>4, <2>4 DEF Unhealthy, Hands, Seated, HasBox
      <3>2. QED
        BY <1>6, <2>4, <3>1 DEF Unhealthy
    <2>5. CASE OnDemand(d)
      BY <1>7, <2>5 DEF OnDemand
    <2>6. QED
      BY <1>10, <2>1, <2>2, <2>3, <2>4, <2>5 DEF Answer, Calls
  <1>11. CASE Loop
    <2>1. loop.pc \in {"evicting", "shedding"} => loop.victim \in Boxes /\ loop.victim # b
      BY <1>1, <1>2, NamesAssumption DEF Hands, Shaped, AtWork, Queued
    <2>2. QED
      <3>1. CASE LoopRound \/ LoopSleeps
        BY <1>5, <3>1 DEF LoopRound, LoopSleeps
      <3>2. CASE Evict
        <4>1. /\ loop.pc = "evicting"
              /\ box' = box \/ box' = [box EXCEPT ![loop.victim] = Gone]
          BY <3>2 DEF Evict
        <4>2. QED
          BY <1>5, <1>6, <2>1, <4>1
      <3>3. CASE Shed
        <4>1. loop.pc = "shedding" /\ box' = [box EXCEPT ![loop.victim] = Gone]
          BY <3>3 DEF Shed
        <4>2. QED
          BY <1>6, <2>1, <4>1
      <3>4. QED
        BY <1>11, <3>1, <3>2, <3>3 DEF Loop
  <1>12. CASE Reaps
    <2>1. ASSUME NEW d \in Boxes, ReaperRemove(d)
          PROVE  box'[b] # Gone
      BY <1>6, <2>1 DEF ReaperRemove
    <2>2. CASE ReaperDue \/ ReaperScan
      BY <1>5, <2>2 DEF ReaperDue, ReaperScan
    <2>3. QED
      BY <1>12, <2>1, <2>2 DEF Reaps
  <1>13. CASE BackoffOver \/ DieEvent \/ Stop \/ Restart \/ StopEnd
    BY <1>5, <1>13 DEF BackoffOver, DieEvent, Stop, Restart, StopEnd
  <1>14. CASE StopOne
    <2>1. /\ pool # <<>> /\ Boxed(pool)
          /\ box' = box \/ box' = [box EXCEPT ![Head(pool)] = Gone]
      BY <1>1, <1>14, PoolTyped DEF StopOne
    <2>2. Head(pool) \in Boxes /\ Head(pool) \in Queued
      BY <2>1, TailDoes DEF Queued
    <2>3. QED
      BY <1>2, <1>5, <1>6, <2>1, <2>2
  <1>15. CASE UNCHANGED vars
    BY <1>5, <1>15 DEF vars
  <1>16. QED
    BY <1>8, <1>9, <1>10, <1>11, <1>12, <1>13, <1>14, <1>15 DEF Next, Stops

(* While a session has a sandbox nothing but the reaper removes it: every   *)
(* other removal is of a sandbox that its task alone holds.                 *)
THEOREM RemovalsAreTheReapers == Spec => OnlyReaperRemoves
  <1>1. IInv /\ [Next]_vars =>
          [\A c \in Sessions :
             user[c].pc \in {"held"} \cup Saved /\ Exists(user[c].box)
               => box'[user[c].box] # Gone \/ user[c].box \in reaper.cands]_vars
    BY RemovedBy
  <1>2. QED
    BY <1>1, Invariance, PTL DEF Spec, OnlyReaperRemoves
=============================================================================
