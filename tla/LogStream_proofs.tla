--------------------------- MODULE LogStream_proofs ---------------------------
(***************************************************************************)
(* Proofs about the killfeed consumer for every buffer size and bound.     *)
(***************************************************************************)
EXTENDS LogStream, SequenceTheorems, WellFoundedInduction, TLAPS

-----------------------------------------------------------------------------
(***************************************************************************)
(* The filter of record() and window_for_match().  Induction over a        *)
(* segment of the naturals is stated for a set, and proved by its least    *)
(* counterexample.                                                         *)
(***************************************************************************)
LEMMA SegmentInduction ==
  ASSUME NEW n \in Nat, NEW Good, 0 \in Good,
         \A k \in 0..(n - 1) : k \in Good => k + 1 \in Good
  PROVE  \A k \in 0..n : k \in Good
<1> DEFINE Bad == {k \in 0..n : k \notin Good}
           R == OpToRel(<, Nat)
<1> SUFFICES ASSUME Bad # {} PROVE FALSE
  OBVIOUS
<1>1. IsWellFoundedOn(R, Nat)
  BY NatLessThanWellFounded
<1>2. \A x, y \in Nat : y < x => <<y, x>> \in R
  BY DEF OpToRel
<1>3. Bad \subseteq Nat
  OBVIOUS
<1> HIDE DEF R
<1>4. PICK x \in Bad : \A y \in Bad : ~ (<<y, x>> \in R)
  BY <1>1, <1>3, WFMin
<1>5. x \in 1..n /\ x - 1 \in 0..(n - 1)
  BY <1>4
<1>6. x - 1 \notin Bad
  <2>1. x \in Nat /\ x - 1 \in Nat /\ x - 1 < x
    BY <1>5
  <2>2. <<x - 1, x>> \in R
    BY <1>2, <2>1
  <2>3. QED
    BY <1>4, <2>2
<1>7. QED
  BY <1>4, <1>5, <1>6

\* The function Keep is defined by, on the first n elements.
KeepSteps(s, S, n, f) ==
  f = [k \in 0..n |-> IF k = 0 THEN <<>>
                      ELSE IF s[k] \in S THEN Append(f[k - 1], s[k])
                      ELSE f[k - 1]]

LEMMA KeepDefined ==
  ASSUME NEW s, NEW S, Len(s) \in Nat
  PROVE  \E f : KeepSteps(s, S, Len(s), f) /\ Keep(s, S) = f[Len(s)]
<1> DEFINE Good == {n \in Nat : \E f : KeepSteps(s, S, n, f)}
           g == CHOOSE f : KeepSteps(s, S, Len(s), f)
<1>1. 0 \in Good
  <2> DEFINE f == [k \in 0..0 |-> <<>>]
  <2>1. KeepSteps(s, S, 0, f)
    BY DEF KeepSteps
  <2>2. QED
    BY <2>1
<1>2. ASSUME NEW k \in 0..(Len(s) - 1), k \in Good
      PROVE  k + 1 \in Good
  <2>1. PICK f : KeepSteps(s, S, k, f)
    BY <1>2
  <2> DEFINE h == [j \in 0..(k + 1) |->
                     IF j = k + 1
                     THEN IF s[j] \in S THEN Append(f[j - 1], s[j]) ELSE f[j - 1]
                     ELSE f[j]]
  <2>2. \A j \in 0..(k + 1) : h[j] = IF j = 0 THEN <<>>
                                     ELSE IF s[j] \in S THEN Append(h[j - 1], s[j])
                                     ELSE h[j - 1]
    <3>1. \A j \in 0..k : f[j] = IF j = 0 THEN <<>>
                                 ELSE IF s[j] \in S THEN Append(f[j - 1], s[j])
                                 ELSE f[j - 1]
      BY <2>1 DEF KeepSteps
    <3>2. \A j \in 0..k : h[j] = f[j]
      OBVIOUS
    <3>3. h[k + 1] = IF s[k + 1] \in S THEN Append(h[k], s[k + 1]) ELSE h[k]
      BY <3>2
    <3>4. \A j \in 1..k : h[j - 1] = f[j - 1]
      BY <3>2
    <3> HIDE DEF h
    <3>5. TAKE j \in 0..(k + 1)
    <3>6. CASE j = k + 1
      BY <3>3, <3>6
    <3>7. CASE j = 0
      BY <3>1, <3>2, <3>7
    <3>8. CASE j \in 1..k
      BY <3>1, <3>2, <3>4, <3>8
    <3>9. QED
      BY <3>6, <3>7, <3>8
  <2>3. KeepSteps(s, S, k + 1, h)
    BY <2>2 DEF KeepSteps
  <2>4. QED
    BY <2>3
<1>3. Len(s) \in Good
  <2> HIDE DEF Good
  <2>1. \A k \in 0..(Len(s) - 1) : k \in Good => k + 1 \in Good
    BY <1>2
  <2>2. \A k \in 0..Len(s) : k \in Good
    BY <1>1, <2>1, SegmentInduction
  <2>3. QED
    BY <2>2
<1>4. KeepSteps(s, S, Len(s), g)
  BY <1>3
<1>5. Keep(s, S) = g[Len(s)]
  BY DEF Keep, KeepSteps
<1>6. QED
  BY <1>4, <1>5

Increasing(s) == \A j, k \in 1..Len(s) : j < k => s[j] < s[k]

LEMMA AppendLarger ==
  ASSUME NEW T, T \subseteq Int, NEW s \in Seq(T), Increasing(s), NEW x \in T,
         \A y \in Contents(s) : y < x
  PROVE  /\ Append(s, x) \in Seq(T) /\ Len(Append(s, x)) = Len(s) + 1
         /\ Increasing(Append(s, x))
         /\ Contents(Append(s, x)) = Contents(s) \cup {x}
<1> DEFINE t == Append(s, x)
<1>1. t \in Seq(T) /\ Len(t) = Len(s) + 1 /\ Len(s) \in Nat
  BY AppendProperties
<1>2. \A i \in 1..Len(s) : t[i] = s[i] /\ s[i] \in Contents(s) /\ s[i] \in T
  BY AppendProperties DEF Contents
<1>3. t[Len(s) + 1] = x
  BY AppendProperties
<1> HIDE DEF t
<1>4. Increasing(t)
  <2> SUFFICES ASSUME NEW j \in 1..Len(t), NEW k \in 1..Len(t), j < k PROVE t[j] < t[k]
    BY DEF Increasing
  <2>1. j \in 1..Len(s)
    BY <1>1
  <2>2. CASE k \in 1..Len(s)
    BY <1>2, <2>1, <2>2 DEF Increasing
  <2>3. CASE k = Len(s) + 1
    BY <1>2, <1>3, <2>1, <2>3
  <2>4. QED
    BY <1>1, <2>2, <2>3
<1>5. Contents(t) = Contents(s) \cup {x}
  <2>1. ASSUME NEW y \in Contents(t) PROVE y \in Contents(s) \cup {x}
    BY <1>1, <1>2, <1>3 DEF Contents
  <2>2. ASSUME NEW y \in Contents(s) PROVE y \in Contents(t)
    <3>1. PICK i \in 1..Len(s) : y = s[i]
      BY DEF Contents
    <3>2. i \in 1..Len(t) /\ t[i] = y
      BY <1>1, <1>2, <3>1
    <3>3. QED
      BY <3>2 DEF Contents
  <2>3. Len(s) + 1 \in 1..Len(t)
    BY <1>1
  <2>4. x \in Contents(t)
    BY <1>3, <2>3 DEF Contents
  <2>5. QED
    BY <2>1, <2>2, <2>4
<1>6. QED
  BY <1>1, <1>4, <1>5 DEF t

\* The comprehension keeps the order, and exactly the elements of S.
LEMMA KeepFilters ==
  ASSUME NEW T, T \subseteq Int, NEW s \in Seq(T), Increasing(s), NEW S
  PROVE  /\ Keep(s, S) \in Seq(T)
         /\ Increasing(Keep(s, S))
         /\ Len(Keep(s, S)) <= Len(s)
         /\ Contents(Keep(s, S)) = Contents(s) \cap S
<1>1. PICK f : KeepSteps(s, S, Len(s), f) /\ Keep(s, S) = f[Len(s)]
  BY KeepDefined
<1> DEFINE OK(n) == /\ f[n] \in Seq(T) /\ Increasing(f[n]) /\ Len(f[n]) <= n
                    /\ Contents(f[n]) = {s[k] : k \in 1..n} \cap S
           Good == {n \in 0..Len(s) : OK(n)}
<1>2. 0 \in Good
  BY <1>1 DEF KeepSteps, Increasing, Contents
<1>3. ASSUME NEW k \in 0..(Len(s) - 1), k \in Good
      PROVE  k + 1 \in Good
  <2>1. f[k + 1] = IF s[k + 1] \in S THEN Append(f[k], s[k + 1]) ELSE f[k]
    <3>1. k + 1 \in 0..Len(s) /\ k + 1 # 0 /\ (k + 1) - 1 = k
      OBVIOUS
    <3>2. \A j \in 0..Len(s) : f[j] = IF j = 0 THEN <<>>
                                      ELSE IF s[j] \in S THEN Append(f[j - 1], s[j])
                                      ELSE f[j - 1]
      BY <1>1 DEF KeepSteps
    <3>3. QED
      BY <3>1, <3>2
  <2>2. OK(k)
    BY <1>3
  <2>3. {s[i] : i \in 1..(k + 1)} = {s[i] : i \in 1..k} \cup {s[k + 1]}
    OBVIOUS
  <2>4. CASE s[k + 1] \in S
    <3>1. f[k + 1] = Append(f[k], s[k + 1]) /\ s[k + 1] \in T
      BY <2>1, <2>4
    <3>2. \A x \in Contents(f[k]) : x < s[k + 1]
      BY <2>2 DEF Increasing
    <3>3. /\ f[k + 1] \in Seq(T) /\ Len(f[k + 1]) = Len(f[k]) + 1
          /\ Increasing(f[k + 1])
          /\ Contents(f[k + 1]) = Contents(f[k]) \cup {s[k + 1]}
      <4> DEFINE u == f[k]
                 x == s[k + 1]
      <4>1. /\ u \in Seq(T) /\ Increasing(u) /\ x \in T
            /\ \A y \in Contents(u) : y < x
        BY <2>2, <3>1, <3>2
      <4> HIDE DEF u, x
      <4>2. /\ Append(u, x) \in Seq(T) /\ Len(Append(u, x)) = Len(u) + 1
            /\ Increasing(Append(u, x))
            /\ Contents(Append(u, x)) = Contents(u) \cup {x}
        BY <4>1, AppendLarger
      <4>3. QED
        BY <3>1, <4>2 DEF u, x
    <3>4. QED
      BY <2>2, <2>3, <2>4, <3>3
  <2>5. CASE s[k + 1] \notin S
    BY <2>1, <2>2, <2>3, <2>5
  <2>6. QED
    BY <2>4, <2>5
<1>4. Len(s) \in Good
  <2> HIDE DEF Good
  <2>1. \A k \in 0..(Len(s) - 1) : k \in Good => k + 1 \in Good
    BY <1>3
  <2>2. \A k \in 0..Len(s) : k \in Good
    BY <1>2, <2>1, SegmentInduction
  <2>3. QED
    BY <2>2
<1>5. OK(Len(s))
  BY <1>4
<1>6. QED
  BY <1>1, <1>5 DEF Contents

LEMMA ConcatLarger ==
  ASSUME NEW T, T \subseteq Int, NEW s \in Seq(T), NEW t \in Seq(T),
         Increasing(s), Increasing(t),
         \A x \in Contents(s) : \A y \in Contents(t) : x < y
  PROVE  /\ s \o t \in Seq(T) /\ Len(s \o t) = Len(s) + Len(t)
         /\ Increasing(s \o t)
         /\ Contents(s \o t) = Contents(s) \cup Contents(t)
<1> DEFINE u == s \o t
<1>1. u \in Seq(T) /\ Len(u) = Len(s) + Len(t) /\ Len(s) \in Nat /\ Len(t) \in Nat
  BY ConcatProperties
<1>2. \A i \in 1..Len(s) : u[i] = s[i] /\ s[i] \in T /\ s[i] \in Contents(s)
  BY DEF Contents
<1>3. \A i \in 1..Len(t) : u[Len(s) + i] = t[i] /\ t[i] \in T /\ t[i] \in Contents(t)
  BY ConcatProperties DEF Contents
<1> HIDE DEF u
<1>4. \A j \in 1..Len(u) : j \in 1..Len(s) \/ \E i \in 1..Len(t) : j = Len(s) + i
  <2> TAKE j \in 1..Len(u)
  <2>1. j \notin 1..Len(s) => j - Len(s) \in 1..Len(t) /\ j = Len(s) + (j - Len(s))
    BY <1>1
  <2>2. QED
    BY <2>1
<1>5. Increasing(u)
  <2> SUFFICES ASSUME NEW j \in 1..Len(u), NEW k \in 1..Len(u), j < k PROVE u[j] < u[k]
    BY DEF Increasing
  <2>1. CASE k \in 1..Len(s)
    BY <1>1, <1>2, <2>1 DEF Increasing
  <2>2. ASSUME NEW i \in 1..Len(t), k = Len(s) + i PROVE u[j] < u[k]
    <3>1. CASE j \in 1..Len(s)
      BY <1>2, <1>3, <2>2, <3>1
    <3>2. ASSUME NEW h \in 1..Len(t), j = Len(s) + h PROVE u[j] < u[k]
      BY <1>1, <1>3, <2>2, <3>2 DEF Increasing
    <3>3. QED
      BY <1>4, <3>1, <3>2
  <2>3. QED
    BY <1>4, <2>1, <2>2
<1>6. ASSUME NEW y \in Contents(u) PROVE y \in Contents(s) \cup Contents(t)
  <2>1. PICK j \in 1..Len(u) : y = u[j]
    BY DEF Contents
  <2>2. QED
    BY <1>2, <1>3, <1>4, <2>1
<1>7. ASSUME NEW y \in Contents(s) PROVE y \in Contents(u)
  <2>1. PICK i \in 1..Len(s) : y = s[i]
    BY DEF Contents
  <2>2. i \in 1..Len(u) /\ u[i] = y
    BY <1>1, <1>2, <2>1
  <2>3. QED
    BY <2>2 DEF Contents
<1>8. ASSUME NEW y \in Contents(t) PROVE y \in Contents(u)
  <2>1. PICK i \in 1..Len(t) : y = t[i]
    BY DEF Contents
  <2>2. Len(s) + i \in 1..Len(u) /\ u[Len(s) + i] = y
    BY <1>1, <1>3, <2>1
  <2>3. QED
    BY <2>2 DEF Contents
<1>9. QED
  BY <1>1, <1>5, <1>6, <1>7, <1>8 DEF u

\* What the deque keeps of a sequence, and what it drops, are apart.
LEMMA NewestKeeps ==
  ASSUME NEW T, T \subseteq Int, NEW s \in Seq(T), Increasing(s)
  PROVE  /\ Newest(s) \in Seq(T) /\ Len(Newest(s)) <= BufferSize
         /\ Increasing(Newest(s))
         /\ Contents(Newest(s)) = Contents(s) \ Contents(Evicted(s))
<1> USE BoundsAssumption
<1>t. \A i \in 1..Len(s) : s[i] \in Int
  <2> TAKE i \in 1..Len(s)
  <2>1. s[i] \in T
    BY ElementOfSeq
  <2>2. QED
    BY <2>1
<1>1. CASE Len(s) <= BufferSize
  <2>1. Newest(s) = s
    BY <1>1 DEF Newest
  <2>2. Len(Evicted(s)) = 0
    BY <1>1, SubSeqProperties DEF Evicted
  <2>3. Contents(Evicted(s)) = {}
    BY <2>2 DEF Contents
  <2>4. QED
    BY <1>1, <2>1, <2>3
<1>2. CASE Len(s) > BufferSize
  <2> DEFINE d == Len(s) - BufferSize
             t == SubSeq(s, d + 1, Len(s))
             e == SubSeq(s, 1, d)
  <2>1. d \in Nat /\ d < Len(s) /\ d + BufferSize = Len(s)
    BY <1>2
  <2>2. Newest(s) = t /\ Evicted(s) = e
    BY <1>2 DEF Newest, Evicted
  <2>3. t \in Seq(T) /\ Len(t) = BufferSize /\ \A i \in 1..BufferSize : t[i] = s[d + i]
    <3>1. d + 1 \in 1..(Len(s) + 1)
      BY <2>1
    <3>2. /\ t \in Seq(T)
          /\ Len(t) = IF d + 1 <= Len(s) THEN Len(s) - (d + 1) + 1 ELSE 0
          /\ \A i \in 1..(Len(s) - (d + 1) + 1) : t[i] = s[(d + 1) + i - 1]
      BY <2>1, SubSeqProperties
    <3>3. QED
      BY <2>1, <3>2
  <2>4. Len(e) = d /\ \A i \in 1..d : e[i] = s[i]
    <3>1. \A i \in 1..d : s[i] \in T
      BY <2>1
    <3> HIDE DEF d
    <3>2. /\ Len(e) = IF 1 <= d THEN d - 1 + 1 ELSE 0
          /\ \A i \in 1..(d - 1 + 1) : e[i] = s[1 + i - 1]
      BY <2>1, <3>1, SubSeqProperties
    <3>3. QED
      BY <2>1, <3>2
  <2> HIDE DEF t, e, d
  <2>5. Increasing(t)
    BY <2>1, <2>3 DEF Increasing
  <2>6. \A i \in 1..BufferSize, j \in 1..d : e[j] < t[i]
    BY <2>1, <2>3, <2>4 DEF Increasing
  <2>7. ASSUME NEW y \in Contents(t) PROVE y \in Contents(s) \ Contents(e)
    <3>1. PICK i \in 1..BufferSize : y = t[i]
      BY <2>3 DEF Contents
    <3>2. d + i \in 1..Len(s)
      BY <2>1
    <3>3. y = s[d + i] /\ y \in Int
      BY <1>t, <2>3, <3>1, <3>2
    <3>4. \A j \in 1..d : e[j] \in Int
      BY <1>t, <2>1, <2>4
    <3>5. \A j \in 1..d : e[j] # y
      <4> TAKE j \in 1..d
      <4>1. e[j] < y
        BY <2>6, <3>1
      <4>2. QED
        BY <3>3, <3>4, <4>1
    <3>6. QED
      BY <2>4, <3>2, <3>3, <3>5 DEF Contents
  <2>8. ASSUME NEW y \in Contents(s), y \notin Contents(e) PROVE y \in Contents(t)
    <3>1. PICK i \in 1..Len(s) : y = s[i]
      BY DEF Contents
    <3>2. ~ (i <= d)
      BY <2>4, <2>8, <3>1 DEF Contents
    <3>3. i - d \in 1..BufferSize /\ d + (i - d) = i
      BY <2>1, <3>2
    <3>4. t[i - d] = y
      BY <2>3, <3>1, <3>3
    <3>5. QED
      BY <2>3, <3>3, <3>4 DEF Contents
  <2>9. QED
    BY <2>2, <2>3, <2>5, <2>7, <2>8
<1>3. QED
  BY <1>1, <1>2

LEMMA EndsAreExtreme ==
  ASSUME NEW T, T \subseteq Int, NEW s \in Seq(T), Increasing(s), s # <<>>
  PROVE  /\ s[1] \in Contents(s) /\ s[Len(s)] \in Contents(s)
         /\ \A y \in Contents(s) : s[1] <= y /\ y <= s[Len(s)]
<1>1. Len(s) \in Nat /\ 1 \in 1..Len(s) /\ Len(s) \in 1..Len(s)
  BY EmptySeq, SequenceEmptyOrAppend
<1>2. \A i \in 1..Len(s) : s[i] \in Int /\ s[i] \in Contents(s)
  <2> TAKE i \in 1..Len(s)
  <2>1. s[i] \in T
    BY ElementOfSeq
  <2>2. QED
    BY <2>1 DEF Contents
<1>3. ASSUME NEW y \in Contents(s) PROVE s[1] <= y /\ y <= s[Len(s)]
  <2>1. PICK i \in 1..Len(s) : y = s[i]
    BY DEF Contents
  <2>2. s[1] <= s[i]
    BY <1>1, <1>2 DEF Increasing
  <2>3. s[i] <= s[Len(s)]
    BY <1>1, <1>2 DEF Increasing
  <2>4. QED
    BY <2>1, <2>2, <2>3
<1>4. QED
  BY <1>1, <1>2, <1>3

-----------------------------------------------------------------------------
(***************************************************************************)
(* The invariant.  FeedConsistent is inductive; that no loss goes unmarked *)
(* also needs where the server stands while the consumer receives: there   *)
(* are no kills between the cursor and what was last sent, and a cursor is *)
(* absent only after a marked gap or before the payload the accounting     *)
(* begins with.                                                            *)
(***************************************************************************)
\* With no flag set every kill of the match on display, after those that the
\* accounting leaves out, is in the deque.
NothingLost ==
  ~gap /\ ~truncated =>
    \A i \in 1..Reached :
      i > floor /\ log[i].kill /\ log[i].match >= bufMatch[1] => i \in Contents(events)

CursorInv ==
  /\ lastKey <= Len(log) /\ lastSeen <= Len(log)
  /\ lastSeen # 0 => lastKey <= lastSeen
  /\ tailing => lastSeen = 0
  /\ lastSeen = 0 => gap \/ tailing
  /\ pc = "recv" => /\ lastKey <= pos /\ lastSeen <= pos /\ pos <= Len(log)
                    /\ lastSeen # 0 => \A i \in (lastSeen + 1)..pos : ~log[i].kill

Inv == FeedConsistent /\ CursorInv /\ NothingLost

LEMMA ReachedIs ==
  ASSUME FeedConsistent
  PROVE  /\ Reached \in 0..MaxEvents /\ lastKey <= Reached /\ lastSeen <= Reached
         /\ Reached \in {lastKey, lastSeen} /\ lastKey \in Nat /\ lastSeen \in Nat
<1>1. lastKey \in 0..MaxEvents /\ lastSeen \in 0..MaxEvents
  BY DEF FeedConsistent, TypeOK
<1>2. QED
  BY <1>1, BoundsAssumption DEF Reached

LEMMA EventsIncrease ==
  ASSUME FeedConsistent
  PROVE  /\ 1..MaxEvents \subseteq Int /\ events \in Seq(1..MaxEvents) /\ Increasing(events)
         /\ lastKey \in Nat /\ \A x \in Contents(events) : x \in 1..MaxEvents /\ x <= lastKey
<1>1. events \in Seq(1..MaxEvents) /\ lastKey \in Nat /\ Increasing(events)
  BY DEF FeedConsistent, TypeOK, FeedOrdered, Increasing
<1>2. \A k \in 1..Len(events) : events[k] \in 1..MaxEvents /\ events[k] <= lastKey
  BY <1>1, ElementOfSeq DEF FeedConsistent, FeedOrdered
<1>3. 1..MaxEvents \subseteq Int
  BY BoundsAssumption
<1>4. QED
  BY <1>1, <1>2, <1>3 DEF Contents

LEMMA SliceIncreases ==
  ASSUME NEW from \in Nat, NEW to \in Nat, from >= 1, from <= to + 1, to <= MaxEvents
  PROVE  /\ Slice(from, to) \in Seq(1..MaxEvents) /\ Increasing(Slice(from, to))
         /\ Contents(Slice(from, to)) = from..to
         /\ Slice(from, to) = <<>> <=> from > to
         /\ from <= to => Slice(from, to)[Len(Slice(from, to))] = to
<1> DEFINE s == Slice(from, to)
           n == to - from + 1
<1>1. n \in Nat /\ \A k \in 1..n : from + k - 1 \in 1..MaxEvents
  BY BoundsAssumption
<1>2. s \in [1..n -> 1..MaxEvents] /\ \A k \in 1..n : s[k] = from + k - 1
  BY <1>1 DEF Slice
<1>3. s \in Seq(1..MaxEvents) /\ Len(s) = n
  <2> HIDE DEF s, n
  <2>1. s \in Seq(1..MaxEvents)
    BY <1>1, <1>2, SeqDef
  <2>2. 1..Len(s) = 1..n /\ Len(s) \in Nat
    BY <1>2, <2>1, LenProperties
  <2>3. QED
    BY <1>1, <2>1, <2>2
<1>4. Increasing(s)
  BY <1>1, <1>2, <1>3 DEF Increasing
<1>5. Contents(s) = from..to
  <2>1. ASSUME NEW i \in from..to PROVE i \in Contents(s)
    <3>1. i - from + 1 \in 1..n /\ s[i - from + 1] = i
      BY <1>2
    <3>2. QED
      BY <1>3, <3>1 DEF Contents
  <2>2. ASSUME NEW i \in Contents(s) PROVE i \in from..to
    BY <1>2, <1>3 DEF Contents
  <2>3. QED
    BY <2>1, <2>2
<1>6. s = <<>> <=> from > to
  BY <1>3, EmptySeq
<1>7. from <= to => s[Len(s)] = to
  BY <1>2, <1>3
<1>8. QED
  BY <1>3, <1>4, <1>5, <1>6, <1>7

\* The kills of a payload, in the order they were sent.
LEMMA ParsedIncreases ==
  ASSUME NEW from \in Nat, NEW to \in Nat, from >= 1, from <= to + 1, to <= MaxEvents
  PROVE  /\ Parsed(from, to) \in Seq(1..MaxEvents) /\ Increasing(Parsed(from, to))
         /\ Contents(Parsed(from, to)) = {i \in from..to : log[i].kill}
<1> DEFINE s == Slice(from, to)
           S == {i \in from..to : log[i].kill}
<1>1. s \in Seq(1..MaxEvents) /\ Increasing(s) /\ Contents(s) = from..to
  BY SliceIncreases
<1>2. Parsed(from, to) = Keep(s, S) /\ (from..to) \cap S = S /\ 1..MaxEvents \subseteq Int
  BY BoundsAssumption DEF Parsed
<1> HIDE DEF s, S
<1>3. Keep(s, S) \in Seq(1..MaxEvents) /\ Increasing(Keep(s, S)) /\ Contents(Keep(s, S)) = Contents(s) \cap S
  BY <1>1, <1>2, KeepFilters
<1>4. Contents(Keep(s, S)) = S
  BY <1>1, <1>2, <1>3
<1>5. QED
  BY <1>2, <1>3, <1>4 DEF S

\* The kills among from..to that are new to the buffer.
Fresh(from, to) == {i \in from..to : log[i].kill /\ i > lastKey}

\* What one payload does to the buffer.
Received(from, to, last) ==
  /\ last \in {0, to} /\ (last = 0 => Fresh(from, to) = {} /\ \A i \in from..to : ~log[i].kill)
  /\ pos' = to
  /\ status' = "AVAILABLE" /\ bufMatch' = bufMatch /\ gap' = gap
  /\ events' \in Seq(1..MaxEvents) /\ Len(events') <= BufferSize
  /\ Increasing(events') /\ seen' = Contents(events')
  /\ Contents(events') \subseteq Contents(events) \cup Fresh(from, to)
  /\ ~truncated' => ~truncated /\ Contents(events') = Contents(events) \cup Fresh(from, to)
  /\ truncated' \in BOOLEAN
  /\ lastSeen' = IF last # 0 THEN last ELSE lastSeen
  /\ \/ Fresh(from, to) = {} /\ lastKey' = lastKey
     \/ lastKey' \in Fresh(from, to) /\ \A i \in Fresh(from, to) : i <= lastKey'
  /\ IF ~tailing \/ last = 0 THEN UNCHANGED history
     ELSE /\ tailing' = FALSE
          /\ \E begin \in Fresh(from, to) \cup {to} :
               floor' = IF begin > floor THEN begin ELSE floor

LEMMA ReceiveEffect ==
  ASSUME FeedConsistent, ReceiveBatch, pos \in Nat, Len(log) \in Nat, Len(log) <= MaxEvents
  PROVE  \E from \in 1..(pos + 1), to \in pos..Len(log) : \E last \in {0, to} :
           Received(from, to, last)
<1>p. PICK from \in 1..(pos + 1), to \in pos..Len(log) : \E last \in {0, to} :
        /\ last = 0 => Parsed(from, to) = <<>>
        /\ Record(Parsed(from, to), last) /\ pos' = to
  BY DEF ReceiveBatch
<1>l. PICK last \in {0, to} :
        /\ last = 0 => Parsed(from, to) = <<>>
        /\ Record(Parsed(from, to), last) /\ pos' = to
  BY <1>p
<1>q. from \in Nat /\ to \in Nat /\ from >= 1 /\ from <= to + 1 /\ to <= MaxEvents
  BY BoundsAssumption
<1> DEFINE batch == Parsed(from, to)
           added == New(batch)
           all == events \o added
           fresh == Fresh(from, to)
<1>1. /\ batch \in Seq(1..MaxEvents) /\ Increasing(batch)
      /\ Contents(batch) = {i \in from..to : log[i].kill}
  BY <1>q, ParsedIncreases
<1>2. /\ 1..MaxEvents \subseteq Int /\ events \in Seq(1..MaxEvents) /\ Increasing(events)
      /\ lastKey \in Nat /\ \A x \in Contents(events) : x \in 1..MaxEvents /\ x <= lastKey
      /\ seen = Contents(events)
  BY EventsIncrease DEF FeedConsistent, SeenIsBuffer
<1>3. {i \in Contents(batch) : IsNew(i)} = fresh
  BY <1>1, <1>2, <1>q DEF IsNew, Fresh
<1>0. last = 0 => batch = <<>>
  BY <1>l
<1>5. Record(batch, last)
  BY <1>l
<1> HIDE DEF batch
<1>4. added \in Seq(1..MaxEvents) /\ Increasing(added) /\ Contents(added) = fresh
  <2>1. /\ Keep(batch, fresh) \in Seq(1..MaxEvents)
        /\ Increasing(Keep(batch, fresh))
        /\ Contents(Keep(batch, fresh)) = Contents(batch) \cap fresh
    BY <1>1, <1>2, KeepFilters
  <2>2. Contents(batch) \cap fresh = fresh
    BY <1>3
  <2>3. QED
    BY <1>3, <2>1, <2>2 DEF New
<1>6. fresh \subseteq Int /\ \A i \in fresh : i > lastKey /\ i \in 1..to
  BY <1>q, <1>2 DEF Fresh
<1> HIDE DEF added, fresh
<1>7. added # <<>> => /\ added[1] \in fresh /\ added[Len(added)] \in fresh
                      /\ \A y \in fresh : y <= added[Len(added)]
  BY <1>2, <1>4, EndsAreExtreme
<1>8. added = <<>> <=> fresh = {}
  <2>1. added = <<>> => fresh = {}
    BY <1>4, EmptySeq DEF Contents
  <2>2. QED
    BY <1>7, <2>1
<1>9. /\ all \in Seq(1..MaxEvents) /\ Increasing(all) /\ Len(all) \in Nat
      /\ Contents(all) = Contents(events) \cup fresh
  <2>1. ASSUME NEW x \in Contents(events), NEW y \in Contents(added) PROVE x < y
    <3>1. x \in Int /\ x <= lastKey /\ y \in Int /\ y > lastKey
      <4>1. x \in 1..MaxEvents /\ x <= lastKey
        BY <1>2
      <4>2. y \in fresh
        BY <1>4
      <4>3. y \in Int /\ y > lastKey
        BY <1>6, <4>2
      <4>4. QED
        BY <4>1, <4>3
    <3>2. lastKey \in Int
      BY <1>2
    <3> HIDE DEF all
    <3>3. QED
      BY <3>1, <3>2
  <2>2. /\ all \in Seq(1..MaxEvents) /\ Increasing(all)
        /\ Contents(all) = Contents(events) \cup Contents(added)
    BY <1>2, <1>4, <2>1, ConcatLarger
  <2>3. QED
    BY <1>4, <2>2
<1>10. /\ events' = Newest(all)
       /\ seen' = (seen \cup Contents(added)) \ Contents(Evicted(all))
       /\ truncated' = (truncated \/ Len(all) > BufferSize)
       /\ lastKey' = IF added = <<>> THEN lastKey ELSE added[Len(added)]
       /\ lastSeen' = IF last # 0 THEN last ELSE lastSeen
       /\ Account(added, last)
       /\ status' = "AVAILABLE" /\ bufMatch' = bufMatch /\ gap' = gap
  BY <1>5 DEF Record, added
<1> HIDE DEF all
<1>11. /\ Newest(all) \in Seq(1..MaxEvents) /\ Len(Newest(all)) <= BufferSize
       /\ Increasing(Newest(all))
       /\ Contents(Newest(all)) = Contents(all) \ Contents(Evicted(all))
  BY <1>2, <1>9, NewestKeeps
<1>12. /\ events' \in Seq(1..MaxEvents) /\ Len(events') <= BufferSize /\ Increasing(events')
       /\ seen' = Contents(events') /\ Contents(events') \subseteq Contents(events) \cup fresh
       /\ truncated' \in BOOLEAN
  BY <1>2, <1>4, <1>9, <1>10, <1>11
<1>13. ~truncated' => ~truncated /\ Contents(events') = Contents(events) \cup fresh
  <2>1. ~truncated' => ~truncated /\ ~ (Len(all) > BufferSize)
    BY <1>10
  <2>2. ~ (Len(all) > BufferSize) => Newest(all) = all
    BY <1>9, BoundsAssumption DEF Newest
  <2>3. QED
    BY <1>9, <1>10, <2>1, <2>2
<1>14. \/ fresh = {} /\ lastKey' = lastKey
       \/ lastKey' \in fresh /\ \A i \in fresh : i <= lastKey'
  BY <1>7, <1>8, <1>10
<1>15. IF ~tailing \/ last = 0 THEN UNCHANGED history
       ELSE /\ tailing' = FALSE
            /\ \E begin \in fresh \cup {to} : floor' = IF begin > floor THEN begin ELSE floor
  <2>1. CASE ~tailing \/ last = 0
    BY <1>10, <2>1 DEF Account
  <2>2. CASE ~ (~tailing \/ last = 0)
    <3>1. (IF added = <<>> THEN last ELSE added[1]) \in fresh \cup {to}
      BY <1>7, <2>2
    <3>2. QED
      BY <1>10, <2>2, <3>1 DEF Account
  <2>3. QED
    BY <2>1, <2>2
<1>16. last = 0 => fresh = {} /\ \A i \in from..to : ~log[i].kill
  <2>1. batch = <<>> => Contents(batch) = {}
    BY EmptySeq DEF Contents
  <2>2. QED
    BY <1>0, <1>1, <1>3, <2>1
<1>17. Received(from, to, last)
  BY <1>l, <1>10, <1>12, <1>13, <1>14, <1>15, <1>16, Zenon DEF Received, fresh
<1>18. QED
  BY <1>17

LEMMA InitialInv == ASSUME Init PROVE Inv
<1>1. events = <<>> /\ seen = {} /\ Len(events) = 0 /\ Contents(events) = {} /\ Reached = 0
  BY EmptySeq DEF Init, Contents, Reached
<1>2. TypeOK
  <2>1. /\ log \in Seq([match : 1..MaxMatches, kill : BOOLEAN]) /\ Len(log) = 0
        /\ events \in Seq(1..MaxEvents)
    BY EmptySeq DEF Init
  <2>2. /\ MaxEvents \in Nat /\ MaxMatches \in Nat /\ MaxMatches >= 1 /\ MaxStarts \in Nat
        /\ 0 <= BufferSize
    BY BoundsAssumption
  <2>3. bufMatch \in Identity \cup {NoMatch} /\ status \in Status
    BY DEF Init, Status
  <2>4. /\ valid \in 1..(MaxEvents + 1) /\ match \in 1..MaxMatches /\ pos \in 0..MaxEvents
        /\ starts \in 0..MaxStarts /\ seen \subseteq 1..MaxEvents
        /\ lastKey \in 0..MaxEvents /\ lastSeen \in 0..MaxEvents /\ floor \in 0..MaxEvents
        /\ Len(log) <= MaxEvents /\ Len(events) <= BufferSize
    BY <1>1, <2>1, <2>2 DEF Init
  <2>5. /\ pc \in {"off", "loop", "connect", "send", "recv", "backoff", "dead"}
        /\ conn \in {"none", "open", "closed"}
        /\ rejected \in BOOLEAN /\ stop \in BOOLEAN /\ threads \in BOOLEAN
        /\ stopping \in BOOLEAN /\ tailing \in BOOLEAN /\ gap \in BOOLEAN
        /\ truncated \in BOOLEAN
    BY DEF Init
  <2>6. QED
    BY <2>1, <2>3, <2>4, <2>5 DEF TypeOK
<1>3. FeedConsistent
  BY <1>1, <1>2 DEF Init, FeedConsistent, FeedOrdered, SeenIsBuffer
<1>4. CursorInv /\ NothingLost
  <2>1. lastKey = 0 /\ lastSeen = 0 /\ Len(log) = 0 /\ tailing = TRUE /\ pc = "off"
    BY EmptySeq DEF Init
  <2>2. QED
    BY <1>1, <2>1 DEF CursorInv, NothingLost
<1>5. QED
  BY <1>3, <1>4 DEF Inv

\* Steps that leave the recorded events, the flags and the accounting alone.
LEMMA BufferStays ==
  ASSUME Inv, UNCHANGED <<events, seen, lastKey, lastSeen, bufMatch, gap, truncated, history>>,
         Len(log') \in Nat, Len(log) <= Len(log'), \A i \in 1..Len(log) : log'[i] = log[i]
  PROVE  FeedOrdered' /\ SeenIsBuffer' /\ NothingLost'
<1>1. FeedOrdered' /\ SeenIsBuffer'
  BY DEF Inv, FeedConsistent, FeedOrdered, SeenIsBuffer, Contents
<1>2. Reached \in Nat /\ Len(log) \in Nat /\ Reached <= Len(log) /\ Reached' = Reached
  BY ReachedIs, BoundsAssumption DEF Inv, FeedConsistent, TypeOK, CursorInv, Reached
<1>3. \A i \in 1..Reached : log'[i] = log[i]
  BY <1>2
<1>4. Contents(events') = Contents(events)
  BY DEF Contents
<1>5. NothingLost'
  BY <1>2, <1>3, <1>4 DEF Inv, NothingLost, history
<1>6. QED
  BY <1>1, <1>5

LEMMA ServerKeepsInv ==
  ASSUME Inv, ServerLogs \/ ServerNextMatch \/ ServerResets
  PROVE  Inv'
<1> DEFINE Entry == [match : 1..MaxMatches, kill : BOOLEAN]
<1>1. UNCHANGED <<pos, pc, conn, rejected, manager, buffer, history>>
  BY DEF ServerLogs, ServerNextMatch, ServerResets
<1>2. /\ log \in Seq(Entry) /\ Len(log) \in Nat /\ Len(log) <= MaxEvents
      /\ match \in 1..MaxMatches /\ valid \in 1..(MaxEvents + 1)
  BY DEF Inv, FeedConsistent, TypeOK
<1>3. /\ log' \in Seq(Entry) /\ Len(log') \in Nat /\ Len(log') <= MaxEvents
      /\ Len(log) <= Len(log') /\ \A i \in 1..Len(log) : log'[i] = log[i]
  <2>1. CASE ServerLogs
    <3>1. PICK kill \in BOOLEAN : log' = Append(log, [match |-> match, kill |-> kill])
      BY <2>1 DEF ServerLogs
    <3>2. [match |-> match, kill |-> kill] \in Entry /\ Len(log) < MaxEvents
      BY <1>2, <2>1 DEF ServerLogs
    <3> HIDE DEF Entry
    <3>3. QED
      BY <1>2, <3>1, <3>2, AppendProperties, BoundsAssumption
  <2>2. CASE ServerNextMatch \/ ServerResets
    <3>1. log' = log
      BY <2>2 DEF ServerNextMatch, ServerResets
    <3>2. QED
      BY <1>2, <3>1
  <2>3. QED
    BY <2>1, <2>2
<1>4. match' \in 1..MaxMatches /\ valid' \in 1..(MaxEvents + 1)
  BY <1>2, BoundsAssumption DEF ServerLogs, ServerNextMatch, ServerResets
<1>5. TypeOK'
  BY <1>1, <1>3, <1>4 DEF Inv, FeedConsistent, TypeOK, manager, buffer, history
<1>6. FeedOrdered' /\ SeenIsBuffer' /\ NothingLost'
  BY <1>1, <1>3, BufferStays DEF buffer
<1>7. CursorInv'
  <2>1. /\ lastKey \in Nat /\ lastSeen \in Nat /\ pos \in Nat
        /\ UNCHANGED <<lastKey, lastSeen, pos, pc, gap, tailing>>
    BY <1>1 DEF Inv, FeedConsistent, TypeOK, buffer, history
  <2>2. pc = "recv" => \A i \in (lastSeen + 1)..pos : log'[i] = log[i]
    BY <1>2, <1>3, <2>1 DEF Inv, CursorInv
  <2>3. /\ lastKey <= Len(log) /\ lastSeen <= Len(log)
        /\ lastSeen # 0 => lastKey <= lastSeen
        /\ tailing => lastSeen = 0
        /\ lastSeen = 0 => gap \/ tailing
    BY DEF Inv, CursorInv
  <2>4. lastKey' <= Len(log') /\ lastSeen' <= Len(log')
    BY <1>2, <1>3, <2>1, <2>3
  <2>5. ASSUME pc' = "recv"
        PROVE  /\ lastKey' <= pos' /\ lastSeen' <= pos' /\ pos' <= Len(log')
               /\ lastSeen' # 0 => \A i \in (lastSeen' + 1)..pos' : ~log'[i].kill
    <3>1. /\ lastKey <= pos /\ lastSeen <= pos /\ pos <= Len(log)
          /\ lastSeen # 0 => \A i \in (lastSeen + 1)..pos : ~log[i].kill
      BY <2>1, <2>5 DEF Inv, CursorInv
    <3>2. pos' <= Len(log')
      BY <1>2, <1>3, <2>1, <3>1
    <3>3. lastSeen # 0 => \A i \in (lastSeen + 1)..pos : ~log'[i].kill
      BY <2>1, <2>2, <2>5, <3>1
    <3>4. QED
      BY <2>1, <3>1, <3>2, <3>3
  <2>6. QED
    BY <2>1, <2>3, <2>4, <2>5 DEF CursorInv
<1>8. QED
  BY <1>5, <1>6, <1>7 DEF Inv, FeedConsistent

\* The consumer outside record(), and start() and stop().
LEMMA ControlKeepsInv ==
  ASSUME Inv,
         \/ LoopCheck \/ ConnectOk \/ ConnectFails \/ Subscribe \/ ReceiveInvalidCursor
         \/ ReceiveError \/ SendFails \/ ReceiveFails \/ StopSeen \/ BackoffEnds
         \/ Start \/ StopSignal \/ StopJoined
  PROVE  Inv'
<1>1. /\ UNCHANGED server
      /\ UNCHANGED <<events, seen, lastKey, bufMatch, truncated, history>>
  BY DEF LoopCheck, ConnectOk, ConnectFails, Subscribe, ReceiveInvalidCursor, MarkInvalidCursor,
    ReceiveError, SendFails, ReceiveFails, TransportFails, UpdateStatus, StopSeen, BackoffEnds,
    Start, StopSignal, StopJoined, buffer
<1>2. \/ UNCHANGED <<lastSeen, gap>>
      \/ lastSeen' = 0 /\ gap' = TRUE
  BY DEF LoopCheck, ConnectOk, ConnectFails, Subscribe, ReceiveInvalidCursor, MarkInvalidCursor,
    ReceiveError, SendFails, ReceiveFails, TransportFails, UpdateStatus, StopSeen, BackoffEnds,
    Start, StopSignal, StopJoined, buffer
<1>3. /\ lastKey \in Nat /\ lastSeen \in Nat /\ pos \in Nat /\ Len(log) \in Nat
      /\ log \in Seq([match : 1..MaxMatches, kill : BOOLEAN])
  BY DEF Inv, FeedConsistent, TypeOK
<1>4. /\ pc' \in {"off", "loop", "connect", "send", "recv", "backoff", "dead"}
      /\ conn' \in {"none", "open", "closed"} /\ rejected' \in BOOLEAN
      /\ stop' \in BOOLEAN /\ threads' \in BOOLEAN /\ stopping' \in BOOLEAN
      /\ starts' \in 0..MaxStarts /\ status' \in Status
  <2>1. CASE LoopCheck \/ ConnectOk \/ StopSeen \/ BackoffEnds
    BY <2>1 DEF Inv, FeedConsistent, TypeOK, LoopCheck, ConnectOk, StopSeen, Disconnect,
      BackoffEnds, buffer, manager
  <2>2. CASE ConnectFails \/ SendFails \/ ReceiveFails \/ ReceiveError
    BY <2>2 DEF Inv, FeedConsistent, TypeOK, ConnectFails, SendFails, ReceiveFails,
      TransportFails, ReceiveError, UpdateStatus, Disconnect, manager, Status
  <2>3. CASE Subscribe \/ ReceiveInvalidCursor
    BY <2>3 DEF Inv, FeedConsistent, TypeOK, Subscribe, ReceiveInvalidCursor, MarkInvalidCursor,
      Disconnect, buffer, manager, Status
  <2>4. CASE Start \/ StopSignal \/ StopJoined
    <3>1. threads' \in BOOLEAN /\ stopping' \in BOOLEAN /\ stop' \in BOOLEAN
      BY <2>4 DEF Inv, FeedConsistent, TypeOK, Start, StopSignal, StopJoined
    <3>2. starts' \in 0..MaxStarts
      BY <2>4, BoundsAssumption DEF Inv, FeedConsistent, TypeOK, Start, StopSignal, StopJoined
    <3>3. QED
      BY <2>4, <3>1, <3>2 DEF Inv, FeedConsistent, TypeOK, Start, StopSignal, StopJoined, buffer
  <2>5. QED
    BY <2>1, <2>2, <2>3, <2>4
<1>5. \/ pc' # "recv" /\ pos' = pos
      \/ pc' = pc /\ pos' = pos /\ lastSeen' = lastSeen
      \/ /\ pc' = "recv" /\ lastSeen' = lastSeen
         /\ pos' = IF lastSeen = 0 THEN Len(log) ELSE lastSeen
  BY DEF LoopCheck, ConnectOk, ConnectFails, Subscribe, ReceiveInvalidCursor, MarkInvalidCursor,
    ReceiveError, SendFails, ReceiveFails, TransportFails, UpdateStatus, StopSeen, BackoffEnds,
    Start, StopSignal, StopJoined, Disconnect, buffer
<1>6. TypeOK'
  <2>1. pos' \in 0..MaxEvents /\ lastSeen' \in 0..MaxEvents
    BY <1>2, <1>3, <1>5, BoundsAssumption DEF Inv, FeedConsistent, TypeOK
  <2>2. gap' \in BOOLEAN
    BY <1>2 DEF Inv, FeedConsistent, TypeOK
  <2>3. QED
    BY <1>1, <1>4, <2>1, <2>2 DEF Inv, FeedConsistent, TypeOK, server, history
<1>7. CursorInv'
  <2>1. lastKey' = lastKey /\ floor' = floor /\ tailing' = tailing /\ log' = log
    BY <1>1 DEF server, history
  <2>2. lastSeen' \in {0, lastSeen} /\ (lastSeen' = 0 => gap' \/ tailing)
    BY <1>2 DEF Inv, CursorInv
  <2>3. pc' = "recv" => /\ lastKey <= pos' /\ lastSeen' <= pos' /\ pos' <= Len(log)
                        /\ lastSeen' # 0 => \A i \in (lastSeen' + 1)..pos' : ~log[i].kill
    <3>1. CASE pc' # "recv"
      BY <3>1
    <3>2. CASE pc' = pc /\ pos' = pos /\ lastSeen' = lastSeen
      BY <3>2 DEF Inv, CursorInv
    <3>3. CASE lastSeen' = lastSeen /\ pos' = IF lastSeen = 0 THEN Len(log) ELSE lastSeen
      BY <1>3, <3>3 DEF Inv, CursorInv
    <3>4. QED
      BY <1>5, <3>1, <3>2, <3>3
  <2>4. /\ lastKey <= Len(log) /\ lastSeen <= Len(log)
        /\ lastSeen # 0 => lastKey <= lastSeen
        /\ tailing => lastSeen = 0
        /\ lastSeen = 0 => gap \/ tailing
    BY DEF Inv, CursorInv
  <2>5. /\ lastKey' <= Len(log') /\ lastSeen' <= Len(log')
        /\ lastSeen' # 0 => lastKey' <= lastSeen'
        /\ tailing' => lastSeen' = 0
    BY <1>3, <2>1, <2>2, <2>4
  <2>6. lastSeen' = 0 => gap' \/ tailing'
    BY <2>1, <2>2
  <2>7. pc' = "recv" => /\ lastKey' <= pos' /\ lastSeen' <= pos' /\ pos' <= Len(log')
                        /\ lastSeen' # 0 => \A i \in (lastSeen' + 1)..pos' : ~log'[i].kill
    BY <2>1, <2>3
  <2>8. QED
    BY <2>5, <2>6, <2>7 DEF CursorInv
<1>8. FeedOrdered' /\ SeenIsBuffer'
  BY <1>1 DEF Inv, FeedConsistent, FeedOrdered, SeenIsBuffer, Contents
<1>9. NothingLost'
  <2>1. log' = log /\ floor' = floor
    BY <1>1 DEF server, history
  <2>2. Contents(events') = Contents(events)
    BY <1>1 DEF Contents
  <2>3. ~gap' => ~gap /\ Reached' = Reached
    BY <1>1, <1>2 DEF Reached
  <2>4. QED
    BY <1>1, <2>1, <2>2, <2>3 DEF Inv, NothingLost
<1>10. QED
  BY <1>6, <1>7, <1>8, <1>9 DEF Inv, FeedConsistent

LEMMA ReceiveKeepsInv == ASSUME Inv, ReceiveBatch PROVE Inv'
<1>1. /\ lastKey \in Nat /\ lastSeen \in Nat /\ pos \in Nat /\ Len(log) \in Nat
      /\ Len(log) <= MaxEvents /\ floor \in 0..MaxEvents /\ tailing \in BOOLEAN
      /\ FeedConsistent /\ CursorInv /\ NothingLost
  BY DEF Inv, FeedConsistent, TypeOK
<1>2. PICK from \in 1..(pos + 1), to \in pos..Len(log) : \E last \in {0, to} :
        Received(from, to, last)
  BY <1>1, ReceiveEffect
<1>3. PICK last \in {0, to} : Received(from, to, last)
  BY <1>2
<1>4. /\ UNCHANGED <<log, valid, match, pc, conn, rejected, stop, threads, stopping, starts>>
      /\ pc = "recv"
  BY DEF ReceiveBatch, server, manager
<1> DEFINE fresh == Fresh(from, to)
<1>5. /\ from \in Nat /\ to \in Nat /\ 1 <= from /\ from <= pos + 1 /\ pos <= to /\ to <= MaxEvents
      /\ to <= Len(log) /\ pos' = to
      /\ lastKey <= pos /\ lastSeen <= pos
      /\ lastSeen # 0 => lastKey <= lastSeen /\ \A i \in (lastSeen + 1)..pos : ~log[i].kill
  BY <1>1, <1>3, <1>4, BoundsAssumption DEF CursorInv, Received
<1>6. fresh = {i \in from..to : log[i].kill /\ i > lastKey} /\ \A i \in fresh : i \in Nat /\ i <= to
  BY <1>5 DEF Fresh
<1> HIDE DEF fresh
<1>7. /\ last = 0 => fresh = {} /\ \A i \in from..to : ~log[i].kill
      /\ status' = "AVAILABLE" /\ bufMatch' = bufMatch /\ gap' = gap
      /\ events' \in Seq(1..MaxEvents) /\ Len(events') <= BufferSize
      /\ Increasing(events') /\ seen' = Contents(events')
      /\ Contents(events') \subseteq Contents(events) \cup fresh
      /\ ~truncated' => ~truncated /\ Contents(events') = Contents(events) \cup fresh
      /\ truncated' \in BOOLEAN
      /\ lastSeen' = IF last # 0 THEN last ELSE lastSeen
      /\ \/ fresh = {} /\ lastKey' = lastKey
         \/ lastKey' \in fresh /\ \A i \in fresh : i <= lastKey'
      /\ IF ~tailing \/ last = 0 THEN UNCHANGED history
         ELSE /\ tailing' = FALSE
              /\ \E begin \in fresh \cup {to} : floor' = IF begin > floor THEN begin ELSE floor
  BY <1>3, Zenon DEF Received, fresh
<1>8. /\ lastKey' \in Nat /\ lastKey <= lastKey' /\ lastKey' <= to
      /\ lastSeen' \in Nat /\ lastSeen' <= to
      /\ last # 0 => lastSeen' = to
      /\ last = 0 => lastSeen' = lastSeen /\ lastKey' = lastKey /\ UNCHANGED history
  <2>1. lastKey' \in Nat /\ lastKey <= lastKey' /\ lastKey' <= to
    BY <1>1, <1>5, <1>6, <1>7
  <2>2. last = 0 => lastKey' = lastKey
    BY <1>7
  <2>3. QED
    BY <1>1, <1>5, <1>7, <2>1, <2>2
\* Where the accounting begins, if it does with this payload.
<1>9. ASSUME last # 0, tailing
      PROVE  /\ tailing' = FALSE /\ floor' \in 0..MaxEvents
             /\ \A i \in 1..to : i > floor' /\ log[i].kill => i \in fresh
  <2>1. PICK begin \in fresh \cup {to} : floor' = IF begin > floor THEN begin ELSE floor
    BY <1>7, <1>9
  <2>2. begin \in Nat /\ begin <= to
    BY <1>5, <1>6
  <2>3. floor' \in 0..MaxEvents /\ begin <= floor'
    BY <1>1, <1>5, <2>1, <2>2, BoundsAssumption
  <2>4. ASSUME NEW i \in 1..to, i > floor', log[i].kill PROVE i \in fresh
    <3>1. i > begin /\ begin # to
      BY <1>5, <2>2, <2>3, <2>4
    <3>2. begin \in from..to /\ begin > lastKey
      BY <1>6, <3>1
    <3>3. QED
      BY <1>1, <1>5, <1>6, <2>2, <2>4, <3>1, <3>2
  <2>5. QED
    BY <1>7, <1>9, <2>3, <2>4
<1>10. floor' \in 0..MaxEvents /\ tailing' \in BOOLEAN /\ (last # 0 => tailing' = FALSE)
  <2>1. CASE last # 0 /\ tailing
    BY <1>9, <2>1
  <2>2. CASE ~ (last # 0 /\ tailing)
    BY <1>1, <1>7, <2>2 DEF history
  <2>3. QED
    BY <2>1, <2>2
<1>11. CursorInv'
  <2>1. CASE last # 0
    <3>1. lastSeen' = to /\ tailing' = FALSE /\ pos' = to /\ log' = log /\ to # 0
      BY <1>4, <1>5, <1>8, <1>10, <2>1
    <3>2. \A i \in (to + 1)..to : FALSE
      BY <1>5
    <3>3. QED
      BY <1>5, <1>8, <3>1, <3>2 DEF CursorInv
  <2>2. CASE last = 0
    <3>1. /\ lastSeen' = lastSeen /\ lastKey' = lastKey /\ tailing' = tailing /\ gap' = gap
          /\ pos' = to /\ log' = log /\ pc' = pc
      BY <1>4, <1>5, <1>7, <1>8, <2>2 DEF history
    <3>2. lastSeen # 0 => \A i \in (lastSeen + 1)..to : ~log[i].kill
      <4>1. \A i \in (lastSeen + 1)..to : i \in (lastSeen + 1)..pos \/ i \in from..to
        BY <1>1, <1>5
      <4>2. QED
        BY <1>5, <1>7, <2>2, <4>1
    <3>3. QED
      BY <1>1, <1>5, <3>1, <3>2 DEF CursorInv
  <2>3. QED
    BY <2>1, <2>2
<1>12. \A i \in Contents(events') : i \in 1..MaxEvents /\ i <= lastKey'
  <2>1. \A i \in Contents(events) : i \in 1..MaxEvents /\ i <= lastKey
    BY <1>1, EventsIncrease
  <2>2. \A i \in fresh : i \in 1..MaxEvents /\ i <= lastKey'
    BY <1>5, <1>6, <1>7, BoundsAssumption
  <2>3. \A i \in 1..MaxEvents : i <= lastKey => i <= lastKey'
    BY <1>1, <1>8
  <2>4. QED
    BY <1>7, <2>1, <2>2, <2>3
<1>13. FeedOrdered' /\ SeenIsBuffer'
  <2>1. \A k \in 1..Len(events') : events'[k] \in Contents(events')
    BY DEF Contents
  <2>2. QED
    BY <1>7, <1>12, <2>1 DEF FeedOrdered, Increasing, SeenIsBuffer
<1>14. TypeOK'
  <2>1. /\ lastKey' \in 0..MaxEvents /\ lastSeen' \in 0..MaxEvents /\ pos' \in 0..MaxEvents
        /\ seen' \subseteq 1..MaxEvents /\ status' \in Status
    BY <1>5, <1>7, <1>8, <1>12, BoundsAssumption DEF Status
  <2>2. QED
    BY <1>1, <1>4, <1>7, <1>10, <2>1 DEF FeedConsistent, TypeOK
<1>15. NothingLost'
  <2>1. Reached' \in {lastKey', lastSeen'} /\ Reached' <= to
    BY <1>8 DEF Reached
  <2> SUFFICES ASSUME ~gap', ~truncated', NEW i \in 1..Reached',
                      i > floor', log[i].kill, log[i].match >= bufMatch[1]
               PROVE  i \in Contents(events')
    BY <1>4, <1>7 DEF NothingLost
  <2>2. ~gap /\ ~truncated /\ Contents(events') = Contents(events) \cup fresh /\ i \in 1..to
    BY <1>5, <1>7, <1>8, <2>1
  <2>3. CASE last # 0 /\ tailing
    BY <1>9, <2>2, <2>3
  <2>4. CASE ~ (last # 0 /\ tailing)
    <3>1. floor' = floor
      BY <1>7, <2>4 DEF history
    <3>2. Reached \in Nat /\ lastKey <= Reached /\ lastSeen <= Reached /\ Reached \in {lastKey, lastSeen}
      BY <1>1, ReachedIs
    <3>3. CASE i <= Reached
      <4>1. i \in 1..Reached
        BY <3>2, <3>3
      <4>2. i \in Contents(events)
        BY <1>1, <2>2, <3>1, <4>1 DEF NothingLost
      <4>3. QED
        BY <2>2, <4>2
    <3>4. CASE i > Reached
      <4>1. last # 0
        <5>1. last = 0 => Reached' = Reached
          BY <1>8 DEF Reached
        <5>2. QED
          BY <3>2, <3>4, <5>1
      <4>2. lastSeen # 0
        BY <1>1, <2>2, <2>4, <4>1 DEF CursorInv
      <4>3. i > lastKey /\ i > lastSeen
        BY <1>1, <3>2, <3>4
      <4>4. i > pos
        BY <1>1, <1>5, <4>2, <4>3
      <4>5. i \in fresh
        BY <1>1, <1>5, <1>6, <2>2, <4>3, <4>4
      <4>6. QED
        BY <2>2, <4>5
    <3>5. QED
      BY <3>2, <3>3, <3>4
  <2>5. QED
    BY <2>3, <2>4
<1>16. QED
  BY <1>11, <1>13, <1>14, <1>15 DEF Inv, FeedConsistent

LEMMA ReadKeepsInv == ASSUME Inv, ReadWindow PROVE Inv'
<1>1. PICK id \in Identity : WindowForMatch(id)
  BY DEF ReadWindow
<1>2. UNCHANGED <<log, valid, match, pos, pc, conn, rejected, stop, threads, stopping, starts,
                  lastKey, lastSeen, status>>
  BY <1>1 DEF ReadWindow, WindowForMatch, server, manager
<1> DEFINE kept == {i \in Contents(events) : log[i].match >= id[1]}
           transitioned == bufMatch # NoMatch /\ bufMatch # id
<1>3. /\ bufMatch' = id /\ events' = Keep(events, kept) /\ seen' = Contents(events')
      /\ gap' = (gap /\ ~transitioned) /\ truncated' = (truncated /\ ~transitioned)
      /\ floor' = IF transitioned THEN Reached ELSE floor
      /\ tailing' = (tailing \/ (transitioned /\ lastSeen = 0))
  BY <1>1 DEF WindowForMatch
<1>4. /\ 1..MaxEvents \subseteq Int /\ events \in Seq(1..MaxEvents) /\ Increasing(events)
      /\ lastKey \in Nat /\ \A x \in Contents(events) : x \in 1..MaxEvents /\ x <= lastKey
  BY EventsIncrease DEF Inv
<1>r. Reached \in 0..MaxEvents /\ Reached' = Reached
  BY <1>2, ReachedIs DEF Inv, Reached
<1>5. /\ events' \in Seq(1..MaxEvents) /\ Increasing(events') /\ Len(events') <= Len(events)
      /\ Contents(events') = kept
  <2>1. /\ Keep(events, kept) \in Seq(1..MaxEvents) /\ Increasing(Keep(events, kept))
        /\ Len(Keep(events, kept)) <= Len(events)
        /\ Contents(Keep(events, kept)) = Contents(events) \cap kept
    BY <1>4, KeepFilters
  <2>2. QED
    BY <1>3, <2>1
<1>6. TypeOK'
  <2>1. /\ floor' \in 0..MaxEvents /\ Len(events') <= BufferSize /\ seen' \subseteq 1..MaxEvents
        /\ bufMatch' \in Identity \cup {NoMatch}
    BY <1>r, <1>3, <1>4, <1>5, BoundsAssumption DEF Inv, FeedConsistent, TypeOK
  <2>2. gap' \in BOOLEAN /\ truncated' \in BOOLEAN /\ tailing' \in BOOLEAN
    BY <1>3
  <2>3. QED
    BY <1>2, <1>5, <2>1, <2>2 DEF Inv, FeedConsistent, TypeOK
<1>7. FeedOrdered' /\ SeenIsBuffer'
  <2>1. \A k \in 1..Len(events') : events'[k] \in Contents(events')
    BY DEF Contents
  <2>2. QED
    BY <1>2, <1>3, <1>4, <1>5, <2>1 DEF Inv, FeedConsistent, FeedOrdered, Increasing,
      SeenIsBuffer
<1>8. CursorInv'
  BY <1>2, <1>3 DEF Inv, CursorInv
<1>9. NothingLost'
  <2> SUFFICES ASSUME ~gap', ~truncated', NEW i \in 1..Reached,
                      i > floor', log[i].kill, log[i].match >= id[1]
               PROVE  i \in kept
    BY <1>2, <1>r, <1>3, <1>5 DEF NothingLost
  <2>1. ~transitioned
    BY <1>3, <1>r
  <2>2. ~gap /\ ~truncated /\ floor' = floor
    BY <1>3, <2>1
  <2>3. log[i].match >= bufMatch[1]
    <3>1. CASE bufMatch = NoMatch
      <4>1. log \in Seq([match : 1..MaxMatches, kill : BOOLEAN]) /\ i \in 1..Len(log)
        BY ReachedIs DEF Inv, FeedConsistent, TypeOK, CursorInv
      <4>2. log[i] \in [match : 1..MaxMatches, kill : BOOLEAN]
        BY <4>1, ElementOfSeq
      <4>3. log[i].match \in 1..MaxMatches
        BY <4>2
      <4>4. QED
        BY <3>1, <4>3, BoundsAssumption DEF NoMatch
    <3>2. QED
      BY <2>1, <3>1
  <2>4. i \in Contents(events)
    BY <2>2, <2>3 DEF Inv, NothingLost
  <2>5. QED
    BY <2>4
<1>10. QED
  BY <1>6, <1>7, <1>8, <1>9 DEF Inv, FeedConsistent

LEMMA InvariantHolds == Spec => []Inv
<1>1. Init => Inv
  BY InitialInv
<1>2. Inv /\ [Next]_vars => Inv'
  <2> SUFFICES ASSUME Inv, [Next]_vars PROVE Inv'
    OBVIOUS
  <2>1. CASE ServerLogs \/ ServerNextMatch \/ ServerResets
    BY <2>1, ServerKeepsInv
  <2>2. CASE ReadWindow
    BY <2>2, ReadKeepsInv
  <2>3. CASE ReceiveBatch
    BY <2>3, ReceiveKeepsInv
  <2>4. CASE Consumer /\ ~ReceiveBatch
    BY <2>4, ControlKeepsInv DEF Consumer
  <2>5. CASE Start \/ StopSignal \/ StopJoined
    BY <2>5, ControlKeepsInv
  <2>6. CASE UNCHANGED vars
    BY <2>6 DEF vars, server, buffer, manager, history, Inv, FeedConsistent, TypeOK, FeedOrdered,
      SeenIsBuffer, CursorInv, NothingLost, Reached, Contents
  <2>7. QED
    BY <2>1, <2>2, <2>3, <2>4, <2>5, <2>6 DEF Next
<1>3. QED
  BY <1>1, <1>2, PTL DEF Spec

\* record() keeps deque, set of ids and order key in step for every buffer size,
\* through replays, lost cursors, evictions and pruning.
THEOREM FeedConsistentAlways == Spec => []FeedConsistent
<1>1. Inv => FeedConsistent
  BY DEF Inv
<1>2. QED
  BY <1>1, InvariantHolds, PTL

\* A kill of the match on display that the consumer got past is in the window or
\* announced by gap_detected or truncated, for every buffer size.
THEOREM LossFlaggedAlways == Spec => []LossFlagged
<1>1. Inv => LossFlagged
  <2> SUFFICES ASSUME Inv, ~gap, ~truncated, NEW i \in LostAfter(floor)
               PROVE  FALSE
    BY DEF LossFlagged
  <2>1. floor \in Nat /\ Reached \in Nat
    BY ReachedIs DEF Inv, FeedConsistent, TypeOK
  <2>2. i \in 1..Reached /\ i > floor
    BY <2>1 DEF LostAfter
  <2>3. QED
    BY <2>2 DEF Inv, NothingLost, LostAfter
<1>2. QED
  BY <1>1, InvariantHolds, PTL

\* The manager forgets a thread only when it has ended, and an ended thread
\* stays ended until start() creates the next one.
THEOREM OneConsumerAlways == Spec => []OneConsumer
<1> USE DEF OneConsumer, manager
<1>1. Init => OneConsumer
  BY DEF Init
<1>2. ASSUME OneConsumer, Consumer PROVE OneConsumer'
  <2>1. threads' = threads /\ pc \notin {"off", "dead"}
    BY <1>2 DEF Consumer, LoopCheck, ConnectOk, ConnectFails, Subscribe, ReceiveBatch,
       ReceiveInvalidCursor, ReceiveError, SendFails, ReceiveFails, TransportFails, StopSeen,
       BackoffEnds
  <2> QED
    BY <1>2, <2>1
<1>3. ASSUME OneConsumer, Start \/ StopSignal \/ StopJoined PROVE OneConsumer'
  BY <1>3 DEF Start, StopSignal, StopJoined
\* The server, a reader of the window and a stutter leave the thread alone.
<1>4. ASSUME OneConsumer, ServerLogs \/ ServerNextMatch \/ ServerResets \/ ReadWindow \/ UNCHANGED vars
      PROVE  OneConsumer'
  <2>1. UNCHANGED <<threads, pc>>
    BY <1>4 DEF vars, ServerLogs, ServerNextMatch, ServerResets, ReadWindow, WindowForMatch
  <2> QED
    BY <1>4, <2>1
<1>5. OneConsumer /\ [Next]_vars => OneConsumer'
  BY <1>2, <1>3, <1>4 DEF Next
<1> QED
  BY <1>1, <1>5, PTL DEF Spec
=============================================================================
