----------------------------- MODULE QueueLemmas -----------------------------
(* What appending to a FIFO queue and taking its head do to the set of the   *)
(* things in it.  Every queue, ring and pool of the project is a sequence.   *)
EXTENDS Integers, Sequences, FiniteSetTheorems, TLAPS

\* The empty queue holds nothing.
LEMMA EmptyQueue == Range(<<>>) = {} /\ IsInjective(<<>>)
  BY DEF Range, IsInjective

\* Appending adds exactly the appended element.
LEMMA AppendQueue ==
  ASSUME NEW S, NEW s \in Seq(S), NEW e \in S
  PROVE  /\ Append(s, e) \in Seq(S)
         /\ Len(Append(s, e)) = Len(s) + 1
         /\ Range(Append(s, e)) = Range(s) \cup {e}
         /\ IsInjective(s) /\ e \notin Range(s) => IsInjective(Append(s, e))
  <1> DEFINE t == Append(s, e)
  <1>1. /\ t \in Seq(S) /\ Len(t) = Len(s) + 1
        /\ \A i \in 1..Len(s) : t[i] = s[i]
        /\ t[Len(s) + 1] = e
    OBVIOUS
  <1>2. DOMAIN s = 1..Len(s) /\ DOMAIN t = 1..(Len(s) + 1)
    BY <1>1
  <1> HIDE DEF t
  <1>3. Range(t) = Range(s) \cup {e}
    <2>1. Len(s) \in Nat OBVIOUS
    <2>2. DOMAIN t = DOMAIN s \cup {Len(s) + 1} BY <1>2, <2>1
    <2> QED BY <1>1, <1>2, <2>2 DEF Range
  <1>4. IsInjective(s) /\ e \notin Range(s) => IsInjective(t)
    <2>1. Len(s) \in Nat OBVIOUS
    <2>2. DOMAIN t = DOMAIN s \cup {Len(s) + 1} BY <1>2, <2>1
    <2> QED BY <1>1, <1>2, <2>2 DEF Range, IsInjective
  <1> QED BY <1>1, <1>3, <1>4 DEF t

\* Taking the head removes exactly that element.
LEMMA TailQueue ==
  ASSUME NEW S, NEW s \in Seq(S), s # <<>>
  PROVE  /\ Head(s) \in S /\ Tail(s) \in Seq(S)
         /\ Len(Tail(s)) = Len(s) - 1 /\ Len(s) \in Nat \ {0}
         /\ Head(s) \in Range(s)
         /\ Range(s) = Range(Tail(s)) \cup {Head(s)}
         /\ IsInjective(s) => IsInjective(Tail(s)) /\ Head(s) \notin Range(Tail(s))
  <1> DEFINE t == Tail(s)
  <1>1. /\ t \in Seq(S) /\ Len(t) = Len(s) - 1 /\ Len(s) \in Nat \ {0}
        /\ \A i \in 1..(Len(s) - 1) : t[i] = s[i + 1]
        /\ Head(s) = s[1] /\ Head(s) \in S
    OBVIOUS
  <1>2. DOMAIN s = 1..Len(s) /\ DOMAIN t = 1..(Len(s) - 1)
    BY <1>1
  <1> HIDE DEF t
  <1>3. \A i \in DOMAIN s : i = 1 \/ (i - 1 \in DOMAIN t /\ s[i] = t[i - 1])
    BY <1>1, <1>2
  <1>4. \A i \in DOMAIN t : i + 1 \in DOMAIN s /\ t[i] = s[i + 1]
    BY <1>1, <1>2
  <1>5. 1 \in DOMAIN s BY <1>1, <1>2
  <1>6. Range(s) = Range(t) \cup {Head(s)}
    <2>1. \A x \in Range(s) : x \in Range(t) \/ x = Head(s)
      BY <1>1, <1>3 DEF Range
    <2>2. \A x \in Range(t) : x \in Range(s)
      BY <1>4 DEF Range
    <2>3. Head(s) \in Range(s)
      BY <1>1, <1>5 DEF Range
    <2> QED BY <2>1, <2>2, <2>3
  <1>7. IsInjective(s) => IsInjective(t) /\ Head(s) \notin Range(t)
    <2> SUFFICES ASSUME IsInjective(s) PROVE IsInjective(t) /\ Head(s) \notin Range(t)
      OBVIOUS
    <2>1. \A i \in DOMAIN t : i \in Nat \ {0} BY <1>2
    <2>2. IsInjective(t) BY <1>4, <2>1 DEF IsInjective
    <2>3. Head(s) \notin Range(t) BY <1>1, <1>4, <1>5, <2>1 DEF IsInjective, Range
    <2> QED BY <2>2, <2>3
  <1> QED BY <1>1, <1>6, <1>7 DEF t

\* Appending to a queue that is not full, and taking from one that is not
\* empty, keep it within its capacity.
LEMMA BoundedQueue ==
  ASSUME NEW S, NEW s \in Seq(S), NEW n \in Nat, Len(s) <= n
  PROVE  /\ \A e \in S : Len(s) < n => Append(s, e) \in Seq(S) /\ Len(Append(s, e)) <= n
         /\ s # <<>> => Tail(s) \in Seq(S) /\ Len(Tail(s)) <= n
  <1>1. Len(s) \in Nat OBVIOUS
  <1>2. ASSUME NEW e \in S, Len(s) < n
        PROVE  Append(s, e) \in Seq(S) /\ Len(Append(s, e)) <= n
    <2>1. Append(s, e) \in Seq(S) /\ Len(Append(s, e)) = Len(s) + 1 BY AppendQueue
    <2> QED BY <1>1, <1>2, <2>1
  <1>3. ASSUME s # <<>>
        PROVE  Tail(s) \in Seq(S) /\ Len(Tail(s)) <= n
    <2>1. Tail(s) \in Seq(S) /\ Len(Tail(s)) = Len(s) - 1 BY <1>3, TailQueue
    <2> QED BY <1>1, <2>1
  <1> QED BY <1>2, <1>3

\* A queue of n elements holds at most n different ones.
LEMMA QueueCardinality ==
  ASSUME NEW S, NEW s \in Seq(S)
  PROVE  IsFiniteSet(Range(s)) /\ Cardinality(Range(s)) <= Len(s)
  <1>1. DOMAIN s = 1..Len(s) /\ Len(s) \in Nat
    OBVIOUS
  <1>2. IsFiniteSet(DOMAIN s) /\ Cardinality(DOMAIN s) = Len(s)
    <2>1. /\ IsFiniteSet(1..Len(s))
          /\ Cardinality(1..Len(s)) = IF 1 > Len(s) THEN 0 ELSE Len(s) - 1 + 1
      BY <1>1, FS_Interval
    <2> QED BY <1>1, <2>1
  <1>3. s \in Surjection(DOMAIN s, Range(s))
    <2>1. s = [i \in DOMAIN s |-> s[i]] OBVIOUS
    <2>2. s \in [DOMAIN s -> Range(s)] BY <2>1 DEF Range
    <2>3. \A x \in Range(s) : \E i \in DOMAIN s : s[i] = x BY DEF Range
    <2> QED BY <2>2, <2>3 DEF Surjection
  <1> QED BY <1>2, <1>3, FS_Surjection

\* If they are all different it holds exactly n.
LEMMA DistinctQueue ==
  ASSUME NEW S, NEW s \in Seq(S), IsInjective(s)
  PROVE  IsFiniteSet(Range(s)) /\ Cardinality(Range(s)) = Len(s)
  <1>1. DOMAIN s = 1..Len(s) /\ Len(s) \in Nat
    OBVIOUS
  <1>2. IsFiniteSet(DOMAIN s) /\ Cardinality(DOMAIN s) = Len(s)
    <2>1. /\ IsFiniteSet(1..Len(s))
          /\ Cardinality(1..Len(s)) = IF 1 > Len(s) THEN 0 ELSE Len(s) - 1 + 1
      BY <1>1, FS_Interval
    <2> QED BY <1>1, <2>1
  <1>3. s \in [DOMAIN s -> Range(s)]
    <2>1. s = [i \in DOMAIN s |-> s[i]] OBVIOUS
    <2> QED BY <2>1 DEF Range
  <1>4. s \in Surjection(DOMAIN s, Range(s)) /\ s \in Injection(DOMAIN s, Range(s))
    <2>1. \A x \in Range(s) : \E i \in DOMAIN s : s[i] = x BY DEF Range
    <2> QED BY <1>3, <2>1 DEF Surjection, Injection, IsInjective
  <1> QED BY <1>2, <1>4, FS_Surjection

\* A queue with one more element in front.
LEMMA FrontQueue ==
  ASSUME NEW S, NEW s \in Seq(S), NEW x \in S
  PROVE  /\ <<x>> \o s \in Seq(S)
         /\ Len(<<x>> \o s) = Len(s) + 1 /\ Len(s) \in Nat
         /\ <<x>> \o s # <<>>
         /\ Head(<<x>> \o s) = x /\ Tail(<<x>> \o s) = s
         /\ Range(<<x>> \o s) = Range(s) \cup {x}
         /\ \A e \in S : <<x>> \o Append(s, e) = Append(<<x>> \o s, e)
  <1> DEFINE t == <<x>> \o s
  <1>1. t \in Seq(S) /\ Len(t) = Len(s) + 1 /\ Len(s) \in Nat
    OBVIOUS
  <1>2. t # <<>>
    BY <1>1
  <1>3. Head(t) = x /\ Tail(t) = s
    OBVIOUS
  <1>4. Range(t) = Range(s) \cup {x}
    BY <1>1, <1>2, <1>3, TailQueue
  <1>5. ASSUME NEW e \in S
        PROVE  <<x>> \o Append(s, e) = Append(t, e)
    OBVIOUS
  <1> QED BY <1>1, <1>2, <1>3, <1>4, <1>5

\* A queue that is not empty is its head in front of its tail.
LEMMA SplitQueue ==
  ASSUME NEW S, NEW s \in Seq(S), s # <<>>
  PROVE  s = <<Head(s)>> \o Tail(s)
  OBVIOUS

\* x is in the queue at most once.
AtMostOnce(s, x) == \A i, j \in DOMAIN s : s[i] = x /\ s[j] = x => i = j

\* It still is after something else, or a first x, is appended.
LEMMA OnceAppend ==
  ASSUME NEW S, NEW s \in Seq(S), NEW e \in S, NEW x, AtMostOnce(s, x),
         e # x \/ x \notin Range(s)
  PROVE  AtMostOnce(Append(s, e), x)
  <1> DEFINE t == Append(s, e)
  <1>1. /\ DOMAIN t = DOMAIN s \cup {Len(s) + 1}
        /\ \A i \in DOMAIN s : t[i] = s[i]
        /\ t[Len(s) + 1] = e
    OBVIOUS
  <1> HIDE DEF t
  <1>2. \A i \in DOMAIN s : s[i] = x => e # x
    BY DEF Range
  <1>3. AtMostOnce(t, x)
    BY <1>1, <1>2 DEF AtMostOnce
  <1> QED BY <1>3 DEF t

\* And after the head is taken; if that was x, none is left.
LEMMA OnceTail ==
  ASSUME NEW S, NEW s \in Seq(S), s # <<>>, NEW x, AtMostOnce(s, x)
  PROVE  /\ AtMostOnce(Tail(s), x)
         /\ Head(s) = x => x \notin Range(Tail(s))
  <1> DEFINE t == Tail(s)
  <1>1. /\ \A i \in DOMAIN t : i \in Nat \ {0} /\ i + 1 \in DOMAIN s /\ t[i] = s[i + 1]
        /\ 1 \in DOMAIN s /\ Head(s) = s[1]
    OBVIOUS
  <1> HIDE DEF t
  <1>2. AtMostOnce(t, x)
    BY <1>1 DEF AtMostOnce
  <1>3. ASSUME Head(s) = x PROVE x \notin Range(t)
    BY <1>1, <1>3 DEF AtMostOnce, Range
  <1> QED BY <1>2, <1>3 DEF t

\* Where the elements of a queue are after an append and after a tail.
LEMMA AppendPlaces ==
  ASSUME NEW S, NEW s \in Seq(S), NEW e \in S
  PROVE  /\ DOMAIN Append(s, e) = DOMAIN s \cup {Len(s) + 1}
         /\ \A i \in DOMAIN s : i \in Nat /\ i < Len(s) + 1 /\ Append(s, e)[i] = s[i]
         /\ Append(s, e)[Len(s) + 1] = e
  OBVIOUS

LEMMA TailPlaces ==
  ASSUME NEW S, NEW s \in Seq(S), s # <<>>
  PROVE  /\ 1 \in DOMAIN s /\ Head(s) = s[1]
         /\ \A i \in DOMAIN Tail(s) :
              i \in Nat \ {0} /\ i + 1 \in DOMAIN s /\ Tail(s)[i] = s[i + 1]
  OBVIOUS
=============================================================================
