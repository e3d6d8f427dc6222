---------------------------- MODULE QueueTheorems ----------------------------
(***************************************************************************)
(* What a FIFO holds: facts about sending to it (Append) and receiving     *)
(* from it (Tail), for the proofs about message and request queues.        *)
(***************************************************************************)
EXTENDS Integers, Sequences, TLAPS

\* x is waiting in the queue s.
Holds(s, x) == \E i \in DOMAIN s : s[i] = x

\* x is waiting at most once in the queue s.
Once(s, x) == \A i, j \in DOMAIN s : s[i] = x /\ s[j] = x => i = j

\* Sending m adds m and nothing else.
LEMMA AppendHolds ==
  ASSUME NEW T, NEW s \in Seq(T), NEW m \in T, NEW x
  PROVE  Holds(Append(s, m), x) <=> Holds(s, x) \/ x = m
<1>1. /\ DOMAIN Append(s, m) = 1 .. Len(s) + 1 /\ Len(s) \in Nat
      /\ DOMAIN s = 1 .. Len(s)
      /\ \A k \in 1 .. Len(s) : Append(s, m)[k] = s[k]
      /\ Append(s, m)[Len(s) + 1] = m
  OBVIOUS
<1> QED
  BY <1>1 DEF Holds

\* A message that was not waiting waits once after it is sent; the others keep
\* their number.
LEMMA AppendOnce ==
  ASSUME NEW T, NEW s \in Seq(T), NEW m \in T, NEW x,
         Once(s, x), x = m => ~Holds(s, x)
  PROVE  Once(Append(s, m), x)
<1>1. /\ DOMAIN Append(s, m) = 1 .. Len(s) + 1 /\ Len(s) \in Nat
      /\ DOMAIN s = 1 .. Len(s)
      /\ \A k \in 1 .. Len(s) : Append(s, m)[k] = s[k]
      /\ Append(s, m)[Len(s) + 1] = m
  OBVIOUS
<1> SUFFICES ASSUME NEW i \in DOMAIN Append(s, m), NEW j \in DOMAIN Append(s, m),
                    Append(s, m)[i] = x, Append(s, m)[j] = x
             PROVE  i = j
  BY DEF Once
<1>2. CASE i \in DOMAIN s /\ j \in DOMAIN s
  BY <1>1, <1>2 DEF Once
<1>3. CASE i \notin DOMAIN s \/ j \notin DOMAIN s
  <2>1. x = m
    BY <1>1, <1>3
  <2>2. i \notin DOMAIN s /\ j \notin DOMAIN s
    BY <1>1, <2>1 DEF Holds
  <2> QED
    BY <1>1, <2>2
<1> QED
  BY <1>2, <1>3

\* What is received is what waited first.
LEMMA HeadHeld ==
  ASSUME NEW T, NEW s \in Seq(T), s # <<>>
  PROVE  Holds(s, Head(s)) /\ Head(s) \in T
<1>1. 1 \in DOMAIN s /\ Head(s) = s[1] /\ Head(s) \in T
  OBVIOUS
<1> QED
  BY <1>1 DEF Holds

\* Receiving adds nothing, and takes nothing but the head.
LEMMA TailHolds ==
  ASSUME NEW T, NEW s \in Seq(T), s # <<>>, NEW x
  PROVE  /\ Holds(Tail(s), x) => Holds(s, x)
         /\ Holds(s, x) /\ x # Head(s) => Holds(Tail(s), x)
<1>1. /\ DOMAIN Tail(s) = 1 .. Len(s) - 1 /\ Len(s) \in Nat \ {0}
      /\ DOMAIN s = 1 .. Len(s) /\ Head(s) = s[1]
      /\ \A k \in 1 .. Len(s) - 1 : Tail(s)[k] = s[k + 1]
  OBVIOUS
<1>2. Holds(Tail(s), x) => Holds(s, x)
  BY <1>1 DEF Holds
<1>3. ASSUME NEW i \in DOMAIN s, s[i] = x, x # Head(s)
      PROVE  Holds(Tail(s), x)
  <2>1. i - 1 \in DOMAIN Tail(s) /\ Tail(s)[i - 1] = x
    BY <1>1, <1>3
  <2> QED
    BY <2>1 DEF Holds
<1> QED
  BY <1>2, <1>3 DEF Holds

\* What waits at most once still does; the head is gone if it waited once.
LEMMA TailOnce ==
  ASSUME NEW T, NEW s \in Seq(T), s # <<>>, NEW x, Once(s, x)
  PROVE  Once(Tail(s), x) /\ (x = Head(s) => ~Holds(Tail(s), x))
<1>1. /\ DOMAIN Tail(s) = 1 .. Len(s) - 1 /\ Len(s) \in Nat \ {0}
      /\ DOMAIN s = 1 .. Len(s) /\ Head(s) = s[1]
      /\ \A k \in 1 .. Len(s) - 1 : Tail(s)[k] = s[k + 1]
  OBVIOUS
<1>2. ASSUME NEW i \in DOMAIN Tail(s), NEW j \in DOMAIN Tail(s),
             Tail(s)[i] = x, Tail(s)[j] = x
      PROVE  i = j
  <2>1. /\ i + 1 \in DOMAIN s /\ j + 1 \in DOMAIN s
        /\ s[i + 1] = x /\ s[j + 1] = x
    BY <1>1, <1>2
  <2>2. i + 1 = j + 1 /\ i \in Int /\ j \in Int
    BY <1>1, <2>1 DEF Once
  <2> QED
    BY <2>2
<1>3. ASSUME NEW i \in DOMAIN Tail(s), Tail(s)[i] = x, x = Head(s)
      PROVE  FALSE
  <2>1. i + 1 \in DOMAIN s /\ s[i + 1] = x /\ 1 \in DOMAIN s /\ s[1] = x
    BY <1>1, <1>3
  <2>2. i + 1 = 1 /\ i \in 1 .. Len(s) - 1
    BY <1>1, <2>1 DEF Once
  <2> QED
    BY <1>1, <2>2
<1> QED
  BY <1>2, <1>3 DEF Once, Holds

\* An empty queue holds nothing.
LEMMA EmptyHolds == \A x : ~Holds(<<>>, x) /\ Once(<<>>, x)
BY DEF Holds, Once
=============================================================================
