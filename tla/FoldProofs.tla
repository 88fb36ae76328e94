----------------------------- MODULE FoldProofs -----------------------------
(***************************************************************************)
(* A loop over a sequence, as the models write it: FoldLeft of the         *)
(* community modules.  Its body is a constant operator, to be replaced by  *)
(* that of a loop where the lemmas are used; "context" is what the body    *)
(* reads and does not change.                                              *)
(***************************************************************************)
EXTENDS SequencesExt, Integers, TLAPS, WellFoundedInduction

CONSTANT Body(_, _, _)

Loop(context, start, seq) == FoldLeft(LAMBDA x, e : Body(context, x, e), start, seq)

(* The least element of a set of numbers.                                  *)
LEMMA LeastNumber ==
  ASSUME NEW S \in SUBSET Nat, S # {}
  PROVE  \E least \in S : \A i \in S : least <= i
<1>1. \E least \in S : \A i \in S : ~(<<i, least>> \in OpToRel(<, Nat))
  BY NatLessThanWellFounded, WFMin
<1>2. PICK least \in S : \A i \in S : ~(<<i, least>> \in OpToRel(<, Nat))
  BY <1>1
<1>3. \A i \in S : ~(i < least)
  BY <1>2 DEF OpToRel
<1>4. QED
  BY <1>3

(* "h" is the function that MapThenFoldSet defines, on the first k turns.  *)
Iteration(h, context, start, seq, k) ==
  h = [s \in SUBSET (1..k) |->
         IF s = {} THEN start ELSE Body(context, h[s \ {Max(s)}], seq[Max(s)])]

(* It exists: by induction on k, turn by turn.                             *)
LEMMA LoopIsDefined ==
  ASSUME NEW context, NEW start, NEW seq, NEW n \in Nat
  PROVE  \E h : Iteration(h, context, start, seq, n)
<1> DEFINE Iter(h, k) == Iteration(h, context, start, seq, k)
<1> USE DEF Iteration
<1>1. \E h : Iter(h, 0)
  <2>1. SUBSET (1..0) = {{}}
    OBVIOUS
  <2>2. Iter([s \in {{}} |-> start], 0)
    BY <2>1
  <2>3. QED
    BY <2>2
<1>2. ASSUME NEW k \in Nat, NEW h, Iter(h, k)
      PROVE  \E larger : Iter(larger, k + 1)
  <2> DEFINE larger == [s \in SUBSET (1..(k + 1)) |->
                          IF k + 1 \in s THEN Body(context, h[s \ {k + 1}], seq[k + 1]) ELSE h[s]]
  <2>1. ASSUME NEW s \in SUBSET (1..(k + 1)), k + 1 \in s
        PROVE  Max(s) = k + 1 /\ s \ {k + 1} \in SUBSET (1..k)
    <3>1. \A y \in s : y \in Int /\ k + 1 >= y
      OBVIOUS
    <3>2. Max(s) \in s /\ \A y \in s : Max(s) >= y
      BY <2>1, <3>1 DEF Max
    <3>3. Max(s) >= k + 1 /\ k + 1 >= Max(s) /\ Max(s) \in Int
      BY <2>1, <3>1, <3>2
    <3>4. s \ {k + 1} \in SUBSET (1..k)
      OBVIOUS
    <3>5. Max(s) = k + 1
      BY <3>3
    <3>6. QED
      BY <3>4, <3>5
  <2>2. ASSUME NEW s \in SUBSET (1..(k + 1)), k + 1 \notin s
        PROVE  s \in SUBSET (1..k) /\ larger[s] = h[s]
    BY <2>2
  <2>3. ASSUME NEW s \in SUBSET (1..k), s # {}
        PROVE  s \ {Max(s)} \in SUBSET (1..k)
    OBVIOUS
  <2>4. \A s \in SUBSET (1..k) : s \in SUBSET (1..(k + 1)) /\ k + 1 \notin s /\ larger[s] = h[s]
    OBVIOUS
  <2>5. ASSUME NEW s \in SUBSET (1..(k + 1))
        PROVE  larger[s] = IF s = {} THEN start
                           ELSE Body(context, larger[s \ {Max(s)}], seq[Max(s)])
    <3>1. CASE k + 1 \in s
      <4>1. larger[s] = Body(context, h[s \ {k + 1}], seq[k + 1])
        BY <3>1
      <4>2. h[s \ {k + 1}] = larger[s \ {k + 1}]
        BY <2>1, <2>4, <3>1
      <4>3. QED
        BY <2>1, <3>1, <4>1, <4>2
    <3>2. CASE k + 1 \notin s
      <4>1. s \in SUBSET (1..k) /\ larger[s] = h[s]
        BY <2>2, <3>2
      <4>2. h[s] = IF s = {} THEN start ELSE Body(context, h[s \ {Max(s)}], seq[Max(s)])
        BY <1>2, <4>1
      <4>3. s # {} => h[s \ {Max(s)}] = larger[s \ {Max(s)}]
        BY <2>3, <2>4, <4>1
      <4>4. QED
        BY <4>1, <4>2, <4>3
    <3>3. QED
      BY <3>1, <3>2
  <2>6. Iter(larger, k + 1)
    BY <2>5
  <2>7. QED
    BY <2>6
<1> HIDE DEF Iter, Iteration
<1>3. \A k \in Nat : \E h : Iter(h, k)
  <2> SUFFICES ASSUME NEW k \in Nat, ~\E h : Iter(h, k)
               PROVE  FALSE
    OBVIOUS
  <2> DEFINE missing == {i \in Nat : ~\E h : Iter(h, i)}
  <2>1. PICK least \in missing : \A i \in missing : least <= i
    BY LeastNumber
  <2>2. least # 0 /\ least - 1 \in Nat /\ least - 1 \notin missing
    BY <1>1, <2>1
  <2>3. PICK h : Iter(h, least - 1)
    BY <2>2
  <2>4. \E larger : Iter(larger, least)
    BY <1>2, <2>2, <2>3
  <2>5. QED
    BY <2>1, <2>4
<1>4. QED
  BY <1>3 DEF Iter

(* The turns of a loop: each takes up what the one before left.            *)
LEMMA LoopTurns ==
  ASSUME NEW context, NEW start, NEW n \in Nat, NEW seq, DOMAIN seq = 1..n
  PROVE  \E turn : /\ turn[0] = start
                   /\ \A i \in 0..(n - 1) : turn[i + 1] = Body(context, turn[i], seq[i + 1])
                   /\ turn[n] = Loop(context, start, seq)
<1> DEFINE iter == CHOOSE h : Iteration(h, context, start, seq, n)
           turn == [i \in 0..n |-> iter[1..i]]
<1>1. Iteration(iter, context, start, seq, n)
  BY LoopIsDefined
<1>2. Loop(context, start, seq) = iter[1..n]
  BY DEF Loop, FoldLeft, MapThenFoldSet, Iteration
<1> HIDE DEF iter
<1>3. turn[0] = start
  <2>1. 1..0 = {}
    OBVIOUS
  <2>2. QED
    BY <1>1, <2>1 DEF Iteration
<1>4. ASSUME NEW i \in 0..(n - 1)
      PROVE  turn[i + 1] = Body(context, turn[i], seq[i + 1])
  <2>1. /\ 1..(i + 1) \in SUBSET (1..n) /\ 1..(i + 1) # {}
        /\ 1..(i + 1) \ {i + 1} = 1..i
    OBVIOUS
  <2>2. Max(1..(i + 1)) = i + 1
    <3>1. Max(1..(i + 1)) \in 1..(i + 1) /\ \A y \in 1..(i + 1) : Max(1..(i + 1)) >= y
      BY DEF Max
    <3>2. QED
      BY <3>1
  <2>3. iter[1..(i + 1)] = Body(context, iter[1..i], seq[i + 1])
    BY <1>1, <2>1, <2>2 DEF Iteration
  <2>4. QED
    BY <2>3
<1>5. turn[n] = Loop(context, start, seq)
  BY <1>2
<1> HIDE DEF turn
<1>6. QED
  BY <1>3, <1>4, <1>5

(* What holds of a loop at every turn holds at its end: "Kept[i]" is the   *)
(* set of the values allowed after i turns.                                *)
LEMMA LoopInvariant ==
  ASSUME NEW context, NEW start, NEW n \in Nat, NEW seq, DOMAIN seq = 1..n, NEW Kept,
         start \in Kept[0],
         \A i \in 0..(n - 1) : \A x \in Kept[i] : Body(context, x, seq[i + 1]) \in Kept[i + 1]
  PROVE  Loop(context, start, seq) \in Kept[n]
<1>1. PICK turn : /\ turn[0] = start
                  /\ \A i \in 0..(n - 1) : turn[i + 1] = Body(context, turn[i], seq[i + 1])
                  /\ turn[n] = Loop(context, start, seq)
  BY LoopTurns
<1> SUFFICES ASSUME turn[n] \notin Kept[n]
             PROVE  FALSE
  BY <1>1
<1> DEFINE broken == {i \in 0..n : turn[i] \notin Kept[i]}
<1>2. PICK least \in broken : \A i \in broken : least <= i
  <2>1. broken \in SUBSET Nat /\ n \in broken
    OBVIOUS
  <2>2. QED
    BY <2>1, LeastNumber
<1>3. least # 0 /\ least - 1 \in 0..(n - 1) /\ least - 1 \notin broken
  BY <1>1, <1>2
<1>4. turn[least - 1] \in Kept[least - 1]
  BY <1>3
<1>5. turn[(least - 1) + 1] \in Kept[(least - 1) + 1]
  BY <1>1, <1>3, <1>4
<1>6. QED
  BY <1>2, <1>5

=============================================================================
