----------------------------- MODULE Loops_proofs -----------------------------
(***************************************************************************)
(* Induction, and with it what Loop computes.  A theorem here is used by   *)
(* an instance of this module, one for each loop and each invariant: p     *)
(* stands for the other parameters of the step.                            *)
(***************************************************************************)
EXTENDS Loops, WellFoundedInduction, TLAPS

CONSTANTS Step(_, _, _),   \* Step(p, s, i): the state after turn i, when it was s before
          Inv(_, _, _)     \* Inv(p, s, i): what holds of the state s before turn i

\* The least of a set of natural numbers: what an induction rests on.
LEMMA Least ==
  ASSUME NEW T \in SUBSET Nat, T # {}
  PROVE  \E x \in T : \A y \in T : x <= y
<1> DEFINE Less == OpToRel(<, Nat)
<1>1. \E x \in T : \A y \in T : <<y, x>> \notin Less
  BY NatLessThanWellFounded, WFMin, Zenon
<1>2. PICK x \in T : \A y \in T : <<y, x>> \notin Less
  BY <1>1, Zenon
<1>3. \A y \in T : ~ y < x
  BY <1>2 DEF OpToRel
<1> QED BY <1>3

Turns(p, init, n) == Loop(LAMBDA s, i : Step(p, s, i), init, n)

-----------------------------------------------------------------------------
(* One chunk: the turns lo..hi-1 *)

Run(p, s, lo, hi, f) == f = [i \in lo..hi |-> IF i = lo THEN s ELSE Step(p, f[i - 1], i - 1)]
After(p, s, lo, hi) == (CHOOSE f : Run(p, s, lo, hi, f))[hi]

\* There is a function that runs the turns from lo on.
LEMMA RunExists ==
  ASSUME NEW p, NEW s, NEW lo \in Nat, NEW hi \in Nat, lo <= hi
  PROVE  \E f : Run(p, s, lo, hi, f)
<1> DEFINE T == {n \in Nat : ~ \E f : Run(p, s, lo, lo + n, f)}
<1>1. T = {}
  <2> SUFFICES ASSUME T # {} PROVE FALSE
    OBVIOUS
  <2>1. PICK n \in T : \A y \in T : n <= y
    BY Least
  <2>2. n # 0
    <3>1. lo..lo+0 = {lo}
      OBVIOUS
    <3>2. Run(p, s, lo, lo + 0, [i \in lo..lo+0 |-> s])
      BY <3>1 DEF Run
    <3> QED BY <3>2
  <2>3. n \in Nat /\ n - 1 \in Nat /\ n - 1 \notin T
    BY <2>1, <2>2
  <2>4. PICK f : Run(p, s, lo, lo + (n - 1), f)
    BY <2>3
  <2> DEFINE g == [i \in lo..lo+n |-> IF i = lo THEN s ELSE Step(p, f[i - 1], i - 1)]
  <2>5. \A i \in lo..lo+(n-1) : i \in lo..lo+n /\ g[i] = f[i]
    BY <2>3, <2>4 DEF Run
  <2>6. \A i \in lo..lo+n : i # lo => g[i - 1] = f[i - 1]
    <3>1. \A i \in lo..lo+n : i # lo => i - 1 \in lo..lo+(n-1)
      BY <2>3
    <3> HIDE DEF g
    <3> QED BY <2>5, <3>1
  <2>7. \A i \in lo..lo+n : g[i] = IF i = lo THEN s ELSE Step(p, g[i - 1], i - 1)
    <3> TAKE i \in lo..lo+n
    <3>1. g[i] = IF i = lo THEN s ELSE Step(p, f[i - 1], i - 1)
      OBVIOUS
    <3> HIDE DEF g
    <3> QED BY <2>6, <3>1
  <2>8. g = [i \in lo..lo+n |-> g[i]]
    OBVIOUS
  <2> HIDE DEF g
  <2>9. g = [i \in lo..lo+n |-> IF i = lo THEN s ELSE Step(p, g[i - 1], i - 1)]
    BY <2>7, <2>8
  <2>10. Run(p, s, lo, lo + n, g)
    BY <2>9 DEF Run
  <2> QED BY <2>1, <2>10
<1>2. hi - lo \in Nat /\ lo + (hi - lo) = hi
  OBVIOUS
<1> QED BY <1>1, <1>2

\* Two runs from the same state agree as far as both go.
LEMMA RunsAgree ==
  ASSUME NEW p, NEW s, NEW lo \in Nat, NEW hi \in Nat, NEW top \in Nat, NEW f, NEW g,
         Run(p, s, lo, hi, f), Run(p, s, lo, top, g)
  PROVE  \A i \in lo..hi : i <= top => f[i] = g[i]
<1> DEFINE T == {i \in lo..hi : i <= top /\ f[i] # g[i]}
<1> SUFFICES ASSUME T # {} PROVE FALSE
  OBVIOUS
<1>1. T \in SUBSET Nat
  OBVIOUS
<1>2. PICK i \in T : \A y \in T : i <= y
  BY <1>1, Least
<1>3. i # lo
  BY <1>2 DEF Run
<1>4. i - 1 \in lo..hi /\ i - 1 <= top /\ i - 1 \notin T
  BY <1>1, <1>2, <1>3
<1>5. f[i - 1] = g[i - 1]
  BY <1>4
<1>6. f[i] = Step(p, f[i - 1], i - 1) /\ g[i] = Step(p, g[i - 1], i - 1)
  BY <1>2, <1>3 DEF Run
<1> QED BY <1>2, <1>5, <1>6

\* After one turn more, the state is a step from the state before it.
LEMMA AfterStep ==
  ASSUME NEW p, NEW s, NEW lo \in Nat, NEW hi \in Nat, lo <= hi
  PROVE  /\ After(p, s, lo, lo) = s
         /\ After(p, s, lo, hi + 1) = Step(p, After(p, s, lo, hi), hi)
<1> DEFINE h(top) == CHOOSE f : Run(p, s, lo, top, f)
<1>1. Run(p, s, lo, lo, h(lo)) /\ Run(p, s, lo, hi, h(hi)) /\ Run(p, s, lo, hi + 1, h(hi + 1))
  BY RunExists
<1> HIDE DEF h
<1>2. h(lo)[lo] = s
  BY <1>1 DEF Run
<1>3. h(hi + 1)[hi + 1] = Step(p, h(hi + 1)[hi], hi)
  <2>1. hi + 1 \in lo..hi+1 /\ hi + 1 # lo /\ (hi + 1) - 1 = hi
    OBVIOUS
  <2> QED BY <1>1, <2>1 DEF Run
<1>4. h(hi + 1)[hi] = h(hi)[hi]
  <2>1. hi \in lo..hi /\ hi <= hi + 1 /\ hi + 1 \in Nat
    OBVIOUS
  <2> QED BY <1>1, <2>1, RunsAgree
<1> QED BY <1>2, <1>3, <1>4 DEF After, h

-----------------------------------------------------------------------------
(* The chunks of 32 turns *)

Row(p, init, top, c) ==
  c = [q \in 0..top |-> IF q = 0 THEN init ELSE After(p, c[q - 1], 32 * (q - 1), 32 * q)]
Chunk(p, init, q) == (CHOOSE c : Row(p, init, q, c))[q]

\* There is a function that runs the chunks.
LEMMA RowExists ==
  ASSUME NEW p, NEW init, NEW top \in Nat
  PROVE  \E c : Row(p, init, top, c)
<1> DEFINE T == {n \in Nat : ~ \E c : Row(p, init, n, c)}
<1> SUFFICES ASSUME T # {} PROVE FALSE
  OBVIOUS
<1>1. PICK n \in T : \A y \in T : n <= y
  BY Least
<1>2. n # 0
  <2>1. 0..0 = {0}
    OBVIOUS
  <2>2. Row(p, init, 0, [q \in 0..0 |-> init])
    BY <2>1 DEF Row
  <2> QED BY <2>2
<1>3. n \in Nat /\ n - 1 \in Nat /\ n - 1 \notin T
  BY <1>1, <1>2
<1>4. PICK c : Row(p, init, n - 1, c)
  BY <1>3
<1> DEFINE d == [q \in 0..n |-> IF q = 0 THEN init ELSE After(p, c[q - 1], 32 * (q - 1), 32 * q)]
<1>5. \A q \in 0..n-1 : q \in 0..n /\ d[q] = c[q]
  BY <1>3, <1>4 DEF Row
<1>6. \A q \in 0..n : q # 0 => d[q - 1] = c[q - 1]
  <2>1. \A q \in 0..n : q # 0 => q - 1 \in 0..n-1
    BY <1>3
  <2> HIDE DEF d
  <2> QED BY <1>5, <2>1
<1>7. \A q \in 0..n : d[q] = IF q = 0 THEN init ELSE After(p, d[q - 1], 32 * (q - 1), 32 * q)
  <2> TAKE q \in 0..n
  <2>1. d[q] = IF q = 0 THEN init ELSE After(p, c[q - 1], 32 * (q - 1), 32 * q)
    OBVIOUS
  <2> HIDE DEF d
  <2> QED BY <1>6, <2>1
<1>8. d = [q \in 0..n |-> d[q]]
  OBVIOUS
<1> HIDE DEF d
<1>9. d = [q \in 0..n |-> IF q = 0 THEN init ELSE After(p, d[q - 1], 32 * (q - 1), 32 * q)]
  BY <1>7, <1>8
<1>10. Row(p, init, n, d)
  BY <1>9 DEF Row
<1> QED BY <1>1, <1>10

\* Two of them agree as far as both go.
LEMMA RowsAgree ==
  ASSUME NEW p, NEW init, NEW top \in Nat, NEW more \in Nat, NEW c, NEW d,
         Row(p, init, top, c), Row(p, init, more, d)
  PROVE  \A q \in 0..top : q <= more => c[q] = d[q]
<1> DEFINE T == {q \in 0..top : q <= more /\ c[q] # d[q]}
<1> SUFFICES ASSUME T # {} PROVE FALSE
  OBVIOUS
<1>1. T \in SUBSET Nat
  OBVIOUS
<1>2. PICK q \in T : \A y \in T : q <= y
  BY <1>1, Least
<1>3. q # 0
  BY <1>2 DEF Row
<1>4. q - 1 \in 0..top /\ q - 1 <= more /\ q - 1 \notin T
  BY <1>1, <1>2, <1>3
<1>5. c[q - 1] = d[q - 1]
  BY <1>4
<1>6. /\ c[q] = After(p, c[q - 1], 32 * (q - 1), 32 * q)
      /\ d[q] = After(p, d[q - 1], 32 * (q - 1), 32 * q)
  BY <1>2, <1>3 DEF Row
<1> QED BY <1>2, <1>5, <1>6

\* The state after one chunk more.
LEMMA ChunkStep ==
  ASSUME NEW p, NEW init, NEW q \in Nat
  PROVE  /\ Chunk(p, init, 0) = init
         /\ Chunk(p, init, q + 1) = After(p, Chunk(p, init, q), 32 * q, 32 * (q + 1))
<1> DEFINE h(top) == CHOOSE c : Row(p, init, top, c)
<1>1. Row(p, init, 0, h(0)) /\ Row(p, init, q, h(q)) /\ Row(p, init, q + 1, h(q + 1))
  BY RowExists
<1> HIDE DEF h
<1>2. h(0)[0] = init
  BY <1>1 DEF Row
<1>3. h(q + 1)[q + 1] = After(p, h(q + 1)[q], 32 * q, 32 * (q + 1))
  <2>1. q + 1 \in 0..q+1 /\ q + 1 # 0 /\ (q + 1) - 1 = q
    OBVIOUS
  <2> QED BY <1>1, <2>1 DEF Row
<1>4. h(q + 1)[q] = h(q)[q]
  <2>1. q \in 0..q /\ q <= q + 1 /\ q + 1 \in Nat
    OBVIOUS
  <2> QED BY <1>1, <2>1, RowsAgree
<1> QED BY <1>2, <1>3, <1>4 DEF Chunk, h

-----------------------------------------------------------------------------
(* The loop *)

\* The loop is the whole chunks and what is left of the last.
LEMMA TurnsAre ==
  ASSUME NEW p, NEW init, NEW n \in Nat
  PROVE  Turns(p, init, n) = After(p, Chunk(p, init, n \div 32), 32 * (n \div 32), n)
<1> DEFINE Run2(s, lo, hi, f) ==
      f = [i \in lo..hi |-> IF i = lo THEN s
                            ELSE CHOOSE r \in {Now(Step(p, t, i - 1)) : t \in {f[i - 1]}} : TRUE]
<1> DEFINE After2(s, lo, hi) == (CHOOSE f : Run2(s, lo, hi, f))[hi]
<1> DEFINE Row2(top, c) ==
      c = [q \in 0..top |-> IF q = 0 THEN Now(init)
                            ELSE CHOOSE r \in {After2(t, 32 * (q - 1), 32 * q) : t \in {c[q - 1]}} : TRUE]
<1>0. Turns(p, init, n)
        = CHOOSE r \in {After2(t, 32 * (n \div 32), n) :
                          t \in {(CHOOSE c : Row2(n \div 32, c))[n \div 32]}} : TRUE
  BY Zenon DEF Turns, Loop, Now
<1>n. \A x : Now(x) = x
  BY DEF Now
<1>1. \A s, lo, hi, f : Run2(s, lo, hi, f) <=> Run(p, s, lo, hi, f)
  <2> TAKE s, lo, hi, f
  <2>1. \A i : (CHOOSE r \in {Now(Step(p, t, i - 1)) : t \in {f[i - 1]}} : TRUE) = Step(p, f[i - 1], i - 1)
    BY <1>n
  <2> QED BY <2>1 DEF Run
<1>2. \A s, lo, hi : After2(s, lo, hi) = After(p, s, lo, hi)
  BY <1>1 DEF After
<1> HIDE DEF Run2, After2
<1>3. \A top, c : Row2(top, c) <=> Row(p, init, top, c)
  <2> TAKE top, c
  <2>1. \A q : (CHOOSE r \in {After2(t, 32 * (q - 1), 32 * q) : t \in {c[q - 1]}} : TRUE)
                 = After(p, c[q - 1], 32 * (q - 1), 32 * q)
    BY <1>2
  <2> QED BY <2>1, <1>n DEF Row
<1> HIDE DEF Row2
<1>4. \A q : (CHOOSE c : Row2(q, c))[q] = Chunk(p, init, q)
  BY <1>3 DEF Chunk
<1> QED BY <1>0, <1>2, <1>4

\* Turn by turn.
LEMMA LoopTurns ==
  ASSUME NEW p, NEW init, NEW n \in Nat
  PROVE  /\ Turns(p, init, 0) = init
         /\ Turns(p, init, n + 1) = Step(p, Turns(p, init, n), n)
<1> DEFINE w == n \div 32
<1>1. w \in Nat /\ 32 * w <= n /\ n < 32 * w + 32 /\ 0 \div 32 = 0
  OBVIOUS
<1>2. Turns(p, init, 0) = init
  <2>1. Turns(p, init, 0) = After(p, Chunk(p, init, 0), 0, 0)
    BY <1>1, TurnsAre
  <2> QED BY <2>1, AfterStep, ChunkStep
<1>3. Turns(p, init, n) = After(p, Chunk(p, init, w), 32 * w, n)
  BY TurnsAre
<1>4. After(p, Chunk(p, init, w), 32 * w, n + 1) = Step(p, Turns(p, init, n), n)
  <2> DEFINE lo == 32 * w
             c == Chunk(p, init, w)
  <2>1. lo \in Nat /\ lo <= n
    BY <1>1
  <2> HIDE DEF lo, c
  <2>2. After(p, c, lo, n + 1) = Step(p, After(p, c, lo, n), n)
    BY <2>1, AfterStep
  <2> QED BY <1>3, <2>2 DEF lo, c
<1>5. Turns(p, init, n + 1) = After(p, Chunk(p, init, (n + 1) \div 32), 32 * ((n + 1) \div 32), n + 1)
  BY TurnsAre
<1>6. CASE n + 1 < 32 * w + 32
  <2>1. (n + 1) \div 32 = w
    BY <1>1, <1>6
  <2> QED BY <1>2, <1>4, <1>5, <2>1
<1>7. CASE n + 1 = 32 * w + 32
  <2>1. (n + 1) \div 32 = w + 1 /\ 32 * (w + 1) = n + 1 /\ w + 1 \in Nat
    BY <1>1, <1>7
  <2> HIDE DEF w
  <2>2. Turns(p, init, n + 1) = After(p, Chunk(p, init, w + 1), n + 1, n + 1)
    BY <1>5, <2>1
  <2>3. Turns(p, init, n + 1) = Chunk(p, init, w + 1)
    <3>1. n + 1 \in Nat
      OBVIOUS
    <3> QED BY <2>2, <3>1, AfterStep
  <2>4. Chunk(p, init, w + 1) = After(p, Chunk(p, init, w), 32 * w, n + 1)
    BY <1>1, <2>1, ChunkStep
  <2> QED BY <1>2, <1>4, <2>3, <2>4
<1> QED BY <1>1, <1>6, <1>7

\* What a loop keeps holds after its last turn.
LEMMA LoopKeeps ==
  ASSUME NEW p, NEW init, NEW n \in Nat, Inv(p, init, 0),
         \A i \in 0..n-1 : \A s : Inv(p, s, i) => Inv(p, Step(p, s, i), i + 1)
  PROVE  Inv(p, Turns(p, init, n), n)
<1> DEFINE T == {i \in 0..n : ~ Inv(p, Turns(p, init, i), i)}
<1> SUFFICES ASSUME T # {} PROVE FALSE
  OBVIOUS
<1>1. T \in SUBSET Nat
  OBVIOUS
<1>2. PICK i \in T : \A y \in T : i <= y
  BY <1>1, Least
<1>3. i # 0
  BY <1>2, LoopTurns
<1>4. i \in Nat /\ i - 1 \in 0..n-1 /\ i - 1 \in 0..n /\ i - 1 \in Nat /\ i - 1 \notin T /\ (i - 1) + 1 = i
  BY <1>1, <1>2, <1>3
<1>5. Inv(p, Turns(p, init, i - 1), i - 1)
  BY <1>4
<1>6. Inv(p, Step(p, Turns(p, init, i - 1), i - 1), i)
  BY <1>4, <1>5
<1>7. Turns(p, init, (i - 1) + 1) = Step(p, Turns(p, init, i - 1), i - 1)
  BY <1>4, LoopTurns
<1> QED BY <1>2, <1>4, <1>6, <1>7
=============================================================================
