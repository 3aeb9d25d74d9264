-------------------------------- MODULE Loops --------------------------------
(***************************************************************************)
(* The loops of the coding library: what the state is after the n turns.   *)
(***************************************************************************)
EXTENDS Integers

\* Now(s) is s: TLC is made to evaluate it before it goes on.
Now(s) == CHOOSE r \in {s} : r = r

\* for (i = 0; i < n; i++) s = Step(s, i), in chunks, so that no recursion is deep.
Loop(Step(_, _), init, n) ==
  LET Run(s, lo, hi) ==
        LET after[i \in lo..hi] ==
              IF i = lo THEN s ELSE CHOOSE r \in {Now(Step(t, i - 1)) : t \in {after[i - 1]}} : TRUE
        IN  after[hi]
      whole == n \div 32
      chunks[q \in 0..whole] ==
        IF q = 0 THEN Now(init)
        ELSE CHOOSE r \in {Run(t, 32 * (q - 1), 32 * q) : t \in {chunks[q - 1]}} : TRUE
  IN  CHOOSE r \in {Run(t, 32 * whole, n) : t \in {chunks[whole]}} : TRUE
=============================================================================
