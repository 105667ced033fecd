------------------------------ MODULE SetRange ------------------------------
(***************************************************************************)
(* The arithmetic of a range set {begin .. end by step} (setrange.c): the  *)
(* members are numbered from 0 and only the three numbers are stored.      *)
(* C division truncates towards zero, so it is defined here from \div on   *)
(* naturals.                                                               *)
(***************************************************************************)
LOCAL INSTANCE Integers

AbsVal(n) == IF n < 0 THEN -n ELSE n
Sgn(n)    == IF n > 0 THEN 1 ELSE IF n < 0 THEN -1 ELSE 0

CDiv(a, b) == Sgn(a) * Sgn(b) * (AbsVal(a) \div AbsVal(b))
CMod(a, b) == a - b * CDiv(a, b)

idx_to_val(begin, step, idx) == begin + idx * step

\* mutant: the number of a value taken without the sign of the step
val_to_idx_Unsigned(begin, step, val) == CDiv(val - begin, AbsVal(step))
val_to_idx(begin, step, val) == CDiv(val - begin, step)

\* head.members as set_range_new computes it
RangeMembers(begin, end, step) == 1 + CDiv(end - begin, step)

\* set_range_lookup_idx for a number; -1 is "not a member"
RangeLookup(begin, end, step, val) ==
  IF \/ step > 0 /\ (val < begin \/ val > end \/ CMod(val - begin, step) # 0)
     \/ step < 0 /\ (val > begin \/ val < end \/ CMod(begin - val, step) # 0)
  THEN -1
  ELSE val_to_idx(begin, step, val)

\* The step i_set_range uses for {from .. upto by step}: its sign is that of
\* the direction, and a single number has step 1 (0: Error 126).
DirectedStep(from, upto, step) ==
  IF from = upto THEN 1 ELSE Sgn(upto - from) * AbsVal(step)
=============================================================================
