----------------------------- MODULE MCLpStore -----------------------------
(* Model checking of LpStore: two variables, two constraints, four structs *)
(* in blocks of two, so that the store grows and structs are reused.       *)
EXTENDS LpStore, TLC

Symmetric == Permutations(Var) \cup Permutations(Con)

\* The fields of an unused struct, var_next apart, are written before they
\* are read again (lps_addnzo): states that differ in them only are one.
OnLive(f) == [n \in live |-> f[n]]
Relevant ==
  <<vars, cons, sto, next, nonzeros, live, heads, var_next,
    OnLive(nzo_var), OnLive(nzo_con), OnLive(nzo_value),
    OnLive(var_prev), OnLive(con_next), OnLive(con_prev)>>
============================================================================
