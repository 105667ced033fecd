--------------------------------- MODULE Qubo -------------------------------
(***************************************************************************)
(* The objective function of the program: objective statements (inst.c,    *)
(* xlpglue.c, ratlpstore.c) and constraints with the attribute qubo, which *)
(* addcon_as_qubo (vinst.c) moves into the objective as a squared penalty  *)
(* after turning inequalities into equations with binary slack variables.  *)
(*                                                                         *)
(* Terms are represented by the values they take: a constraint by its      *)
(* value at every point of the variables and the bounds term2.c computes,  *)
(* the slack part of a term by the set "reach" of values it can take.      *)
(***************************************************************************)
EXTENDS Integers, Sequences, FiniteSetsExt

CONSTANTS Point,       \* assignments to the user's variables
          Objective,   \* terms: constant, linear part, part of higher degree
          Constraint,  \* type, linear, rhs, value at every point, lower, upper
          Weight,      \* penalty factors (1, 10, 100, ...)
          Limit,       \* 1 << 30, the largest slack that can be converted
          MaxStmt      \* bound of the model: statements executed

Types == {"EQUAL", "RHS", "LHS", "RANGE"}

ASSUME QuboAssumption ==
  /\ Limit \in Nat \ {0}
  /\ Weight \subseteq Nat \ {0}
  /\ \A o \in Objective : /\ o.constant \in Int
                          /\ o.linear \in [Point -> Int] /\ o.higher \in [Point -> Int]
  /\ \A c \in Constraint :
       /\ c.type \in Types /\ c.linear \in BOOLEAN /\ c.rhs \in Int /\ c.lower \in Int /\ c.upper \in Int
       /\ \A u \in Point : c.value[u] \in Int /\ c.lower <= c.value[u] /\ c.value[u] <= c.upper

VARIABLES
  linear,    \* [Point -> Int], the costs of the variables (var->cost)
  offset,    \* the cost of the variable @ObjOffset, fixed to 1
  obj_term,  \* sequence of terms of higher degree: declared ones, penalties
  direct,    \* lp->direct
  objname,   \* whether an objective was declared
  pc,        \* where addcon_as_qubo is: "idle", "double", "bits", "square",
             \* or "exit" after an error message
  con, penalty,  \* its constraint and factor
  sval, p2, bit, \* its loop variables
  reach,     \* the values the slack variables added so far can take
  declared,  \* auxiliary: the last objective declared
  asked,     \* auxiliary: sequence of the constraints converted since Init
  replaced,  \* auxiliary: an objective was declared when there was one already
  late,      \* auxiliary: ... when a constraint had been converted
  executed

obj == <<linear, offset, obj_term, direct, objname, declared, asked, replaced, late>>
slack == <<con, penalty, sval, p2, bit, reach>>
vars == <<obj, slack, pc, executed>>

Zero == [u \in Point |-> 0]

Init ==
  /\ linear = Zero /\ offset = 0 /\ obj_term = <<>>
  /\ direct = "MIN" /\ objname = FALSE
  /\ pc = "idle" /\ con \in Constraint /\ penalty \in Weight
  /\ sval = 0 /\ p2 = 1 /\ bit = 1 /\ reach = {0}
  /\ declared = [constant |-> 0, linear |-> Zero, higher |-> Zero]
  /\ asked = <<>> /\ replaced = FALSE /\ late = FALSE
  /\ executed = 0
----------------------------------------------------------------------------
\* xlp_addtoobj: the constant goes to the cost of @ObjOffset; a linear rest is
\* added to the costs, any other is appended to obj_term as a whole.
Plus(f, g) == [u \in Point |-> f[u] + g[u]]
Declared(o) == [kind |-> "declared", value |-> Plus(o.linear, o.higher)]

\* objective(): xlp_setobj clears the costs (lps_clearobj) and sets direction
\* and name, xlp_addtoobj adds the term.
objective(o, minimize) ==
  /\ pc = "idle" /\ executed < MaxStmt
  /\ offset' = o.constant
  /\ IF o.higher = Zero
     THEN linear' = o.linear /\ obj_term' = obj_term
     ELSE linear' = Zero /\ obj_term' = Append(obj_term, Declared(o))
  /\ direct' = IF minimize THEN "MIN" ELSE "MAX"
  /\ objname' = TRUE
  /\ declared' = o
  /\ replaced' = (replaced \/ objname)
  /\ late' = (late \/ asked # <<>>)
  /\ executed' = executed + 1
  /\ UNCHANGED <<slack, pc, asked>>
----------------------------------------------------------------------------
Abs(i) == IF i < 0 THEN -i ELSE i

\* The value of "term + slack" that has to become the right hand side.
Sign(c) == IF c.type = "RHS" THEN 1 ELSE -1
Bound(c) == IF c.type = "RHS" THEN c.lower ELSE c.upper
Slack_Short(c) == \* mutant: one less than the constraint can leave open
  Abs(Bound(c) - c.rhs) - 1
Slack(c) == Abs(Bound(c) - c.rhs)

\* Errors 403 (not linear), 402 (range) and 401 (slack too large).
Convertible(c) ==
  /\ c.linear /\ c.type # "RANGE"
  /\ c.type # "EQUAL" => Slack(c) <= Limit

qubo_error(c) ==
  /\ pc = "idle" /\ executed < MaxStmt
  /\ ~Convertible(c)
  /\ pc' = "exit"
  /\ UNCHANGED <<obj, slack, executed>>

\* addcon_as_qubo up to the first loop.
qubo_start(c, w) ==
  /\ pc = "idle" /\ executed < MaxStmt
  /\ Convertible(c)
  /\ con' = c /\ penalty' = w
  /\ sval' = IF c.type = "EQUAL" THEN 0 ELSE Slack(c)
  /\ p2' = 1 /\ bit' = 1 /\ reach' = {0}
  /\ pc' = IF c.type = "EQUAL" THEN "square" ELSE "double"
  /\ executed' = executed + 1
  /\ UNCHANGED obj

\* What the slack variables can take after one more with coefficient k.
With(k) == reach \cup {r + k : r \in reach}

\* The first loop: coefficients 1, 2, 4, ... as long as they fit.
Fits_Greedy == \* mutant: as long as something is left
  sval > 0
Fits == sval >= p2

qubo_double ==
  /\ pc = "double" /\ Fits
  /\ reach' = With(p2)
  /\ sval' = sval - p2
  /\ p2' = p2 * 2
  /\ UNCHANGED <<obj, con, penalty, bit, pc, executed>>

qubo_double_end ==
  /\ pc = "double" /\ ~Fits
  /\ pc' = "bits"
  /\ UNCHANGED <<obj, slack, executed>>

\* The second loop: the binary digits of the rest.
Digit_High == \* mutant: the loop starts at i = 1
  IF bit = 1 THEN 0 ELSE (sval \div bit) % 2
Digit == (sval \div bit) % 2

qubo_bits ==
  /\ pc = "bits" /\ bit < Limit
  /\ reach' = IF Digit = 0 THEN reach ELSE With(bit)
  /\ bit' = bit * 2
  /\ UNCHANGED <<obj, con, penalty, sval, p2, pc, executed>>

qubo_bits_end ==
  /\ pc = "bits" /\ bit >= Limit
  /\ pc' = "square"
  /\ UNCHANGED <<obj, slack, executed>>

\* penalty * (term + slack - rhs)^2, less its constant, goes to obj_term.
Squared(c, u, s) == (c.value[u] + Sign(c) * s - c.rhs) * (c.value[u] + Sign(c) * s - c.rhs)

SquareConstant_Plain == \* mutant: the constant is not multiplied
  con.rhs * con.rhs
SquareConstant == penalty * con.rhs * con.rhs

qubo_square ==
  /\ pc = "square"
  /\ offset' = offset + SquareConstant
  /\ obj_term' = Append(obj_term, [kind |-> "penalty", con |-> con, weight |-> penalty,
                                   slack |-> reach])
  /\ pc' = "idle"
  /\ asked' = Append(asked, con)
  /\ UNCHANGED <<linear, direct, objname, declared, replaced, late, slack, executed>>

Next ==
  \/ \E o \in Objective, minimize \in BOOLEAN : objective(o, minimize)
  \/ \E c \in Constraint : qubo_error(c) \/ \E w \in Weight : qubo_start(c, w)
  \/ qubo_double \/ qubo_double_end
  \/ qubo_bits \/ qubo_bits_end
  \/ qubo_square

Spec == Init /\ [][Next]_vars
----------------------------------------------------------------------------
\* The loop variables stay positive and every value of the slack is an integer.
TypeOK ==
  /\ pc \in {"idle", "double", "bits", "square", "exit"}
  /\ con \in Constraint /\ penalty \in Weight
  /\ sval \in Nat /\ p2 \in Nat \ {0} /\ bit \in Nat \ {0}
  /\ reach \in SUBSET Int

\* What a constraint asks for.
Admits(c, u) ==
  CASE c.type = "EQUAL" -> c.value[u] = c.rhs
    [] c.type = "RHS" -> c.value[u] <= c.rhs
    [] c.type = "LHS" -> c.value[u] >= c.rhs

\* The slack variables of a constraint take every value from 0 to the largest
\* one it can leave open, whatever that is: the decomposition into powers of
\* two (the two loops of addcon_as_qubo) has no gap and no excess.
SlackCovered ==
  pc = "square" /\ con.type # "EQUAL" => reach = 0 .. Slack(con)

\* The squared term of addcon_as_qubo can be made zero at a point exactly if
\* the constraint admits the point.
PenaltyExact ==
  pc = "square" =>
    \A u \in Point : Admits(con, u) <=> \E s \in reach : Squared(con, u, s) = 0

\* The value of the objective at a point, where the slack variables are as
\* the direction prefers them.
Part(t, u) ==
  IF t.kind = "declared" THEN t.value[u]
  ELSE LET costs == {t.weight * (Squared(t.con, u, s) - t.con.rhs * t.con.rhs) : s \in t.slack}
       IN  IF direct = "MIN" THEN Min(costs) ELSE Max(costs)
Total(f(_)) == LET sum[i \in 0 .. Len(obj_term)] ==
                     IF i = 0 THEN 0 ELSE sum[i - 1] + f(obj_term[i])
               IN  sum[Len(obj_term)]
Cost(u) == LET part(t) == Part(t, u) IN linear[u] + offset + Total(part)
Intended(u) == declared.constant + declared.linear[u] + declared.higher[u]

\* Points that satisfy the converted constraints have the declared value, all
\* others are worse, whatever the values of the slack variables.
Deterred ==
  \A u \in Point :
    IF \A i \in DOMAIN asked : Admits(asked[i], u) THEN Cost(u) = Intended(u)
    ELSE IF direct = "MIN" THEN Cost(u) > Intended(u) ELSE Cost(u) < Intended(u)

\* The objective of a minimisation declared once and before all conversions
\* (objective, addcon_as_qubo and xlp_addtoobj together).
PenaltyCounts == ~replaced /\ ~late /\ direct = "MIN" => Deterred
============================================================================
