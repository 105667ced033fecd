------------------------------ MODULE Bindings -------------------------------
(***************************************************************************)
(* What a symbol table promises: a name maps some of the keys of its index *)
(* set to a value, names and values are only ever added while a session    *)
(* lasts, and a key that has a value keeps it.                             *)
(***************************************************************************)

VARIABLE bind   \* a function from names to functions from keys to values

Init == bind = <<>>

\* f with the value y for one more x
With(f, x, y) == [z \in DOMAIN f \cup {x} |-> IF z = x THEN y ELSE f[z]]

NewName(n) == n \notin DOMAIN bind /\ bind' = With(bind, n, <<>>)

Bind(n, key, val) ==
  /\ n \in DOMAIN bind /\ key \notin DOMAIN bind[n]
  /\ bind' = [bind EXCEPT ![n] = With(@, key, val)]

\* A declaration of one key adds the name and the value at once.
NewScalar(n, key, val) == n \notin DOMAIN bind /\ bind' = With(bind, n, With(<<>>, key, val))

SessionEnds == bind' = <<>>

Next ==
  \/ \E n \in DOMAIN bind' : NewName(n)
  \/ \E n \in DOMAIN bind' : \E key \in DOMAIN bind'[n] :
       Bind(n, key, bind'[n][key]) \/ NewScalar(n, key, bind'[n][key])
  \/ SessionEnds

Spec == Init /\ [][Next]_bind
=============================================================================
