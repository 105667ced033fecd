------------------------------- MODULE MCSets -------------------------------
(* Sets with a list of literals whose elements collide in the hash or not. *)
EXTENDS Sets

N(i) == <<"n", i>>
S(x) == <<"s", x>>
V(i) == <<"v", i>>

MCBucket(e) == IF e[1] = "n" THEN e[2] % 2 ELSE 1
L1(list) == set_new_from_list(list, "warn")
Pairs    == L1(<< <<N(2), S("a")>>, <<N(1), S("b")>>, <<N(2), S("b")>>, <<N(1), S("a")>> >>)
OneTwo   == L1(<< <<N(2)>>, <<N(1)>> >>)
MCGiven  == { <<>>, <<Pairs>>, <<OneTwo>>,
              <<set_prod_new(set_prod_new(OneTwo, set_range_new(3, 1, -2)), L1(<< <<N(1)>>, <<N(4)>> >>))>>,
              <<set_prod_new(set_range_new(2, 3, 1), L1(<< <<N(2), N(1)>>, <<N(1), N(2)>> >>))>>,
              <<Pairs, L1(<< <<N(2), S("b")>>, <<N(3), S("c")>> >>)>>,
              <<L1(<< <<N(3)>>, <<N(1)>>, <<N(2)>> >>), set_range_new(1, 3, 1)>>,
              <<set_range_new(5, 0, -2), OneTwo>>,
              <<set_pseudo_new, set_empty_new(0)>>, <<set_pseudo_new, set_pseudo_new>>, <<set_pseudo_new, OneTwo>>,
              <<set_empty_new(1), L1(<< <<S("a")>>, <<S("b")>> >>)>> }
MCLiterals == { << <<>> >>, << <<>>, <<>> >>,
                << <<N(2)>>, <<N(1)>>, <<N(2)>> >>,
                << <<N(1)>>, <<S("a")>> >>,
                << <<N(2)>>, <<N(4)>>, <<S("a")>> >>,
                << <<N(2), N(1)>>, <<N(1), N(2)>> >>,
                << <<N(1)>>, <<N(1), N(2)>> >> }
MCRanges == { <<1, 3, 1>>, <<5, 0, 2>>, <<5, 0, -2>>, <<2, 2, 0>> }
MCProjections == { <<1>>, <<2, 1>> }
MCPatterns == { <<>>, <<V(1)>>, <<N(2)>>, <<S("a")>>, <<V(1), N(2)>>, <<N(2), V(1)>>, <<N(2), S("a")>>,
                <<V(1), V(2), N(1)>>, <<N(3), V(1), V(2)>> }
MCProbes == { <<N(3)>>, <<S("a")>>, <<N(2), S("b")>> }
MCSizes == { <<1, -1>>, <<2, 2>>, <<1, 3>>, <<0, 2>> }
MCHolds(c, t) == c = "true" \/ (t # <<>> /\ t[1] # N(2))
MCVal(t) == IF t[1][1] = "n" THEN t[1][2] \div 2 ELSE 1
MCImage(t) == <<t[1]>>
MCBody(t) == IF t[1][1] = "n" THEN set_range_new(t[1][2] - 1, 3, IF t[1][2] > 4 THEN -1 ELSE 1)
             ELSE [set_list_new(1) EXCEPT !.member = <<t[1]>>]
=============================================================================
