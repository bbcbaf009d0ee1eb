---- MODULE MCCanonicalization ----
(* chini is two letters away from chana, "2 chana" has the token of chana,   *)
(* chyawan only sounds like both, and besan is like none.                    *)
EXTENDS Canonicalization, TLC

MCToken == [a \in Aliases |-> IF a = "chini" THEN "chini" ELSE "chana"]
MCTokens == {"chini", "chana", "chyawan", "besan"}
MCDistance ==
  [d \in MCTokens \X MCTokens |->
     IF d[1] = d[2] THEN 0
     ELSE IF {d[1], d[2]} = {"chini", "chana"} THEN 2 ELSE 4]
MCSoundex == [t \in MCTokens |-> IF t = "besan" THEN "B250" ELSE "C500"]
MCLength == [t \in MCTokens |-> IF t = "chyawan" THEN 7 ELSE 5]
MCSeedRows == {[alias |-> "chana", product |-> "pulse"]}
MCPrice == ("pulse" :> 3) @@ ("sugar" :> 2) @@ ("c" :> 5)
MCProcessOf == ("c" :> "p") @@ ("a" :> "p") @@ ("o1" :> "p") @@ ("o2" :> "q")
====
