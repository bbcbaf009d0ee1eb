---- MODULE MCGstEngine ----
(* A part of the tables with each kind of entry, and items around the halves. *)
EXTENDS GstEngine, TLC

MCRates ==
  (<<10, 6>> :> 0) @@ (<<10, 6, 30>> :> 500) @@ (<<63, 5>> :> 1200)
  @@ (<<33, 5>> :> 1800) @@ (<<24, 1>> :> 2800)
MCHsnOf == ("basmati" :> <<10, 6, 30>>) @@ ("shampoo" :> <<33, 5>>)

Item(name, hsn, price, quantity) ==
  [name |-> name, hsn |-> hsn, price |-> price, quantity |-> quantity]
MCItems ==
  {Item("basmati", <<>>, 1005, 1), Item("basmati", <<10, 6, 30, 20>>, 5000, 1),
   Item("shampoo", <<>>, 275, 3), Item("soap", <<>>, 999, 1),
   Item("sack", <<63, 5, 10>>, 1255, 3), Item("tobacco", <<24, 1>>, 4465, 1),
   Item("shampoo", <<33>>, 5, 1), Item("rice", <<10, 6>>, 3999, 0)}
====
