---- MODULE MCReferenceAnalyzer ----
(* Black, a dark brown whose hue is on a bound that rounding decides, a red near
   magenta, a yellow on an exact bound, and a bright grey with little hue. *)
EXTENDS ReferenceAnalyzer, TLC

RGB(red, green, blue) == [r |-> red, g |-> green, b |-> blue]
MCLightness ==
  (RGB(0, 0, 0) :> 0) @@ (RGB(255, 255, 0) :> 97)
  @@ (RGB(90, 45, 0) :> 24) @@ (RGB(255, 0, 100) :> 54) @@ (RGB(200, 180, 190) :> 76)
MCColours == DOMAIN MCLightness
====
