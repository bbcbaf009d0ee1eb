---- MODULE ReferenceAnalyzer ----
(***************************************************************************)
(* POST /reference-photos/analyze: the checks of the upload, the resize and *)
(* the profile.  A picture here is a rectangle of one colour on a ground of *)
(* another; means are kept in tenths of L and thousandths of saturation.    *)
(* The palette, the temperature, the contrast and the depth map, numbers    *)
(* that nothing else depends on, are left out.                              *)
(***************************************************************************)
EXTENDS Integers, Sequences, FiniteSetsExt

CONSTANTS
  Colours,     \* [r, g, b]: the colours of pictures
  Lightness,   \* Lightness[c]: L of the colour in CIE-LAB, whole
  MaxPixels,   \* max_pixels
  Sides        \* bound: heights and widths of uploaded images

ASSUME ColoursAssumption ==
  /\ Colours \subseteq [r : 0..255, g : 0..255, b : 0..255]
  /\ \A c \in Colours : Lightness[c] \in 0..100
ASSUME BoundsAssumption ==
  MaxPixels \in Nat \ {0} /\ Sides \subseteq Nat \ {0}

VARIABLES
  upload,    \* its content type, what the bytes are, and its size
  pc,        \* received, loaded, analyzed or answered
  picture,   \* the image after the resize
  profile,   \* the ReferenceProfile
  status     \* the HTTP status, 0 before

vars == <<upload, pc, picture, profile, status>>

(* A content type the endpoint accepts, or none, is allowed. *)
Uploads == [type : {"allowed", "other"}, content : {"empty", "large", "broken", "image"},
            height : Sides, width : Sides]

None == [none |-> TRUE]

Init ==
  /\ upload \in Uploads
  /\ pc = "received"
  /\ picture = None
  /\ profile = None
  /\ status = 0

----
(* Pictures *)

Pictures(h, w) ==
  [height : {h}, width : {w}, ground : Colours, figure : Colours,
   top : 1..h, bottom : 1..h, left : 1..w, right : 1..w]

Pixels(p) == (1 .. p.height) \X (1 .. p.width)
InFigure(p, x) == x[1] \in p.top .. p.bottom /\ x[2] \in p.left .. p.right
ColourAt(p, x) == IF InFigure(p, x) THEN p.figure ELSE p.ground
LightAt(p, x) == Lightness[ColourAt(p, x)]

(* The sum over the pixels of S of what value says of their colours. *)
Sum(p, S, value(_)) ==
  LET inside == Cardinality({x \in S : InFigure(p, x)})
  IN  inside * value(p.figure) + (Cardinality(S) - inside) * value(p.ground)

(* max(1, int(side * scale)), where scale is the root of max_pixels by the      *)
(* pixels; an exact root may come out just below it as a float.                 *)
Scaled(side, other) ==
  {Max({1, n}) : n \in {n \in 0 .. side :
     n * n * other <= MaxPixels * side /\ MaxPixels * side <= (n + 1) * (n + 1) * other}}

(* _resize_for_analysis *)
Resized(h, w) ==
  IF h * w <= MaxPixels THEN {<<h, w>>} ELSE Scaled(h, w) \X Scaled(w, h)

----
(* Zones and the direction of the light *)

Undefined == -1  \* NaN, the mean of no pixel

(* Mutant: a zone of a third of the side, the last pixels belong to none. *)
EvenThirds(n, side) == ((n - 1) * (side \div 3) + 1) .. n * (side \div 3)
(* The n-th of the three bands of rows or columns. *)
Third(n, side) == (((n - 1) * side) \div 3 + 1) .. ((n * side) \div 3)

Zone(p, z) == Third((z - 1) \div 3 + 1, p.height) \X Third(((z - 1) % 3) + 1, p.width)

Mean10(p, S) ==
  IF S = {} THEN Undefined
  ELSE (10 * Sum(p, S, LAMBDA c : Lightness[c])) \div Cardinality(S)
Zones(p) == [z \in 1..9 |-> Mean10(p, Zone(p, z))]

(* The standard deviation is less than 5; one NaN makes it NaN. *)
Uniform(zones) ==
  LET total == SumFunction(zones)
      squares == SumFunction([z \in 1..9 |-> zones[z] * zones[z]])
  IN  (\A z \in 1..9 : zones[z] # Undefined) /\ 9 * squares - total * total < 81 * 50 * 50

(* argmax: the first NaN, or else the first of the largest. *)
Brightest(zones) ==
  LET means == {zones[z] : z \in 1..9}
      largest == IF Undefined \in means THEN Undefined ELSE Max(means)
  IN  Min({z \in 1..9 : zones[z] = largest})

Flat == <<>>  \* FLAT

(* Mutant: row and column are swapped. *)
Transposed(zones) ==
  LET z == Brightest(zones) - 1
  IN  IF Uniform(zones) THEN Flat ELSE <<(z % 3) - 1, (z \div 3) - 1>>
(* Where the light is: <<-1, -1>> is TOP_LEFT, <<0, 0>> OVERHEAD. *)
Direction(zones) ==
  LET z == Brightest(zones) - 1
  IN  IF Uniform(zones) THEN Flat ELSE <<(z \div 3) - 1, (z % 3) - 1>>

----
(* Hue bands *)

Largest(c) == Max({c.r, c.g, c.b})
Delta(c) == Largest(c) - Min({c.r, c.g, c.b})

(* The hue in degrees, times delta; the masks of green and blue come later. *)
Hue(c) ==
  LET d == Delta(c)
  IN  IF d = 0 THEN 0
      ELSE IF c.b = Largest(c) THEN 60 * (c.r - c.g) + 240 * d
      ELSE IF c.g = Largest(c) THEN 60 * (c.b - c.r) + 120 * d
      ELSE (60 * (c.g - c.b)) % (360 * d)

Saturation(c) == IF Largest(c) = 0 THEN 0 ELSE (1000 * Delta(c)) \div Largest(c)

(* The program computes hue and saturation in float32.  A hue is exact when two
   channels are equal, as its quotient is 0, 1 or -1 then; otherwise it may come
   out a little lower or higher, and a saturation of 15 % a little lower.  That
   decides the band of a colour on a bound and of no other, since the hues of
   24-bit colours that are not on a bound are far from it. *)
ExactHue(c) == c.r = c.g \/ c.g = c.b \/ c.b = c.r
(* Twice the hue times delta, with 1 for what rounding adds or takes away. *)
Hues(c) ==
  IF ExactHue(c) THEN {2 * Hue(c)} ELSE {2 * Hue(c) - 1, 2 * Hue(c), 2 * Hue(c) + 1}
Neutrals(c) ==
  IF Largest(c) = 0 THEN {TRUE}
  ELSE IF 100 * Delta(c) = 15 * Largest(c) THEN BOOLEAN
  ELSE {100 * Delta(c) < 15 * Largest(c)}
Tones(c) == [hue : Hues(c), neutral : Neutrals(c), delta : {Delta(c)}]

Bands == {"reds", "oranges", "yellows", "greens", "cyans", "blues", "magentas", "neutrals"}
Above == [oranges |-> 30, yellows |-> 60, greens |-> 90, cyans |-> 150, blues |-> 210,
          magentas |-> 270]
UpTo == [oranges |-> 60, yellows |-> 90, greens |-> 150, cyans |-> 210, blues |-> 270,
         magentas |-> 330]

AtMost(tone, degrees) == tone.hue <= 2 * degrees * tone.delta
AtLeast(tone, degrees) == tone.hue >= 2 * degrees * tone.delta

(* Mutant: reds begin at 0 degrees. *)
RedFromZero(tone) == AtMost(tone, 30)
Red(tone) == AtMost(tone, 30) \/ AtLeast(tone, 330)

InBand(tone, band) ==
  IF band = "neutrals" THEN tone.neutral
  ELSE /\ ~tone.neutral
       /\ IF band = "reds" THEN Red(tone)
          ELSE ~Red(tone) /\ ~AtMost(tone, Above[band]) /\ AtMost(tone, UpTo[band])

(* What the arithmetic makes of the colours of a picture: one tone of each. *)
Readings(p) ==
  LET colours == {p.ground, p.figure}
  IN  {tone \in [colours -> UNION {Tones(c) : c \in colours}] :
         \A c \in colours : tone[c] \in Tones(c)}

(* The mean saturation of the pixels of the band, 0 of none. *)
PerHueSaturation(p, tone) ==
  [band \in Bands |->
    LET inside == {x \in Pixels(p) : InBand(tone[ColourAt(p, x)], band)}
    IN  IF inside = {} THEN 0
        ELSE Sum(p, inside, Saturation) \div Cardinality(inside)]

----
(* Shadows and highlights *)

ShadowLevel(p) ==
  LET dark == {x \in Pixels(p) : LightAt(p, x) < 30}
  IN  IF dark = {} THEN 0 ELSE Mean10(p, dark)
(* Mutant: the boundary value of no bright pixel is that of the shadows. *)
NoHighlight(p) ==
  LET bright == {x \in Pixels(p) : LightAt(p, x) > 70}
  IN  IF bright = {} THEN 0 ELSE Mean10(p, bright)
HighlightLevel(p) ==
  LET bright == {x \in Pixels(p) : LightAt(p, x) > 70}
  IN  IF bright = {} THEN 1000 ELSE Mean10(p, bright)

Profile(p, tone) ==
  LET zones == Zones(p)
  IN  [zones |-> zones, shadow |-> ShadowLevel(p), highlight |-> HighlightLevel(p),
       saturation |-> PerHueSaturation(p, tone), direction |-> Direction(zones)]

----
(* analyze_reference_photo *)

Answer(code) == pc' = "answered" /\ status' = code
Refuse(code) == pc = "received" /\ Answer(code) /\ UNCHANGED <<upload, picture, profile>>

RefuseType == upload.type = "other" /\ Refuse(415)
RefuseEmpty == upload.type # "other" /\ upload.content = "empty" /\ Refuse(422)
RefuseLarge == upload.type # "other" /\ upload.content = "large" /\ Refuse(413)
(* PIL raises. *)
RefuseBroken == upload.type # "other" /\ upload.content = "broken" /\ Refuse(422)

(* Resampling leaves any pixels. *)
Load ==
  /\ pc = "received" /\ upload.type # "other" /\ upload.content = "image"
  /\ \E size \in Resized(upload.height, upload.width) :
       picture' \in {p \in Pictures(size[1], size[2]) : p.top <= p.bottom /\ p.left <= p.right}
  /\ pc' = "loaded"
  /\ UNCHANGED <<upload, profile, status>>

Analyze ==
  /\ pc = "loaded"
  /\ \E tone \in Readings(picture) : profile' = Profile(picture, tone)
  /\ pc' = "analyzed"
  /\ UNCHANGED <<upload, picture, status>>

(* JSON has no NaN: the response fails, or has null in its place. *)
Render ==
  /\ pc = "analyzed"
  /\ \E code \in {200, 500} :
       /\ code = 500 => \E z \in 1..9 : profile.zones[z] = Undefined
       /\ Answer(code)
  /\ UNCHANGED <<upload, picture, profile>>

Next ==
  \/ RefuseType \/ RefuseEmpty \/ RefuseLarge \/ RefuseBroken
  \/ Load \/ Analyze \/ Render

Spec == Init /\ [][Next]_vars

----
(* Properties *)

Analyzed == profile # None

Levels == 0..1000         \* tenths of L, thousandths of saturation

(* A profile has its ranges, and the shades' levels stay on their sides. *)
TypeOK ==
  /\ upload \in Uploads
  /\ pc \in {"received", "loaded", "analyzed", "answered"}
  /\ status \in (IF pc = "answered" THEN {200, 413, 415, 422, 500} ELSE {0})
  /\ Analyzed =>
       /\ profile.zones \in [1..9 -> Levels \cup {Undefined}]
       /\ profile.shadow < 300 /\ profile.highlight >= 700
       /\ profile.saturation \in [Bands -> Levels]

Shorter(h, w) == Min({h, w})
Longer(h, w) == Max({h, w})

(* The nine zones are defined, and the response does not fail, for every image
   whose sides are 3 at least and still are after the resize: the longer one is no
   more than a ninth of max_pixels times the shorter one.  Each pixel is in one
   zone then. *)
OnlyThinImagesFail ==
  Analyzed =>
    LET h == upload.height
        w == upload.width
        thin == \/ Shorter(h, w) < 3
                \/ h * w > MaxPixels /\ MaxPixels * Shorter(h, w) <= 9 * Longer(h, w)
    IN  /\ status = 500 \/ (\E z \in 1..9 : profile.zones[z] = Undefined) => thin
        /\ ~thin => \A x \in Pixels(picture) :
             Cardinality({z \in 1..9 : x \in Zone(picture, z)}) = 1

Mirrored(p) ==
  [p EXCEPT !.left = p.width + 1 - p.right, !.right = p.width + 1 - p.left]

(* A picture in the mirror has its light on the other side, unless the columns
   are not equally wide, or two zones are equally bright and the first is taken. *)
MirroredLight ==
  LET mirrored == Direction(Zones(Mirrored(picture)))
      brightest == {z \in 1..9 : \A y \in 1..9 : profile.zones[y] <= profile.zones[z]}
  IN  pc = "analyzed" /\ picture.width % 3 = 0 /\ picture.height > 2
        /\ (profile.direction = Flat \/ Cardinality(brightest) = 1) =>
      IF profile.direction = Flat THEN mirrored = Flat
      ELSE mirrored = <<profile.direction[1], - profile.direction[2]>>

(* Red to green, green to blue, blue to red. *)
Turned(c) == [r |-> c.b, g |-> c.r, b |-> c.g]
BandsOf(tone) == {band \in Bands : InBand(tone, band)}
TurnedBand(band) ==
  CASE band = "reds" -> {"greens"}
    [] band \in {"oranges", "yellows"} -> {"cyans"}
    [] band = "greens" -> {"blues"}
    [] band = "cyans" -> {"magentas"}
    [] band = "blues" -> {"reds"}
    [] band = "magentas" -> {"oranges", "yellows"}
    [] band = "neutrals" -> {"neutrals"}

(* The bounds where hues are not exact: at 60 degrees two channels are equal. *)
RoundedBounds == {30, 90, 150, 210, 270, 330}

(* Rounding decides whether the colour is neutral, or else between two bands. *)
OnBound(c) ==
  \/ Neutrals(c) = BOOLEAN
  \/ /\ Neutrals(c) = {FALSE}
     /\ \E degrees \in RoundedBounds : Hue(c) = degrees * Delta(c)

(* Each pixel counts in one band, whichever way its hue is rounded.  It counts in
   the next but one when its channels change places, unless it is on a bound that
   rounding decides: the masks for red, green and blue agree, and so do the bounds
   of the bands. *)
HuesTurn ==
  pc = "analyzed" => \A c \in {ColourAt(picture, x) : x \in Pixels(picture)} :
    \A tone \in Tones(c) : \E band \in Bands :
      /\ BandsOf(tone) = {band}
      /\ ~OnBound(c) => \A turned \in Tones(Turned(c)) :
           \E next \in TurnedBand(band) : BandsOf(turned) = {next}
====
