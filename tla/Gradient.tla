------------------------------- MODULE Gradient -------------------------------
(***************************************************************************)
(* Colour ramps (ui/gradient.rs): mixing, the three-stop ramp, and the     *)
(* nearest entry of the 256-colour palette.  A colour is <<r, g, b>>; a    *)
(* position on a ramp is a fraction <<n, d>> between 0 and 1.              *)
(***************************************************************************)
EXTENDS Integers, Sequences, SequencesExt, FiniteSetsExt

Nearest(a, d) == (2 * a + d) \div (2 * d)    \* a / d, rounded

Clamped(t) == <<Max({0, Min({t[1], t[2]})}), t[2]>>

Mix(from, to, t) ==
  LET u == Clamped(t)
  IN [i \in 1 .. 3 |-> Nearest(from[i] * (u[2] - u[1]) + to[i] * u[1], u[2])]

White == <<255, 255, 255>>

\* Below one a colour is dimmed; above, it is lightened towards white.
Scaled(colour, factor) ==
  IF factor[1] <= factor[2]
  THEN [i \in 1 .. 3 |-> Min({Nearest(colour[i] * Max({factor[1], 0}), factor[2]), 255})]
  ELSE Mix(colour, White, <<factor[1] - factor[2], factor[2]>>)

Ramp(low, mid, high) == [low |-> low, mid |-> mid, high |-> high]
Around(base) == Ramp(Scaled(base, <<45, 100>>), base, Scaled(base, <<135, 100>>))

RgbAt(ramp, t) ==
  LET u == Clamped(t)
  IN IF 2 * u[1] < u[2] THEN Mix(ramp.low, ramp.mid, <<2 * u[1], u[2]>>)
     ELSE Mix(ramp.mid, ramp.high, <<2 * u[1] - u[2], u[2]>>)

Flame == Ramp(<<80, 240, 149>>, <<242, 226, 102>>, <<250, 30, 30>>)
Cool == Ramp(<<45, 212, 191>>, <<59, 130, 246>>, <<168, 85, 247>>)
Rate == Ramp(<<163, 230, 53>>, <<251, 146, 60>>, <<225, 29, 72>>)

GenerationColours ==
  <<<<34, 211, 238>>, <<96, 165, 250>>, <<192, 132, 252>>, <<251, 191, 36>>, <<251, 113, 133>>>>

----------------------------------------------------------------------------
(* The palette: 16 to 231 are a cube of six levels, 232 to 255 greys.      *)

CubeLevels == <<0, 95, 135, 175, 215, 255>>

Distance(a, b) == FoldLeft(+, 0, [i \in 1 .. 3 |-> (a[i] - b[i]) * (a[i] - b[i])])

\* The level nearest a channel, the lower one of two as near.
Abs(n) == IF n < 0 THEN -n ELSE n
NearestLevel(v) ==
  Min({i \in 0 .. 5 : \A j \in 0 .. 5 : Abs(CubeLevels[i + 1] - v) <= Abs(CubeLevels[j + 1] - v)})

Grey(index) == [i \in 1 .. 3 |-> 8 + 10 * index]

\* (average - 8 + 5) / 10, kept to the ramp.
GreyIndex(colour) ==
  LET average == (colour[1] + colour[2] + colour[3]) \div 3
  IN IF average < 3 THEN 0 ELSE Min({(average - 3) \div 10, 23})

\* Mutant: the greys are left unused.
ToAnsi256Cube(colour) ==
  LET level == [i \in 1 .. 3 |-> NearestLevel(colour[i])]
  IN 16 + 36 * level[1] + 6 * level[2] + level[3]

ToAnsi256(colour) ==
  LET level == [i \in 1 .. 3 |-> NearestLevel(colour[i])]
      cube == [i \in 1 .. 3 |-> CubeLevels[level[i] + 1]]
      grey == GreyIndex(colour)
  IN IF Distance(Grey(grey), colour) < Distance(cube, colour) THEN 232 + grey
     ELSE 16 + 36 * level[1] + 6 * level[2] + level[3]

\* What an entry of the palette looks like.
Palette(n) ==
  IF n >= 232 THEN Grey(n - 232)
  ELSE <<CubeLevels[((n - 16) \div 36) + 1], CubeLevels[(((n - 16) \div 6) % 6) + 1],
         CubeLevels[((n - 16) % 6) + 1]>>
=============================================================================
