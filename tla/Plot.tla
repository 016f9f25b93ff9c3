--------------------------------- MODULE Plot ---------------------------------
(***************************************************************************)
(* Drawing histories (ui/graph.rs, ui/chart.rs).  An area is width by      *)
(* height cells; a picture gives each cell that is drawn on what is in it. *)
(* A cell of a braille or octant plot is the set of its dots, <<row,       *)
(* column>> from the top left; a cell of a block plot is the number of     *)
(* eighths filled.                                                         *)
(*                                                                         *)
(* A scale is a fraction <<n, d>>: readings are naturals, and the headroom *)
(* an automatic scale leaves is not.                                       *)
(***************************************************************************)
EXTENDS Integers, Sequences, SequencesExt, FiniteSetsExt

CONSTANT IsFinite(_)   \* of a reading

RoundDiv(a, b) == (2 * a + b) \div (2 * b)

Plots == {"braille", "octant", "block"}
SamplesPerCell(plot) == IF plot = "block" THEN 1 ELSE 2
RowsPerCell(plot) == IF plot = "block" THEN 8 ELSE 4

Capacity(plot, width) == width * SamplesPerCell(plot)

Drawable(width, height, max) == width > 0 /\ height > 0 /\ max[1] > 0

Recent(values, columns) ==
  SubSeq(values, Max({Len(values) - columns, 0}) + 1, Len(values))

Blank == -1

\* The readings right-aligned in the columns.
Aligned(values, columns) ==
  LET recent == Recent(values, columns)
  IN [i \in 1 .. columns - Len(recent) |-> Blank] \o recent

----------------------------------------------------------------------------
(* A single series.                                                        *)

\* Mutant: small readings are rounded away.
SubRowsForRounded(value, max, subRows) ==
  IF ~IsFinite(value) \/ value <= 0 THEN 0
  ELSE Min({RoundDiv(value * subRows * max[2], max[1]), subRows})

\* A reading above zero draws something, and none draws past the top.
SubRowsFor(value, max, subRows) ==
  IF ~IsFinite(value) \/ value <= 0 THEN 0
  ELSE Max({Min({RoundDiv(value * subRows * max[2], max[1]), subRows}), 1})

Heights(values, max, plot, width, height) ==
  LET aligned == Aligned(values, Capacity(plot, width))
  IN [c \in DOMAIN aligned |-> SubRowsFor(aligned[c], max, height * RowsPerCell(plot))]

\* The dots, or the eighths, of the cell at x, y that are at most as high as tops
\* says for their column; y counts down.
BlockSymbol(tops, subRows, x, y) ==
  Min({Max({tops[x + 1] - (subRows - (y + 1) * 8), 0}), 8})
DotSymbol(tops, subRows, x, y) ==
  {p \in (0 .. 3) \X (0 .. 1) : tops[2 * x + p[2] + 1] >= subRows - (y * 4 + p[1])}

Area(width, height) == (0 .. width - 1) \X (0 .. height - 1)

IsBlank(plot, symbol) == IF plot = "block" THEN symbol = 0 ELSE symbol = {}

\* Graph::render, but for the colours.
Picture(values, max, plot, width, height) ==
  LET heights == Heights(values, max, plot, width, height)
      subRows == height * RowsPerCell(plot)
      symbol(p) == IF plot = "block" THEN BlockSymbol(heights, subRows, p[1], p[2])
                   ELSE DotSymbol(heights, subRows, p[1], p[2])
  IN IF ~Drawable(width, height, max) THEN <<>>
     ELSE [p \in {q \in Area(width, height) : ~IsBlank(plot, symbol(q))} |-> symbol(p)]

----------------------------------------------------------------------------
(* A chart.                                                                *)

Peak(values) == Max({0} \cup {v \in Range(values) : IsFinite(v)})

\* Scale is [kind, ceiling].
Auto == [kind |-> "Auto", ceiling |-> 0]
FixedAt(ceiling) == [kind |-> "Fixed", ceiling |-> ceiling]

\* Mutant: a ceiling is never exceeded.
FullScaleCeiling(values, scale) ==
  IF scale.kind = "Fixed" THEN <<scale.ceiling, 1>>
  ELSE IF Peak(values) > 0 THEN <<Peak(values) * 108, 100>> ELSE <<1, 1>>

FullScale(values, scale) ==
  IF scale.kind = "Fixed" THEN <<Max({scale.ceiling, Peak(values)}), 1>>
  ELSE IF Peak(values) > 0 THEN <<Peak(values) * 108, 100>> ELSE <<1, 1>>

Values(readings) == [i \in DOMAIN readings |-> readings[i].value]

\* Mutant: every reading counts for a second.
SpanLabelCounted(readings, plot, innerWidth) ==
  LET drawn == Min({Len(readings), Capacity(plot, innerWidth)})
  IN IF drawn < 2 THEN -1 ELSE drawn - 1

\* How far back the drawn readings go, -1 where the code has None.
SpanLabel(readings, plot, innerWidth) ==
  LET drawn == Min({Len(readings), Capacity(plot, innerWidth)})
  IN IF drawn < 2 THEN -1
     ELSE readings[Len(readings)].at - readings[Len(readings) - drawn + 1].at

\* The characters of a number printed with so many decimals.
Digits(n) == 1 + Cardinality({k \in 1 .. 9 : n >= 10 ^ k})
Printed(v, decimals) ==
  Digits(RoundDiv(v[1] * 10 ^ decimals, v[2]) \div 10 ^ decimals)
    + (IF decimals = 0 THEN 0 ELSE decimals + 1)

\* A number of bytes in the largest unit it fills, none beyond TiB.
InUnits(v) ==
  FoldLeft(LAMBDA w, k : IF w[1] >= 1024 * w[2] THEN <<w[1], 1024 * w[2]>> ELSE w,
           v, <<"KiB", "MiB", "GiB", "TiB">>)

\* The characters of a chart's ceiling: 12.5%, 12/s, 12 B, 1.25 KiB or 12.5 KiB.
Chars(format, v) ==
  LET scaled == InUnits(v)
  IN IF format = "percent" THEN Printed(v, 1) + 1
     ELSE IF format = "perSecond" \/ scaled = v THEN Printed(v, 0) + 2
     ELSE Printed(scaled, IF scaled[1] < 10 * scaled[2] THEN 2 ELSE 1) + 4

\* What is left of a picture beneath a label n characters long.
Beneath(picture, n) ==
  [p \in {q \in DOMAIN picture : q[2] # 0 \/ q[1] >= n} |-> picture[p]]

\* The cells the label covers, none if it would fill the row.
LabelOf(format, max, width, height) ==
  IF width > 0 /\ height > 0 /\ Chars(format, max) < width THEN Chars(format, max) ELSE 0

\* TimeSeries::render: the picture is drawn inside a border, and the ceiling
\* written over its top left.
TimeSeries(readings, scale, format, plot, width, height) ==
  LET inner == <<Max({width - 2, 0}), Max({height - 2, 0})>>
      max == FullScale(Values(readings), scale)
      label == LabelOf(format, max, inner[1], inner[2])
  IN [max |-> max, span |-> SpanLabel(readings, plot, inner[1]), label |-> label,
      picture |-> Beneath(Picture(Values(readings), max, plot, inner[1], inner[2]), label)]

----------------------------------------------------------------------------
(* Stacked series.                                                         *)

BandHeight(value, max, subRows) ==
  IF ~IsFinite(value) \/ value <= 0 THEN 0
  ELSE Max({RoundDiv(value * subRows * max[2], max[1]), 1})

\* Where each band ends in a column, from the bottom band up; readings are the
\* bands' in that column.
Tops(readings, max, subRows) ==
  FoldLeft(LAMBDA tops, r :
             LET below == IF tops = <<>> THEN 0 ELSE tops[Len(tops)]
             IN Append(tops, IF r = Blank THEN 0
                             ELSE Min({below + BandHeight(r, max, subRows), subRows})),
           <<>>, readings)

\* Mutant: a band's own top belongs to the band above.
OwnerAbove(tops, height) ==
  LET reach == {b \in DOMAIN tops : height < tops[b]}
  IN IF reach = {} THEN Len(tops) ELSE Min(reach)

\* The first band that reaches the height, and the last if none does.
Owner(tops, height) ==
  LET reach == {b \in DOMAIN tops : height <= tops[b]}
  IN IF reach = {} THEN Len(tops) ELSE Min(reach)

\* The symbol of a cell and the band that colours it: the owner of the highest
\* dot, the left one of two as high.
StackedCell(tops, plot, subRows, x, y) ==
  LET total == [c \in DOMAIN tops |-> tops[c][Len(tops[c])]]
      eighths == BlockSymbol(total, subRows, x, y)
      dots == DotSymbol(total, subRows, x, y)
      top == Min({p[1] : p \in dots})
      left == Min({p[2] : p \in {q \in dots : q[1] = top}})
  IN IF plot = "block"
     THEN [symbol |-> eighths, owner |-> Owner(tops[x + 1], subRows - (y + 1) * 8 + eighths)]
     ELSE [symbol |-> dots, owner |-> Owner(tops[2 * x + left + 1], subRows - (y * 4 + top))]

StackedPicture(bands, max, plot, width, height) ==
  LET columns == Capacity(plot, width)
      subRows == height * RowsPerCell(plot)
      aligned == [b \in DOMAIN bands |-> Aligned(bands[b], columns)]
      tops == [c \in 1 .. columns |->
                 Tops([b \in DOMAIN bands |-> aligned[b][c]], max, subRows)]
      total == [c \in 1 .. columns |-> tops[c][Len(bands)]]
      drawn == {q \in Area(width, height) :
                  IF plot = "block" THEN BlockSymbol(total, subRows, q[1], q[2]) > 0
                  ELSE DotSymbol(total, subRows, q[1], q[2]) # {}}
  IN IF ~Drawable(width, height, max) \/ bands = <<>> THEN <<>>
     ELSE [p \in drawn |-> StackedCell(tops, plot, subRows, p[1], p[2])]

----------------------------------------------------------------------------
(* Bars.  A fraction is <<n, d>>.                               *)

\* Mutant: a small bar is rounded away.
BarFillRounded(fraction, height) ==
  RoundDiv(Min({Max({fraction[1], 0}), fraction[2]}) * height * 8, fraction[2])

\* Eighths filled of a bar, and how many of them are in its row y.
BarFill(fraction, height) ==
  LET subRows == height * 8
      n == Min({fraction[1], fraction[2]})
  IN IF fraction[1] <= 0 THEN 0 ELSE Max({RoundDiv(n * subRows, fraction[2]), 1})
VerticalBar(fraction, height) ==
  [y \in 0 .. height - 1 |->
     Min({Max({BarFill(fraction, height) - (height * 8 - (y + 1) * 8), 0}), 8})]

\* generation_bars: each size against the largest.
Bars(sizes, height) ==
  LET largest == Max(Range(sizes))
  IN IF largest = 0 THEN <<>>
     ELSE [b \in DOMAIN sizes |-> VerticalBar(<<sizes[b], largest>>, height)]

\* The columns of slot b of n: the whole width shared out, wider slots included.
SlotStart(width, b, n) == (width * (b - 1)) \div n
SlotWidth(width, b, n) == (width * b) \div n - SlotStart(width, b, n)
=============================================================================
