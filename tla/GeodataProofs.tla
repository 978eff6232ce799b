---------------------------- MODULE GeodataProofs ----------------------------
(***************************************************************************)
(* Proofs about the geodata: of GeodataRegion, for regions, heightfields   *)
(* and settings of any size; of GeodataExport, for any number of exports   *)
(* and of candidate names.                                                 *)
(***************************************************************************)
EXTENDS GeodataRegion, GeodataExport, FiniteSetTheorems, WellFoundedInduction,
        TLAPS

(* Induction, with a set in place of a predicate.                          *)
LEMMA NumbersInduction ==
  ASSUME NEW T \in SUBSET Nat, 0 \in T, \A n \in T : n + 1 \in T
  PROVE  T = Nat
<1> DEFINE R == {p \in Nat \X Nat : p[1] < p[2]}
           Out == Nat \ T
<1> SUFFICES ASSUME Out # {} PROVE FALSE
  OBVIOUS
<1>2. IsWellFoundedOn(R, Nat)
  BY NatLessThanWellFounded DEF OpToRel
<1> HIDE DEF R
<1>3. PICK x \in Out : \A y \in Out : ~ (<<y, x>> \in R)
  BY <1>2, WFMin
<1>4. x \in Nat /\ x # 0 /\ x - 1 \in Nat /\ x - 1 < x /\ (x - 1) + 1 = x
  BY <1>3
<1>5. <<x - 1, x>> \in R
  BY <1>4 DEF R
<1>6. x - 1 \in T
  BY <1>3, <1>4, <1>5
<1> QED BY <1>3, <1>4, <1>6

(* The least number of which something holds.                              *)
LEMMA LeastNumber ==
  ASSUME NEW T \in SUBSET Nat, NEW n \in T
  PROVE  \E m \in T : \A k \in T : m <= k
<1> DEFINE R == {p \in Nat \X Nat : p[1] < p[2]}
<1>2. IsWellFoundedOn(R, Nat)
  BY NatLessThanWellFounded DEF OpToRel
<1> HIDE DEF R
<1>3. PICK m \in T : \A y \in T : ~ (<<y, m>> \in R)
  BY <1>2, WFMin
<1>4. \A y \in T : ~ (y < m)
  BY <1>3 DEF R
<1> QED BY <1>4

-----------------------------------------------------------------------------
(* The heightfield.                                                        *)

(* What no pass changes: the spans of a column, from the lowest up.        *)
Apart(spans) ==
  /\ spans \in Seq(Span)
  /\ \A i \in DOMAIN spans : \A j \in 1 .. i - 1 : spans[j].smax < spans[i].smin
  /\ \A i \in DOMAIN spans : spans[i].smin <= spans[i].smax
Field(g) == g \in [Columns -> Seq(Span)] /\ \A column \in Columns : Apart(g[column])

LEMMA FieldsOfRecast ==
  ASSUME NEW g, Rasterised(g)
  PROVE  Field(g)
<1>1. ASSUME NEW column \in Columns PROVE Apart(g[column])
  <2> DEFINE spans == g[column]
  <2>1. /\ spans \in Seq(Span) /\ Len(spans) \in Nat /\ DOMAIN spans = 1 .. Len(spans)
        /\ \A i \in DOMAIN spans : spans[i].smin \in Nat /\ spans[i].smax \in Nat
        /\ \A i \in DOMAIN spans : spans[i].smin <= spans[i].smax
        /\ \A i \in DOMAIN spans : i > 1 => spans[i - 1].smax < spans[i].smin
    <3>1. /\ spans \in Seq(Span)
          /\ \A i \in DOMAIN spans : spans[i].smin <= spans[i].smax
          /\ \A i \in DOMAIN spans : i > 1 => spans[i - 1].smax < spans[i].smin
      BY DEF Rasterised
    <3> HIDE DEF spans
    <3>2. \A i \in DOMAIN spans : spans[i] \in Span
      BY <3>1
    <3> QED BY <3>1, <3>2 DEF Span
  <2> HIDE DEF spans
  <2> DEFINE T == {n \in Nat : \A i \in DOMAIN spans : i <= n =>
                                 \A j \in 1 .. i - 1 : spans[j].smax < spans[i].smin}
  <2>2. 0 \in T
    BY <2>1
  <2>3. ASSUME NEW n \in T PROVE n + 1 \in T
    <3>1. ASSUME NEW i \in DOMAIN spans, i = n + 1, NEW j \in 1 .. i - 1
          PROVE  spans[j].smax < spans[i].smin
      <4>1. i - 1 \in DOMAIN spans /\ i > 1 /\ j \in DOMAIN spans
        BY <2>1, <3>1
      <4>2. spans[i - 1].smax < spans[i].smin /\ spans[i - 1].smin <= spans[i - 1].smax
        BY <2>1, <4>1
      <4>3. CASE j = i - 1
        BY <4>2, <4>3
      <4>4. CASE j # i - 1
        <5>1. j \in 1 .. (i - 1) - 1 /\ i - 1 <= n
          BY <2>1, <3>1, <4>4
        <5>2. spans[j].smax < spans[i - 1].smin
          BY <4>1, <5>1
        <5> QED BY <2>1, <4>1, <4>2, <5>2
      <4> QED BY <4>3, <4>4
    <3>2. n + 1 \in Nat
      OBVIOUS
    <3> QED BY <2>1, <3>1, <3>2
  <2>4. T = Nat
    <3> HIDE DEF T
    <3>1. T \in SUBSET Nat
      BY DEF T
    <3> QED BY <2>2, <2>3, <3>1, NumbersInduction
  <2>5. \A i \in DOMAIN spans : \A j \in 1 .. i - 1 : spans[j].smax < spans[i].smin
    BY <2>1, <2>4
  <2> QED BY <2>1, <2>5 DEF Apart, spans
<1> QED BY <1>1 DEF Field, Rasterised

(* The same spans, perhaps with other directions open and other marks on   *)
(* surfaces that are not steep.                                            *)
SameSpan(a, b) ==
  /\ a.smin = b.smin /\ a.smax = b.smax
  /\ Walkable(a) <=> Walkable(b)
  /\ Steep(a) <=> Steep(b)
SameSpans(s, t) ==
  /\ Len(s) = Len(t)
  /\ \A i \in DOMAIN s : SameSpan(s[i], t[i])
SameField(f, g) == \A column \in Columns : SameSpans(f[column], g[column])

LEMMA SameLanding ==
  ASSUME NEW f, NEW g, Field(f), Field(g), SameField(f, g),
         NEW a \in Columns, NEW b \in Columns, NEW i \in DOMAIN f[a], NEW j \in DOMAIN f[b]
  PROVE  /\ Clears(f[a], i, f[b], j) <=> Clears(g[a], i, g[b], j)
         /\ Lands(f[a], i, f[b], j) <=> Lands(g[a], i, g[b], j)
         /\ Rise(f[a], i, f[b], j) = Rise(g[a], i, g[b], j)
         /\ Climb(f[a], i, f[b], j) = Climb(g[a], i, g[b], j)
<1>0. /\ f[a] \in Seq(Span) /\ f[b] \in Seq(Span) /\ g[a] \in Seq(Span) /\ g[b] \in Seq(Span)
      /\ Len(f[a]) = Len(g[a]) /\ Len(f[b]) = Len(g[b])
      /\ \A k \in DOMAIN f[a] : SameSpan(f[a][k], g[a][k])
      /\ \A k \in DOMAIN f[b] : SameSpan(f[b][k], g[b][k])
  BY DEF Field, SameField, SameSpans
<1>1. /\ \A k \in DOMAIN f[a] : Top(f[a], k) = Top(g[a], k)
      /\ \A k \in DOMAIN f[b] : Top(f[b], k) = Top(g[b], k)
  BY <1>0 DEF Top, SameSpan
<1>2. \A k \in DOMAIN f[b] : Clears(f[a], i, f[b], k) <=> Clears(g[a], i, g[b], k)
  BY <1>0, <1>1 DEF Clears, SameSpan
<1>3. \A k \in DOMAIN f[b] : Passable(f[a], i, f[b], k) <=> Passable(g[a], i, g[b], k)
  BY <1>0, <1>2 DEF Passable, SameSpan
<1>4. \A k \in 1 .. j - 1 : k \in DOMAIN f[b]
  BY <1>0
<1> QED
  BY <1>0, <1>2, <1>3, <1>4 DEF Lands, Rise, Climb, SameSpan

LEMMA SameAllowed ==
  ASSUME NEW f, NEW g, Field(f), Field(g), SameField(f, g),
         NEW a \in Columns, NEW i \in DOMAIN f[a], NEW d \in Directions
  PROVE  Allows(f, a, i, d) <=> Allows(g, a, i, d)
<1>1. CASE Side(a, d) \notin Columns
  BY <1>1 DEF Allows
<1>2. CASE Side(a, d) \in Columns
  <2>1. DOMAIN f[Side(a, d)] = DOMAIN g[Side(a, d)]
    BY <1>2 DEF Field, SameField, SameSpans
  <2> QED BY <1>2, <2>1, SameLanding DEF Allows
<1> QED BY <1>1, <1>2

LEMMA ScanKeeps ==
  ASSUME NEW g, Field(g), NEW a \in Columns
  PROVE  /\ Apart(Scanned(g, a)) /\ SameSpans(Scanned(g, a), g[a])
         /\ \A i \in DOMAIN g[a] :
              Scanned(g, a)[i].open =
                IF Walkable(g[a][i]) THEN g[a][i].open \cup {d \in Directions : Allows(g, a, i, d)}
                ELSE g[a][i].open
<1> DEFINE s == Scanned(g, a)
<1>0. g[a] \in Seq(Span) /\ Apart(g[a])
  BY DEF Field
<1>1. \A i \in DOMAIN g[a] : g[a][i] \in Span
  BY <1>0
<1>2. s = [i \in DOMAIN g[a] |-> s[i]]
  BY DEF Scanned
<1>3. ASSUME NEW i \in DOMAIN g[a]
      PROVE  /\ s[i] \in Span /\ SameSpan(s[i], g[a][i])
             /\ s[i].open =
                  IF Walkable(g[a][i]) THEN g[a][i].open \cup {d \in Directions : Allows(g, a, i, d)}
                  ELSE g[a][i].open
  <2>1. CASE ~Walkable(g[a][i])
    BY <1>1, <2>1 DEF Scanned, SameSpan
  <2>2. CASE Walkable(g[a][i])
    <3> DEFINE hard == \E d \in Directions : NeedsSweep(g, a, i, d)
               more == {d \in Directions : Allows(g, a, i, d)}
    <3>1. s[i] = [g[a][i] EXCEPT !.open = g[a][i].open \cup more,
                                 !.area = IF hard THEN ComplexArea ELSE g[a][i].area]
      BY <2>2 DEF Scanned
    <3>2. hard => ~Steep(g[a][i])
      BY DEF NeedsSweep
    <3>3. more \subseteq Directions
      OBVIOUS
    <3> HIDE DEF hard, more, s
    <3>4. s[i] = [smin |-> g[a][i].smin, smax |-> g[a][i].smax,
                  area |-> IF hard THEN ComplexArea ELSE g[a][i].area,
                  open |-> g[a][i].open \cup more]
      BY <1>1, <3>1 DEF Span
    <3>5. s[i] \in Span
      BY <1>1, <3>3, <3>4 DEF Span, ComplexArea, NullArea
    <3>6. SameSpan(s[i], g[a][i])
      BY <1>1, <3>2, <3>4 DEF SameSpan, Walkable, Steep, Span, NullArea, SteepArea, ComplexArea
    <3>7. s[i].open = g[a][i].open \cup more
      BY <3>4
    <3> QED BY <2>2, <3>5, <3>6, <3>7 DEF more
  <2> QED BY <2>1, <2>2
<1>4. s \in Seq(Span) /\ DOMAIN s = DOMAIN g[a] /\ Len(s) = Len(g[a])
  <2>1. DOMAIN s = 1 .. Len(g[a]) /\ Len(g[a]) \in Nat
    BY <1>0, <1>2
  <2>2. s \in [1 .. Len(g[a]) -> Span]
    <3> HIDE DEF s
    <3>0. DOMAIN g[a] = 1 .. Len(g[a])
      BY <1>0
    <3>1. \A i \in DOMAIN g[a] : s[i] \in Span
      BY <1>3
    <3> QED BY <2>1, <1>2, <3>0, <3>1
  <2> HIDE DEF s
  <2> QED BY <1>0, <2>1, <2>2
<1> HIDE DEF s
<1>5. Apart(s)
  <2>1. \A i \in DOMAIN s : \A j \in 1 .. i - 1 : j \in DOMAIN s
    BY <1>4
  <2> QED BY <1>0, <1>3, <1>4, <2>1 DEF Apart, SameSpan
<1>6. SameSpans(s, g[a])
  BY <1>3, <1>4 DEF SameSpans
<1> QED BY <1>3, <1>5, <1>6 DEF s

LEMMA DivMod ==
  ASSUME NEW n \in Nat, NEW d \in Nat \ {0}
  PROVE  /\ n % d \in 0 .. d - 1 /\ n \div d \in Nat
         /\ n = (n \div d) * d + (n % d)
<1>1. n = (n \div d) * d + (n % d)
  OBVIOUS
<1> QED BY <1>1

LEMMA DivModOf ==
  ASSUME NEW q \in Nat, NEW d \in Nat \ {0}, NEW r \in 0 .. d - 1
  PROVE  (q * d + r) \div d = q /\ (q * d + r) % d = r
OBVIOUS

LEMMA DivLess ==
  ASSUME NEW n \in Nat, NEW d \in Nat \ {0}, NEW k \in Nat, n < k * d
  PROVE  n \div d < k
OBVIOUS

LEMMA ProductLess ==
  ASSUME NEW q \in Nat, NEW k \in Nat, q < k, NEW d \in Nat \ {0}, NEW r \in 0 .. d - 1
  PROVE  q * d + r \in 0 .. k * d - 1
OBVIOUS

(* The columns in the order of the passes.                                 *)
Place(column) == column[2] * Width + column[1]

LEMMA ColumnsInOrder ==
  /\ LastColumn \in Nat
  /\ \A n \in 0 .. LastColumn : Column(n) \in Columns /\ Place(Column(n)) = n
  /\ \A column \in Columns : Place(column) \in 0 .. LastColumn /\ Column(Place(column)) = column
<1>0. Width \in Nat \ {0} /\ Height \in Nat \ {0} /\ Width * Height = Height * Width
      /\ Height * Width \in Nat \ {0}
  BY ColumnsAssumption DEF ColumnsAssumption
<1>1. LastColumn = Height * Width - 1 /\ LastColumn \in Nat
  BY <1>0 DEF LastColumn
<1>2. ASSUME NEW n \in 0 .. LastColumn
      PROVE  Column(n) \in Columns /\ Place(Column(n)) = n
  <2>1. n \in Nat /\ n < Height * Width
    BY <1>0, <1>1
  <2>2. n % Width \in 0 .. Width - 1 /\ n \div Width \in Nat /\ n = (n \div Width) * Width + (n % Width)
    BY <1>0, <2>1, DivMod
  <2>3. n \div Width < Height
    BY <1>0, <2>1, DivLess
  <2> QED BY <1>0, <2>2, <2>3 DEF Column, Columns, Place
<1>3. ASSUME NEW column \in Columns
      PROVE  Place(column) \in 0 .. LastColumn /\ Column(Place(column)) = column
  <2>1. /\ column = <<column[1], column[2]>> /\ column[1] \in 0 .. Width - 1
        /\ column[2] \in Nat /\ column[2] < Height
    BY <1>0 DEF Columns
  <2>2. Place(column) \in 0 .. Height * Width - 1
    BY <1>0, <2>1, ProductLess DEF Place
  <2>3. Place(column) \div Width = column[2] /\ Place(column) % Width = column[1]
    BY <1>0, <2>1, DivModOf DEF Place
  <2> QED BY <1>1, <2>1, <2>2, <2>3 DEF Column
<1> QED BY <1>1, <1>2, <1>3

-----------------------------------------------------------------------------
(* The simple pass.                                                        *)

Untouched(g, column) == \A i \in DOMAIN g[column] : g[column][i].open = {}
Decided(g, column) ==
  \A i \in DOMAIN g[column] :
    g[column][i].open =
      IF Walkable(g[column][i]) THEN {d \in Directions : Allows(g, column, i, d)} ELSE {}

(* Headroom over what is left to stand on.                                 *)
Clear(g) ==
  \A column \in Columns : \A i \in DOMAIN g[column] :
    Walkable(g[column][i]) => Top(g[column], i) - g[column][i].smax > ActorHeight

PassInv ==
  /\ phase \in Phases /\ at \in 0 .. LastColumn /\ elevation \in Elevations
  /\ phase \notin {"simple", "complex"} => at = 0
  /\ Field(grid)
  /\ phase = "filter" => \A column \in Columns : Untouched(grid, column)
  /\ phase # "filter" => Clear(grid)
  /\ phase = "simple" =>
       \A column \in Columns :
         IF Place(column) < at THEN Decided(grid, column) ELSE Untouched(grid, column)
  /\ phase = "complex" /\ at = 0 => \A column \in Columns : Decided(grid, column)

LEMMA PassInit == Init => PassInv
<1> SUFFICES ASSUME Init PROVE PassInv
  OBVIOUS
<1>1. Rasterised(grid) /\ phase = "filter" /\ at = 0 /\ elevation \in Elevations
  BY GridsAssumption DEF Init, GridsAssumption
<1>2. Field(grid)
  BY <1>1, FieldsOfRecast
<1>3. \A column \in Columns : Untouched(grid, column)
  BY <1>1 DEF Rasterised, Untouched
<1> QED BY <1>1, <1>2, <1>3, ColumnsInOrder DEF PassInv, Phases

LEMMA FilterKeeps ==
  ASSUME NEW spans, Apart(spans)
  PROVE  /\ Apart(Filtered(spans)) /\ DOMAIN Filtered(spans) = DOMAIN spans
         /\ \A i \in DOMAIN spans :
              /\ Filtered(spans)[i].open = spans[i].open
              /\ Walkable(Filtered(spans)[i]) =>
                   Top(Filtered(spans), i) - Filtered(spans)[i].smax > ActorHeight
<1> DEFINE f == Filtered(spans)
<1>0. /\ spans \in Seq(Span) /\ Len(spans) \in Nat /\ DOMAIN spans = 1 .. Len(spans)
      /\ \A i \in DOMAIN spans : spans[i] \in Span
  BY DEF Apart
<1>1. ASSUME NEW i \in DOMAIN spans
      PROVE  /\ f[i] \in Span /\ f[i].open = spans[i].open
             /\ f[i].smin = spans[i].smin /\ f[i].smax = spans[i].smax
             /\ Walkable(f[i]) => ~(Top(spans, i) - spans[i].smax <= ActorHeight)
  <2>1. CASE Top(spans, i) - spans[i].smax <= ActorHeight
    <3>1. f[i] = [spans[i] EXCEPT !.area = NullArea]
      BY <2>1 DEF Filtered
    <3> HIDE DEF f
    <3>2. f[i] = [smin |-> spans[i].smin, smax |-> spans[i].smax, area |-> NullArea,
                  open |-> spans[i].open]
      BY <1>0, <3>1 DEF Span
    <3> QED BY <1>0, <3>2 DEF Span, Walkable, NullArea, ComplexArea
  <2>2. CASE ~(Top(spans, i) - spans[i].smax <= ActorHeight)
    BY <1>0, <2>2 DEF Filtered
  <2> QED BY <2>1, <2>2
<1>2. f = [i \in 1 .. Len(spans) |-> f[i]]
  BY <1>0 DEF Filtered
<1> HIDE DEF f
<1>3. DOMAIN f = DOMAIN spans /\ f \in Seq(Span) /\ Len(f) = Len(spans)
  <2>1. f \in [1 .. Len(spans) -> Span]
    BY <1>0, <1>1, <1>2
  <2> QED BY <1>0, <1>2, <2>1
<1>4. Apart(f)
  <2>1. \A i \in DOMAIN f : \A j \in 1 .. i - 1 : j \in DOMAIN f
    BY <1>0, <1>3
  <2> QED BY <1>1, <1>3, <2>1 DEF Apart
<1>5. \A i \in DOMAIN spans : Top(f, i) = Top(spans, i)
  BY <1>0, <1>1, <1>3 DEF Top
<1>6. \A i \in DOMAIN spans : Top(spans, i) \in Int /\ spans[i].smax \in Int
  BY <1>0 DEF Top, Span, MaxHeight
<1>7. ActorHeight \in Nat
  BY ActorAssumption DEF ActorAssumption
<1>8. \A i \in DOMAIN spans : Walkable(f[i]) => Top(f, i) - f[i].smax > ActorHeight
  BY <1>1, <1>5, <1>6, <1>7
<1> QED BY <1>1, <1>3, <1>4, <1>8 DEF f

LEMMA SweepKeeps ==
  ASSUME NEW g, Field(g), NEW a \in Columns, NEW hits
  PROVE  Apart(Swept(g, a, hits)) /\ SameSpans(Swept(g, a, hits), g[a])
<1> DEFINE s == Swept(g, a, hits)
<1>0. /\ Apart(g[a]) /\ g[a] \in Seq(Span) /\ Len(g[a]) \in Nat /\ DOMAIN g[a] = 1 .. Len(g[a])
      /\ \A i \in DOMAIN g[a] : g[a][i] \in Span
  BY DEF Field, Apart
<1>1. \A i \in DOMAIN g[a] : s[i] \in Span /\ SameSpan(s[i], g[a][i])
  BY <1>0 DEF Swept, Span, SameSpan, Walkable, Steep
<1>2. s = [i \in 1 .. Len(g[a]) |-> s[i]]
  BY <1>0 DEF Swept
<1> HIDE DEF s
<1>3. s \in Seq(Span) /\ DOMAIN s = DOMAIN g[a] /\ Len(s) = Len(g[a])
  <2>1. s \in [1 .. Len(g[a]) -> Span]
    BY <1>0, <1>1, <1>2
  <2> QED BY <1>0, <1>2, <2>1
<1>4. Apart(s)
  <2>1. \A i \in DOMAIN s : \A j \in 1 .. i - 1 : j \in DOMAIN s
    BY <1>0, <1>3
  <2> QED BY <1>0, <1>1, <1>3, <2>1 DEF Apart, SameSpan
<1> QED BY <1>1, <1>3, <1>4 DEF s, SameSpans

(* A pass has changed one column, and goes on.                             *)
LEMMA ColumnReplaced ==
  ASSUME NEW g, Field(g), NEW a \in Columns, NEW spans, Apart(spans), SameSpans(spans, g[a]),
         NEW f, f = [g EXCEPT ![a] = spans]
  PROVE  Field(f) /\ SameField(f, g)
<1>1. f[a] = spans /\ \A b \in Columns : b # a => f[b] = g[b]
  BY DEF Field
<1>2. f \in [Columns -> Seq(Span)]
  BY DEF Field, Apart
<1>3. \A b \in Columns : Apart(f[b])
  BY <1>1 DEF Field
<1>4. \A b \in Columns : SameSpans(g[b], g[b])
  BY DEF SameSpans, SameSpan
<1> QED BY <1>1, <1>2, <1>3, <1>4 DEF Field, SameField

LEMMA ClearKept ==
  ASSUME NEW f, NEW g, Field(f), Field(g), SameField(f, g), Clear(g)
  PROVE  Clear(f)
<1> SUFFICES ASSUME NEW column \in Columns, NEW i \in DOMAIN f[column], Walkable(f[column][i])
             PROVE  Top(f[column], i) - f[column][i].smax > ActorHeight
  BY DEF Clear
<1>1. /\ f[column] \in Seq(Span) /\ g[column] \in Seq(Span) /\ Len(f[column]) = Len(g[column])
      /\ \A k \in DOMAIN f[column] : SameSpan(f[column][k], g[column][k])
  BY DEF Field, SameField, SameSpans
<1>2. Top(f[column], i) = Top(g[column], i)
  BY <1>1 DEF Top, SameSpan
<1>3. Walkable(g[column][i]) /\ f[column][i].smax = g[column][i].smax /\ i \in DOMAIN g[column]
  BY <1>1 DEF SameSpan
<1> QED BY <1>2, <1>3 DEF Clear

LEMMA DecidedKept ==
  ASSUME NEW f, NEW g, Field(f), Field(g), SameField(f, g), NEW column \in Columns,
         f[column] = g[column], Decided(g, column)
  PROVE  Decided(f, column)
BY SameAllowed DEF Decided

LEMMA AdvanceGoesOn ==
  ASSUME at \in 0 .. LastColumn, NEW next, Advance(next)
  PROVE  \/ at = LastColumn /\ phase' = next /\ at' = 0
         \/ at # LastColumn /\ phase' = phase /\ at' = at + 1 /\ at' \in 0 .. LastColumn
BY ColumnsInOrder DEF Advance

LEMMA PassStep == PassInv /\ [Next]_vars => PassInv'
<1> SUFFICES ASSUME PassInv, [Next]_vars PROVE PassInv'
  OBVIOUS
<1>1. CASE Filter
  <2>1. /\ phase = "filter" /\ phase' = "simple" /\ at = 0 /\ at' = 0 /\ elevation' = elevation
        /\ grid' = [column \in Columns |-> Filtered(grid[column])]
        /\ Field(grid) /\ \A column \in Columns : Untouched(grid, column)
    BY <1>1 DEF Filter, PassInv
  <2>2. \A column \in Columns : Apart(Filtered(grid[column]))
    BY <2>1, FilterKeeps DEF Field
  <2>3. Field(grid')
    BY <2>1, <2>2 DEF Field, Apart
  <2>4. Clear(grid')
    BY <2>1, FilterKeeps DEF Clear, Field
  <2>5. \A column \in Columns : Untouched(grid', column)
    BY <2>1, FilterKeeps DEF Untouched, Field
  <2>6. \A column \in Columns : ~ (Place(column) < 0)
    BY ColumnsInOrder
  <2> QED BY <2>1, <2>3, <2>4, <2>5, <2>6 DEF PassInv, Phases
<1>2. CASE ScanColumn
  <2> DEFINE a == Column(at)
             f == grid'
  <2>1. /\ phase = "simple" /\ at \in 0 .. LastColumn /\ Field(grid) /\ Clear(grid)
        /\ grid' = [grid EXCEPT ![a] = Scanned(grid, a)] /\ elevation' = elevation
        /\ elevation \in Elevations
        /\ \A column \in Columns :
             IF Place(column) < at THEN Decided(grid, column) ELSE Untouched(grid, column)
    BY <1>2 DEF ScanColumn, PassInv
  <2>2. a \in Columns /\ Place(a) = at
    BY <2>1, ColumnsInOrder
  <2>0. f = [grid EXCEPT ![a] = Scanned(grid, a)]
    BY <2>1
  <2> HIDE DEF a, f
  <2>3. /\ Apart(Scanned(grid, a)) /\ SameSpans(Scanned(grid, a), grid[a])
        /\ \A i \in DOMAIN grid[a] :
             Scanned(grid, a)[i].open =
               IF Walkable(grid[a][i]) THEN grid[a][i].open \cup {d \in Directions : Allows(grid, a, i, d)}
               ELSE grid[a][i].open
    BY <2>1, <2>2, ScanKeeps
  <2>4. /\ Field(f) /\ SameField(f, grid) /\ f[a] = Scanned(grid, a)
        /\ \A b \in Columns : b # a => f[b] = grid[b]
    <3> DEFINE spans == Scanned(grid, a)
    <3> HIDE DEF spans
    <3>1. Apart(spans) /\ SameSpans(spans, grid[a]) /\ f = [grid EXCEPT ![a] = spans]
      BY <2>0, <2>3 DEF spans
    <3>2. /\ Field(f) /\ SameField(f, grid) /\ f[a] = spans
          /\ \A b \in Columns : b # a => f[b] = grid[b]
      <4>1. Field(grid) /\ a \in Columns
        BY <2>1, <2>2
      <4>2. Field(f) /\ SameField(f, grid)
        BY <3>1, <4>1, ColumnReplaced
      <4>3. f[a] = spans
        BY <3>1, <4>1 DEF Field
      <4>4. \A b \in Columns : b # a => f[b] = grid[b]
        BY <3>1, <4>1 DEF Field
      <4> QED BY <4>2, <4>3, <4>4
    <3> QED BY <3>2 DEF spans
  <2>5. Clear(f)
    BY <2>1, <2>4, ClearKept
  <2>6. Decided(f, a)
    <3>1. Untouched(grid, a)
      BY <2>1, <2>2
    <3>2. /\ f[a] \in Seq(Span) /\ grid[a] \in Seq(Span) /\ Len(f[a]) = Len(grid[a])
          /\ \A i \in DOMAIN f[a] : SameSpan(f[a][i], grid[a][i])
      BY <2>1, <2>2, <2>4 DEF Field, SameField, SameSpans
    <3>3. DOMAIN f[a] = DOMAIN grid[a]
      BY <3>2
    <3>4. ASSUME NEW i \in DOMAIN f[a]
          PROVE  f[a][i].open =
                   IF Walkable(f[a][i]) THEN {d \in Directions : Allows(f, a, i, d)} ELSE {}
      <4>1. \A d \in Directions : Allows(f, a, i, d) <=> Allows(grid, a, i, d)
        BY <2>1, <2>2, <2>4, SameAllowed
      <4>2. Walkable(f[a][i]) <=> Walkable(grid[a][i])
        BY <3>2 DEF SameSpan
      <4>3. grid[a][i].open = {}
        BY <3>1, <3>3 DEF Untouched
      <4> QED BY <2>3, <2>4, <3>3, <4>1, <4>2, <4>3
    <3> QED BY <3>4 DEF Decided
  <2>7. \A column \in Columns : Place(column) \in Nat /\ (Place(column) = at => column = a)
    BY <2>2, ColumnsInOrder
  <2>8. \A column \in Columns :
          IF Place(column) <= at THEN Decided(f, column) ELSE Untouched(f, column)
    <3>1. ASSUME NEW column \in Columns, Place(column) < at PROVE Decided(f, column)
      <4>1. column # a /\ Decided(grid, column)
        BY <2>1, <2>2, <3>1
      <4> QED BY <2>1, <2>4, <4>1, DecidedKept
    <3>2. ASSUME NEW column \in Columns, Place(column) > at PROVE Untouched(f, column)
      <4>1. column # a /\ Untouched(grid, column)
        BY <2>1, <2>2, <2>7, <3>2
      <4> QED BY <2>4, <4>1 DEF Untouched
    <3>3. at \in Nat
      BY <2>1, ColumnsInOrder
    <3> QED BY <2>6, <2>7, <3>1, <3>2, <3>3
  <2>9. \/ at = LastColumn /\ phase' = "complex" /\ at' = 0
        \/ phase' = "simple" /\ at' = at + 1 /\ at' \in 0 .. LastColumn
    BY <1>2, <2>1, AdvanceGoesOn DEF ScanColumn
  <2>10. LastColumn \in Nat /\ \A column \in Columns : Place(column) \in 0 .. LastColumn
    BY ColumnsInOrder
  <2>11. CASE at = LastColumn /\ phase' = "complex" /\ at' = 0
    <3>1. \A column \in Columns : Decided(f, column)
      BY <2>8, <2>10, <2>11
    <3>2. Field(grid') /\ Clear(grid') /\ \A column \in Columns : Decided(grid', column)
      BY <2>4, <2>5, <3>1 DEF f
    <3>3. 0 \in 0 .. LastColumn
      BY <2>10
    <3> QED BY <2>1, <2>11, <3>2, <3>3 DEF PassInv, Phases
  <2>12. CASE phase' = "simple" /\ at' = at + 1 /\ at' \in 0 .. LastColumn
    <3>1. \A column \in Columns : Place(column) < at' <=> Place(column) <= at
      BY <2>1, <2>7, <2>12
    <3>2. \A column \in Columns :
            IF Place(column) < at' THEN Decided(f, column) ELSE Untouched(f, column)
      BY <2>8, <3>1
    <3> QED BY <2>1, <2>4, <2>5, <2>12, <3>2 DEF PassInv, Phases, f
  <2> QED BY <2>9, <2>11, <2>12
<1>3. CASE SweepColumn
  <2>1. PICK hits : grid' = [grid EXCEPT ![Column(at)] = Swept(grid, Column(at), hits)]
    BY <1>3 DEF SweepColumn
  <2>2. phase = "complex" /\ at \in 0 .. LastColumn /\ Field(grid) /\ Clear(grid)
        /\ elevation' \in Elevations
    BY <1>3 DEF SweepColumn, PassInv
  <2>3. Column(at) \in Columns
    BY <2>2, ColumnsInOrder
  <2>4. Field(grid') /\ SameField(grid', grid)
    BY <2>1, <2>2, <2>3, SweepKeeps, ColumnReplaced
  <2>5. Clear(grid')
    BY <2>2, <2>4, ClearKept
  <2>6. \/ phase' = "convert" /\ at' = 0
        \/ phase' = "complex" /\ at' = at + 1 /\ at' \in 0 .. LastColumn
    BY <1>3, <2>2, AdvanceGoesOn DEF SweepColumn
  <2>7. 0 \in 0 .. LastColumn /\ at + 1 # 0
    BY <2>2, ColumnsInOrder
  <2> QED BY <2>2, <2>4, <2>5, <2>6, <2>7 DEF PassInv, Phases
<1>4. CASE UNCHANGED <<at, grid, elevation>>
           /\ phase \notin {"filter", "simple", "complex"}
           /\ phase' \in Phases \ {"filter", "simple", "complex"}
  BY <1>4 DEF PassInv, Phases
<1>5. CASE UNCHANGED vars
  BY <1>5 DEF vars, PassInv
<1> QED
  BY <1>1, <1>2, <1>3, <1>4, <1>5
  DEF Next, Convert, ConvertOverflows, Reset, ResetOverflows, Compress, WriteL2J, WriteL2JFails,
      WritePts, Finished, Reject, Phases

THEOREM PassInvariant == Spec => []PassInv
BY PassInit, PassStep, PTL DEF Spec

LEMMA WayBack ==
  ASSUME NEW column \in Columns, NEW d \in Directions
  PROVE  Opposite(d) \in Directions /\ Side(Side(column, d), Opposite(d)) = column
<1>0. column = <<column[1], column[2]>> /\ column[1] \in Int /\ column[2] \in Int
  BY ColumnsAssumption DEF Columns, ColumnsAssumption
<1>1. CASE d = 0
  BY <1>0, <1>1 DEF Opposite, Side, Directions
<1>2. CASE d = 1
  BY <1>0, <1>2 DEF Opposite, Side, Directions
<1>3. CASE d = 2
  BY <1>0, <1>3 DEF Opposite, Side, Directions
<1>4. CASE d = 3
  BY <1>0, <1>4 DEF Opposite, Side, Directions
<1> QED BY <1>1, <1>2, <1>3, <1>4 DEF Directions

(* Landing is decided from above: of what an actor may land on, the lowest *)
(* is no higher than any other.                                            *)
LEMMA LandsLowest ==
  ASSUME NEW g, Field(g), NEW a \in Columns, NEW b \in Columns, NEW j \in DOMAIN g[b],
         NEW i \in DOMAIN g[a], Passable(g[b], j, g[a], i)
  PROVE  \E k \in DOMAIN g[a] : Lands(g[b], j, g[a], k) /\ g[a][k].smax <= g[a][i].smax
<1>0. /\ g[a] \in Seq(Span) /\ Apart(g[a]) /\ DOMAIN g[a] = 1 .. Len(g[a]) /\ Len(g[a]) \in Nat
      /\ \A k \in DOMAIN g[a] : g[a][k] \in Span
  BY DEF Field
<1> DEFINE T == {k \in DOMAIN g[a] : Passable(g[b], j, g[a], k)}
<1>1. T \in SUBSET Nat /\ i \in T
  BY <1>0
<1>2. PICK k \in T : \A m \in T : k <= m
  BY <1>1, LeastNumber
<1>3. Lands(g[b], j, g[a], k)
  BY <1>0, <1>2 DEF Lands
<1>4. g[a][k].smax <= g[a][i].smax
  <2>1. k <= i /\ k \in DOMAIN g[a]
    BY <1>1, <1>2
  <2>2. CASE k = i
    BY <1>0, <2>2 DEF Span
  <2>3. CASE k # i
    <3>1. k \in 1 .. i - 1
      BY <1>0, <2>1, <2>3
    <3>2. g[a][k].smax < g[a][i].smin /\ g[a][i].smin <= g[a][i].smax
      BY <1>0, <3>1 DEF Apart
    <3>3. g[a][k].smax \in Nat /\ g[a][i].smin \in Nat /\ g[a][i].smax \in Nat
      BY <1>0, <2>1 DEF Span
    <3> QED BY <3>2, <3>3
  <2> QED BY <2>2, <2>3
<1> QED BY <1>2, <1>3, <1>4

LEMMA LeadsBack ==
  ASSUME NEW g, Field(g), \A column \in Columns : Decided(g, column),
         NEW a \in Columns, NEW i \in DOMAIN g[a], Walkable(g[a][i]),
         NEW d \in g[a][i].open, Side(a, d) \in Columns,
         NEW j \in DOMAIN g[Side(a, d)], Lands(g[a], i, g[Side(a, d)], j),
         Rise(g[a], i, g[Side(a, d)], j) >= 0
  PROVE  Opposite(d) \in g[Side(a, d)][j].open
<1> DEFINE b == Side(a, d)
<1>1. d \in Directions
  BY DEF Decided
<1>2. Opposite(d) \in Directions /\ Side(b, Opposite(d)) = a
  BY <1>1, WayBack
<1>3. /\ Walkable(g[b][j]) /\ Clears(g[a], i, g[b], j)
  BY DEF Lands, Passable
<1>4. Passable(g[b], j, g[a], i)
  BY <1>3 DEF Passable, Clears
<1> HIDE DEF b
<1>5. b = Side(a, d) /\ b \in Columns /\ j \in DOMAIN g[b]
  BY DEF b
<1>6. PICK k \in DOMAIN g[a] : Lands(g[b], j, g[a], k) /\ g[a][k].smax <= g[a][i].smax
  BY <1>4, <1>5, LandsLowest
<1>7. Rise(g[b], j, g[a], k) <= Climb(g[b], j, g[a], k)
  <2>1. /\ g[a][k].smax \in Nat /\ g[a][i].smax \in Nat /\ g[b][j].smax \in Nat
    <3>1. g[a] \in Seq(Span) /\ g[b] \in Seq(Span)
      BY <1>5 DEF Field
    <3>2. g[a][k] \in Span /\ g[a][i] \in Span /\ g[b][j] \in Span
      BY <1>5, <3>1
    <3> QED BY <3>2 DEF Span
  <2>2. g[b][j].smax - g[a][i].smax >= 0
    BY <1>5 DEF Rise
  <2>3. Climb(g[b], j, g[a], k) \in Nat
    BY ActorAssumption DEF Climb, ActorAssumption
  <2> QED BY <1>6, <2>1, <2>2, <2>3 DEF Rise
<1>8. Allows(g, b, j, Opposite(d))
  BY <1>2, <1>5, <1>6, <1>7 DEF Allows
<1> QED BY <1>2, <1>3, <1>5, <1>8 DEF Decided

(* StepsLeadBack, of every heightfield: where the simple pass opened the   *)
(* way up it has opened, or will open, the way down (NSWE.cpp:178-216).    *)
THEOREM WaysUpLeadBack == Spec => []StepsLeadBack
<1>1. PassInv => StepsLeadBack
  <2> SUFFICES ASSUME PassInv, phase = "complex", at = 0, NEW column \in Columns,
                      NEW i \in Kept(column), NEW direction \in grid[column][i].open,
                      Side(column, direction) \in Columns,
                      NEW j \in DOMAIN grid[Side(column, direction)],
                      Lands(grid[column], i, grid[Side(column, direction)], j),
                      Rise(grid[column], i, grid[Side(column, direction)], j) >= 0
               PROVE  Opposite(direction) \in grid[Side(column, direction)][j].open
    BY DEF StepsLeadBack
  <2>1. Field(grid) /\ \A c \in Columns : Decided(grid, c)
    BY DEF PassInv
  <2>2. i \in DOMAIN grid[column] /\ Walkable(grid[column][i])
    BY DEF Kept
  <2> QED BY <2>1, <2>2, LeadsBack
<1> QED BY <1>1, PassInvariant, PTL

-----------------------------------------------------------------------------
(* Sequences put together, one after another.                              *)

Follows(z, x, y) ==
  /\ Len(z) = Len(x) + Len(y) /\ Len(x) \in Nat /\ Len(y) \in Nat
  /\ \A i \in 1 .. Len(x) : z[i] = x[i]
  /\ \A i \in 1 .. Len(y) : z[Len(x) + i] = y[i]

LEMMA Concatenated ==
  ASSUME NEW D, NEW x \in Seq(D), NEW y \in Seq(D)
  PROVE  x \o y \in Seq(D) /\ Follows(x \o y, x, y)
<1>1. x \o y \in Seq(D) /\ Len(x \o y) = Len(x) + Len(y) /\ Len(x) \in Nat /\ Len(y) \in Nat
  OBVIOUS
<1>2. \A i \in 1 .. Len(x) : (x \o y)[i] = x[i]
  OBVIOUS
<1>3. \A i \in 1 .. Len(y) : (x \o y)[Len(x) + i] = y[i]
  OBVIOUS
<1> QED BY <1>1, <1>2, <1>3 DEF Follows

LEMMA SameSequence ==
  ASSUME NEW D, NEW x \in Seq(D), NEW y \in Seq(D), Len(x) = Len(y),
         \A i \in 1 .. Len(x) : x[i] = y[i]
  PROVE  x = y
OBVIOUS

(* p[k] is what the first k pieces make.                                   *)
Joins(p, s, n, D) ==
  /\ p \in [0 .. n -> Seq(D)] /\ p[0] = << >>
  /\ \A k \in 1 .. n : s[k] \in Seq(D)
  /\ \A k \in 1 .. n : p[k] = p[k - 1] \o s[k]

LEMMA JoinStep ==
  ASSUME NEW D, NEW n \in Nat, NEW s, NEW p, Joins(p, s, n, D), NEW k \in 1 .. n
  PROVE  /\ k - 1 \in 0 .. n /\ k \in 0 .. n
         /\ p[k - 1] \in Seq(D) /\ p[k] \in Seq(D) /\ s[k] \in Seq(D)
         /\ p[k] = p[k - 1] \o s[k] /\ Follows(p[k], p[k - 1], s[k])
<1>1. k - 1 \in 0 .. n /\ k \in 0 .. n
  OBVIOUS
<1>2. p[k - 1] \in Seq(D) /\ p[k] \in Seq(D) /\ s[k] \in Seq(D) /\ p[k] = p[k - 1] \o s[k]
  BY <1>1 DEF Joins
<1>3. Follows(p[k - 1] \o s[k], p[k - 1], s[k])
  BY <1>2, Concatenated
<1> QED BY <1>1, <1>2, <1>3

LEMMA JoinExists ==
  ASSUME NEW D, NEW n \in Nat, NEW s, \A k \in 1 .. n : s[k] \in Seq(D)
  PROVE  \E p : Joins(p, s, n, D)
<1> DEFINE T == {m \in Nat : m <= n => \E p : Joins(p, s, m, D)}
<1>1. 0 \in T
  <2>1. Joins([k \in {0} |-> << >>], s, 0, D)
    BY DEF Joins
  <2> QED BY <2>1
<1>2. ASSUME NEW m \in T PROVE m + 1 \in T
  <2>0. m \in Nat /\ m + 1 \in Nat
    OBVIOUS
  <2> SUFFICES ASSUME m + 1 <= n PROVE \E p : Joins(p, s, m + 1, D)
    OBVIOUS
  <2>1. PICK p : Joins(p, s, m, D)
    OBVIOUS
  <2> HIDE DEF T
  <2> DEFINE last == p[m] \o s[m + 1]
             q == [k \in 0 .. m + 1 |-> IF k = m + 1 THEN last ELSE p[k]]
  <2>2. p[m] \in Seq(D) /\ s[m + 1] \in Seq(D)
    BY <2>0, <2>1 DEF Joins
  <2>3. last \in Seq(D)
    BY <2>2, Concatenated
  <2>a. last = p[m] \o s[m + 1]
    OBVIOUS
  <2> HIDE DEF last
  <2>b. \A k \in 0 .. m : p[k] \in Seq(D)
    BY <2>1 DEF Joins
  <2>4. q \in [0 .. m + 1 -> Seq(D)]
    <3>1. ASSUME NEW k \in 0 .. m + 1 PROVE q[k] \in Seq(D)
      <4>1. CASE k = m + 1
        BY <4>1, <2>3
      <4>2. CASE k # m + 1
        <5>1. k \in 0 .. m
          BY <2>0, <4>2
        <5> QED BY <2>b, <4>2, <5>1
      <4> QED BY <4>1, <4>2
    <3> QED BY <3>1
  <2>5. q[0] = << >>
    <3>1. 0 \in 0 .. m + 1 /\ 0 # m + 1 /\ p[0] = << >>
      BY <2>0, <2>1 DEF Joins
    <3> QED BY <3>1
  <2>6. ASSUME NEW k \in 1 .. m + 1 PROVE q[k] = q[k - 1] \o s[k]
    <3>0. k \in 0 .. m + 1 /\ k - 1 \in 0 .. m + 1 /\ k - 1 # m + 1
      BY <2>0
    <3>a. q[k - 1] = p[k - 1]
      BY <3>0
    <3>1. CASE k = m + 1
      <4>1. q[k] = last /\ k - 1 = m
        BY <2>0, <3>0, <3>1
      <4> QED BY <3>1, <3>a, <4>1, <2>a
    <3>2. CASE k # m + 1
      <4>1. k \in 1 .. m /\ q[k] = p[k]
        BY <2>0, <3>0, <3>2
      <4>2. p[k] = p[k - 1] \o s[k]
        BY <2>1, <4>1 DEF Joins
      <4> QED BY <3>a, <4>1, <4>2
    <3> QED BY <3>1, <3>2
  <2>7. \A k \in 1 .. m + 1 : s[k] \in Seq(D)
    BY <2>0
  <2> HIDE DEF q
  <2> QED BY <2>4, <2>5, <2>6, <2>7 DEF Joins
<1>3. T = Nat
  <2> HIDE DEF T
  <2>1. T \in SUBSET Nat
    BY DEF T
  <2> QED BY <1>1, <1>2, <2>1, NumbersInduction
<1>4. n \in T
  BY <1>3
<1> QED BY <1>4

LEMMA Flattened ==
  ASSUME NEW D, NEW n \in Nat \ {0}, NEW s \in [1 .. n -> Seq(D)], NEW p, Joins(p, s, n, D)
  PROVE  FlattenSeq(s) = p[n]
<1>0. Len(s) = n /\ DOMAIN s = 1 .. n
  OBVIOUS
<1> DEFINE body(f) == [i \in 1 .. n |-> IF i = 1 THEN s[i] ELSE f[i - 1] \o s[i]]
           f == CHOOSE g : g = body(g)
           g == [i \in 1 .. n |-> p[i]]
<1>1. FlattenSeq(s) = f[n]
  BY <1>0 DEF FlattenSeq
<1>a. ASSUME NEW i \in 1 .. n PROVE p[i] = IF i = 1 THEN s[i] ELSE p[i - 1] \o s[i]
  <2>1. p[i] = p[i - 1] \o s[i] /\ s[i] \in Seq(D)
    BY DEF Joins
  <2>2. CASE i = 1
    <3>1. p[i - 1] = << >>
      BY <2>2 DEF Joins
    <3>2. << >> \o s[i] = s[i]
      BY <2>1
    <3> QED BY <2>1, <2>2, <3>1, <3>2
  <2>3. CASE i # 1
    BY <2>1, <2>3
  <2> QED BY <2>2, <2>3
<1>2. g = body(g)
  <2>2. ASSUME NEW i \in 1 .. n, i # 1 PROVE g[i - 1] = p[i - 1]
    BY <2>2
  <2> QED BY <1>a, <2>2
<1>3. f = body(f)
  BY <1>2
<1>b. ASSUME NEW i \in 1 .. n PROVE f[i] = IF i = 1 THEN s[i] ELSE f[i - 1] \o s[i]
  BY <1>3
<1> HIDE DEF f
<1> DEFINE T == {m \in Nat : m \in 1 .. n => f[m] = p[m]}
<1>4. 0 \in T
  OBVIOUS
<1>5. ASSUME NEW m \in T PROVE m + 1 \in T
  <2>0. m \in Nat /\ m + 1 \in Nat /\ (m + 1) - 1 = m
    OBVIOUS
  <2>a. m \in 1 .. n => f[m] = p[m]
    OBVIOUS
  <2> SUFFICES ASSUME m + 1 \in 1 .. n PROVE f[m + 1] = p[m + 1]
    BY <2>0
  <2> HIDE DEF T
  <2>1. f[m + 1] = IF m + 1 = 1 THEN s[m + 1] ELSE f[m] \o s[m + 1]
    BY <2>0, <1>b
  <2>2. p[m + 1] = IF m + 1 = 1 THEN s[m + 1] ELSE p[m] \o s[m + 1]
    BY <2>0, <1>a
  <2>3. m + 1 # 1 => m \in 1 .. n
    BY <2>0
  <2> QED BY <2>a, <2>1, <2>2, <2>3
<1>6. T = Nat
  <2> HIDE DEF T
  <2>1. T \in SUBSET Nat
    BY DEF T
  <2> QED BY <1>4, <1>5, <2>1, NumbersInduction
<1> QED BY <1>1, <1>6

(* What is in the whole is what is in the pieces.                          *)
Members(s) == {s[i] : i \in 1 .. Len(s)}

LEMMA MembersOfTwo ==
  ASSUME NEW z, NEW x, NEW y, Follows(z, x, y)
  PROVE  Members(z) = Members(x) \cup Members(y)
<1>0. Len(z) = Len(x) + Len(y) /\ Len(x) \in Nat /\ Len(y) \in Nat
  BY DEF Follows
<1>1. ASSUME NEW i \in 1 .. Len(z) PROVE z[i] \in Members(x) \cup Members(y)
  <2>1. CASE i <= Len(x)
    <3>1. i \in 1 .. Len(x)
      BY <1>0, <2>1
    <3> QED BY <3>1 DEF Follows, Members
  <2>2. CASE ~(i <= Len(x))
    <3>1. i - Len(x) \in 1 .. Len(y) /\ Len(x) + (i - Len(x)) = i
      BY <1>0, <2>2
    <3>2. z[Len(x) + (i - Len(x))] = y[i - Len(x)]
      BY <3>1 DEF Follows
    <3> QED BY <3>1, <3>2 DEF Members
  <2> QED BY <2>1, <2>2
<1>2. ASSUME NEW j \in 1 .. Len(x) PROVE x[j] \in Members(z)
  <2>1. j \in 1 .. Len(z)
    BY <1>0
  <2> QED BY <2>1 DEF Follows, Members
<1>3. ASSUME NEW j \in 1 .. Len(y) PROVE y[j] \in Members(z)
  <2>1. Len(x) + j \in 1 .. Len(z)
    BY <1>0
  <2>2. z[Len(x) + j] = y[j]
    BY DEF Follows
  <2> QED BY <2>1, <2>2 DEF Members
<1> QED BY <1>1, <1>2, <1>3 DEF Members

LEMMA MembersOfJoin ==
  ASSUME NEW D, NEW n \in Nat, NEW s, NEW p, Joins(p, s, n, D)
  PROVE  Members(p[n]) = UNION {Members(s[k]) : k \in 1 .. n}
<1> DEFINE T == {m \in Nat : m <= n => Members(p[m]) = UNION {Members(s[k]) : k \in 1 .. m}}
<1>1. 0 \in T
  <2>1. p[0] = << >> /\ Len(<< >>) = 0
    BY DEF Joins
  <2>2. Members(p[0]) = {}
    BY <2>1 DEF Members
  <2> QED BY <2>2
<1>2. ASSUME NEW m \in T PROVE m + 1 \in T
  <2>0. m \in Nat /\ m + 1 \in Nat /\ (m + 1) - 1 = m
    OBVIOUS
  <2>a. m <= n => Members(p[m]) = UNION {Members(s[k]) : k \in 1 .. m}
    OBVIOUS
  <2> SUFFICES ASSUME m + 1 <= n
               PROVE Members(p[m + 1]) = UNION {Members(s[k]) : k \in 1 .. m + 1}
    BY <2>0
  <2> HIDE DEF T
  <2>1. m <= n /\ m + 1 \in 1 .. n
    BY <2>0
  <2>2. Members(p[m + 1]) = Members(p[m]) \cup Members(s[m + 1])
    <3>1. Follows(p[m + 1], p[m], s[m + 1])
      BY <2>0, <2>1, JoinStep
    <3> QED BY <3>1, MembersOfTwo
  <2>3. 1 .. m + 1 = (1 .. m) \cup {m + 1}
    BY <2>0
  <2>4. UNION {Members(s[k]) : k \in 1 .. m + 1} =
          (UNION {Members(s[k]) : k \in 1 .. m}) \cup Members(s[m + 1])
    BY <2>3, Zenon
  <2> QED BY <2>a, <2>1, <2>2, <2>4
<1>3. T = Nat
  <2> HIDE DEF T
  <2>1. T \in SUBSET Nat
    BY DEF T
  <2> QED BY <1>1, <1>2, <2>1, NumbersInduction
<1>4. n \in T
  BY <1>3
<1> QED BY <1>4

(* What is read of a stream, from a place on.                              *)
Found(stream, at0, q) == \A i \in 1 .. Len(q) : At(stream, at0 + i - 1) = q[i]

LEMMA FoundParts ==
  ASSUME NEW stream, NEW at0 \in Nat, NEW z, NEW x, NEW y, Follows(z, x, y), Found(stream, at0, z)
  PROVE  Found(stream, at0, x) /\ Found(stream, at0 + Len(x), y)
<1>0. Len(z) = Len(x) + Len(y) /\ Len(x) \in Nat /\ Len(y) \in Nat
  BY DEF Follows
<1>1. ASSUME NEW i \in 1 .. Len(x) PROVE At(stream, at0 + i - 1) = x[i]
  <2>1. i \in 1 .. Len(z) /\ z[i] = x[i]
    BY <1>0 DEF Follows
  <2> QED BY <2>1 DEF Found
<1>2. ASSUME NEW i \in 1 .. Len(y) PROVE At(stream, (at0 + Len(x)) + i - 1) = y[i]
  <2>1. Len(x) + i \in 1 .. Len(z) /\ z[Len(x) + i] = y[i]
    BY <1>0 DEF Follows
  <2>2. at0 + (Len(x) + i) - 1 = (at0 + Len(x)) + i - 1
    BY <1>0
  <2>3. At(stream, at0 + (Len(x) + i) - 1) = z[Len(x) + i]
    BY <2>1 DEF Found
  <2> QED BY <2>1, <2>2, <2>3
<1> QED BY <1>1, <1>2 DEF Found

LEMMA FoundPiece ==
  ASSUME NEW D, NEW n \in Nat, NEW s, NEW p, Joins(p, s, n, D),
         NEW stream, NEW at0 \in Nat, Found(stream, at0, p[n]), NEW k \in 1 .. n
  PROVE  Found(stream, at0 + Len(p[k - 1]), s[k])
<1> DEFINE T == {d \in Nat : d <= n => Found(stream, at0, p[n - d])}
<1>1. 0 \in T
  <2>1. n - 0 = n
    OBVIOUS
  <2> QED BY <2>1
<1>2. ASSUME NEW d \in T PROVE d + 1 \in T
  <2>0. d \in Nat /\ d + 1 \in Nat
    OBVIOUS
  <2>a. d <= n => Found(stream, at0, p[n - d])
    OBVIOUS
  <2> SUFFICES ASSUME d + 1 <= n PROVE Found(stream, at0, p[n - (d + 1)])
    BY <2>0
  <2> HIDE DEF T
  <2>1. d <= n /\ n - d \in 1 .. n /\ (n - d) - 1 = n - (d + 1)
    BY <2>0
  <2>2. Follows(p[n - d], p[(n - d) - 1], s[n - d])
    BY <2>1, JoinStep
  <2> QED BY <2>a, <2>1, <2>2, FoundParts
<1>3. T = Nat
  <2> HIDE DEF T
  <2>1. T \in SUBSET Nat
    BY DEF T
  <2> QED BY <1>1, <1>2, <2>1, NumbersInduction
<1>a. n - k \in Nat /\ n - (n - k) = k /\ n - k <= n
  OBVIOUS
<1>4. n - k \in T
  BY <1>3, <1>a
<1>5. Found(stream, at0, p[k])
  BY <1>a, <1>4
<1> HIDE DEF T
<1>6. Follows(p[k], p[k - 1], s[k])
  BY JoinStep
<1> QED BY <1>5, <1>6, FoundParts

-----------------------------------------------------------------------------
(* The cells of a column, from the lowest up.                              *)

CellRec == [z : Int, open : SUBSET Compass]

(* Finitely many cells, told by their heights.                             *)
Distinct(cells0) ==
  /\ cells0 \in SUBSET CellRec /\ IsFiniteSet(cells0)
  /\ \A a, b \in cells0 : a.z = b.z => a = b

Ascends(column, cells0) ==
  /\ column \in [1 .. Cardinality(cells0) -> cells0]
  /\ \A i, j \in DOMAIN column : i < j => column[i].z < column[j].z

LEMMA SortedExists ==
  ASSUME NEW S, Distinct(S)
  PROVE  \E column : Ascends(column, S)
<1> DEFINE n == Cardinality(S)
           below(x) == {y \in S : y.z <= x.z}
           rank == [x \in S |-> Cardinality(below(x))]
<1>1. n \in Nat /\ IsFiniteSet(S) /\ \A x \in S : x.z \in Int
  BY FS_CardinalityType DEF Distinct, CellRec
<1>2. \A x \in S : /\ IsFiniteSet(below(x)) /\ Cardinality(below(x)) \in Nat
                   /\ Cardinality(below(x)) <= n /\ x \in below(x)
                   /\ Cardinality(below(x)) # 0
  <2> SUFFICES ASSUME NEW x \in S
               PROVE /\ IsFiniteSet(below(x)) /\ Cardinality(below(x)) \in Nat
                     /\ Cardinality(below(x)) <= n /\ x \in below(x)
                     /\ Cardinality(below(x)) # 0
    OBVIOUS
  <2>1. below(x) \in SUBSET S
    OBVIOUS
  <2>2. x \in below(x)
    BY <1>1
  <2> HIDE DEF below
  <2>3. IsFiniteSet(below(x)) /\ Cardinality(below(x)) <= n
    BY <1>1, <2>1, FS_Subset
  <2>4. Cardinality(below(x)) \in Nat /\ Cardinality(below(x)) # 0
    BY <2>2, <2>3, FS_CardinalityType, FS_EmptySet
  <2> QED BY <2>2, <2>3, <2>4
<1>3. \A x, y \in S : x.z < y.z => Cardinality(below(x)) < Cardinality(below(y))
  <2> SUFFICES ASSUME NEW x \in S, NEW y \in S, x.z < y.z
               PROVE  Cardinality(below(x)) < Cardinality(below(y))
    OBVIOUS
  <2>1. below(x) \in SUBSET below(y) /\ y \notin below(x)
    BY <1>1
  <2>2. /\ IsFiniteSet(below(y)) /\ y \in below(y)
        /\ Cardinality(below(x)) \in Nat /\ Cardinality(below(y)) \in Nat
    BY <1>2
  <2> HIDE DEF below
  <2>3. Cardinality(below(x)) <= Cardinality(below(y))
        /\ (Cardinality(below(y)) = Cardinality(below(x)) => below(y) = below(x))
    BY <2>1, <2>2, FS_Subset
  <2> QED BY <2>1, <2>2, <2>3
<1>4. rank \in [S -> 1 .. n]
  BY <1>1, <1>2
<1>5. \A x, y \in S : rank[x] = rank[y] => x = y
  <2> SUFFICES ASSUME NEW x \in S, NEW y \in S, rank[x] = rank[y] PROVE x.z = y.z
    BY DEF Distinct
  <2>1. rank[x] = Cardinality(below(x)) /\ rank[y] = Cardinality(below(y))
    OBVIOUS
  <2> QED BY <1>1, <1>2, <1>3, <2>1
<1>6. rank \in Injection(S, 1 .. n)
  BY <1>4, <1>5 DEF Injection, IsInjective
<1>7. rank \in Surjection(S, 1 .. n)
  <2> HIDE DEF rank
  <2>1. IsFiniteSet(1 .. n) /\ Cardinality(1 .. n) = n
    BY <1>1, FS_Interval
  <2> QED BY <1>6, <2>1, FS_Injection
<1> DEFINE column == [k \in 1 .. n |-> CHOOSE x \in S : rank[x] = k]
<1>8. \A k \in 1 .. n : column[k] \in S /\ rank[column[k]] = k
  <2> HIDE DEF rank
  <2>1. \A k \in 1 .. n : \E x \in S : rank[x] = k
    BY <1>7 DEF Surjection
  <2> QED BY <2>1
<1>9. ASSUME NEW i \in 1 .. n, NEW j \in 1 .. n, i < j PROVE column[i].z < column[j].z
  <2>1. column[i] \in S /\ column[j] \in S /\ rank[column[i]] = i /\ rank[column[j]] = j
    BY <1>8
  <2> DEFINE x == column[i]
             y == column[j]
  <2> HIDE DEF x, y
  <2>2. x \in S /\ y \in S /\ rank[x] = i /\ rank[y] = j
    BY <2>1 DEF x, y
  <2>3. Cardinality(below(x)) = i /\ Cardinality(below(y)) = j
    BY <2>2
  <2> HIDE DEF below, rank
  <2>4. ~(y.z < x.z)
    <3>1. y.z < x.z => Cardinality(below(y)) < Cardinality(below(x))
      BY <1>3, <2>2
    <3>2. i \in Int /\ j \in Int /\ i < j
      BY <1>1, <1>9
    <3> QED BY <2>3, <3>1, <3>2
  <2>5. x.z # y.z
    <3>1. x.z = y.z => x = y
      BY <2>2 DEF Distinct
    <3>2. i \in Int /\ j \in Int /\ i < j
      BY <1>1, <1>9
    <3> QED BY <2>2, <3>1, <3>2
  <2>6. x.z < y.z
    BY <1>1, <2>2, <2>4, <2>5
  <2> QED BY <2>6 DEF x, y
<1>10. column \in [1 .. n -> S]
  BY <1>8
<1> HIDE DEF column
<1>11. Ascends(column, S)
  BY <1>9, <1>10 DEF Ascends
<1> QED BY <1>11

LEMMA SortedIs ==
  ASSUME NEW S, Distinct(S)
  PROVE  /\ Sorted(S) \in Seq(S) /\ Len(Sorted(S)) = Cardinality(S) /\ Cardinality(S) \in Nat
         /\ Members(Sorted(S)) = S
         /\ \A i, j \in 1 .. Cardinality(S) : i < j => Sorted(S)[i].z < Sorted(S)[j].z
<1> DEFINE n == Cardinality(S)
           s == Sorted(S)
<1>1. n \in Nat /\ IsFiniteSet(S) /\ \A x \in S : x.z \in Int
  BY FS_CardinalityType DEF Distinct, CellRec
<1>2. \E column \in [1 .. n -> S] :
        \A i, j \in DOMAIN column : i < j => column[i].z < column[j].z
  BY SortedExists DEF Ascends
<1>3. s \in [1 .. n -> S] /\ \A i, j \in DOMAIN s : i < j => s[i].z < s[j].z
  BY <1>2 DEF Sorted
<1> HIDE DEF s, n
<1>4. s \in Seq(S) /\ Len(s) = n
  BY <1>1, <1>3
<1>5. s \in Injection(1 .. n, S)
  <2>1. \A i, j \in 1 .. n : s[i] = s[j] => i = j
    <3> SUFFICES ASSUME NEW i \in 1 .. n, NEW j \in 1 .. n, s[i] = s[j] PROVE i = j
      OBVIOUS
    <3>1. s[i].z \in Int /\ s[j].z \in Int /\ i \in Int /\ j \in Int
      BY <1>1, <1>3
    <3> QED BY <1>3, <3>1
  <2> QED BY <1>3, <2>1 DEF Injection, IsInjective
<1>6. s \in Surjection(1 .. n, S)
  <2>1. Cardinality(1 .. n) = n
    BY <1>1, FS_Interval
  <2> QED BY <1>1, <1>5, <2>1, FS_Injection DEF n
<1>7. Members(s) = S
  <2>1. \A x \in S : \E i \in 1 .. n : s[i] = x
    BY <1>6 DEF Surjection
  <2> QED BY <1>3, <1>4, <2>1 DEF Members
<1>8. \A i, j \in 1 .. n : i < j => s[i].z < s[j].z
  BY <1>3
<1> QED BY <1>1, <1>4, <1>7, <1>8 DEF s, n

-----------------------------------------------------------------------------
(* The blocks of a region, and the columns of a block.                     *)

BlockOf(place) == << place[1] \div BlockSide, place[2] \div BlockSide >>
IndexIn(place) == (place[1] % BlockSide) * BlockSide + (place[2] % BlockSide) + 1
IndexOf(block) == block[1] * BlocksY + block[2] + 1

LEMMA Sizes ==
  /\ BlocksX \in Nat \ {0} /\ BlocksY \in Nat \ {0} /\ BlockSide \in Nat \ {0}
  /\ MaxLayers \in Nat \ {0} /\ BlockArea \in Nat \ {0} /\ BlocksX * BlocksY \in Nat \ {0}
  /\ BlockArea = BlockSide * BlockSide
  /\ Cells = Columns
<1>1. /\ BlocksX \in Nat \ {0} /\ BlocksY \in Nat \ {0} /\ BlockSide \in Nat \ {0}
      /\ MaxLayers \in Nat \ {0}
  BY BlocksAssumption DEF BlocksAssumption
<1>2. BlockArea \in Nat \ {0} /\ BlocksX * BlocksY \in Nat \ {0}
  BY <1>1 DEF BlockArea
<1>3. Cells = Columns
  BY RegionAssumption DEF RegionAssumption, Cells, Columns
<1> QED BY <1>1, <1>2, <1>3 DEF BlockArea

LEMMA BlocksInOrder ==
  /\ BlockSeq \in [1 .. BlocksX * BlocksY -> Blocks]
  /\ \A n \in 1 .. BlocksX * BlocksY : IndexOf(BlockSeq[n]) = n
  /\ \A block \in Blocks : /\ IndexOf(block) \in 1 .. BlocksX * BlocksY
                           /\ BlockSeq[IndexOf(block)] = block
<1>1. ASSUME NEW n \in 1 .. BlocksX * BlocksY
      PROVE  /\ <<(n - 1) \div BlocksY, (n - 1) % BlocksY>> \in Blocks
             /\ IndexOf(<<(n - 1) \div BlocksY, (n - 1) % BlocksY>>) = n
  <2>1. n - 1 \in Nat /\ n - 1 < BlocksX * BlocksY
    BY Sizes
  <2>2. /\ (n - 1) % BlocksY \in 0 .. BlocksY - 1 /\ (n - 1) \div BlocksY \in Nat
        /\ n - 1 = ((n - 1) \div BlocksY) * BlocksY + ((n - 1) % BlocksY)
    BY <2>1, Sizes, DivMod
  <2>3. (n - 1) \div BlocksY < BlocksX
    BY <2>1, Sizes, DivLess
  <2> QED BY <2>1, <2>2, <2>3, Sizes DEF Blocks, IndexOf
<1>2. ASSUME NEW block \in Blocks
      PROVE  /\ IndexOf(block) \in 1 .. BlocksX * BlocksY
             /\ <<(IndexOf(block) - 1) \div BlocksY, (IndexOf(block) - 1) % BlocksY>> = block
  <2>1. /\ block = <<block[1], block[2]>> /\ block[1] \in Nat /\ block[1] < BlocksX
        /\ block[2] \in 0 .. BlocksY - 1
    BY Sizes DEF Blocks
  <2>2. block[1] * BlocksY + block[2] \in 0 .. BlocksX * BlocksY - 1
    BY <2>1, Sizes, ProductLess
  <2>3. /\ (block[1] * BlocksY + block[2]) \div BlocksY = block[1]
        /\ (block[1] * BlocksY + block[2]) % BlocksY = block[2]
    BY <2>1, Sizes, DivModOf
  <2>4. IndexOf(block) - 1 = block[1] * BlocksY + block[2] /\ IndexOf(block) \in 1 .. BlocksX * BlocksY
    BY <2>2, Sizes DEF IndexOf
  <2> QED BY <2>1, <2>3, <2>4
<1>3. \A n \in 1 .. BlocksX * BlocksY : BlockSeq[n] = <<(n - 1) \div BlocksY, (n - 1) % BlocksY>>
  BY DEF BlockSeq
<1>4. BlockSeq \in [1 .. BlocksX * BlocksY -> Blocks]
  BY <1>1 DEF BlockSeq
<1> QED BY <1>1, <1>2, <1>3, <1>4

LEMMA CellsInOrder ==
  ASSUME NEW block \in Blocks
  PROVE  /\ CellSeq(block) \in [1 .. BlockArea -> Cells]
         /\ \A n \in 1 .. BlockArea : /\ BlockOf(CellSeq(block)[n]) = block
                                      /\ IndexIn(CellSeq(block)[n]) = n
<1>0. /\ block[1] \in Nat /\ block[1] < BlocksX /\ block[2] \in Nat /\ block[2] < BlocksY
      /\ block = <<block[1], block[2]>>
  BY Sizes DEF Blocks
<1>1. ASSUME NEW n \in 1 .. BlockArea
      PROVE  LET place == <<(block[1] * BlockSide) + ((n - 1) \div BlockSide),
                            (block[2] * BlockSide) + ((n - 1) % BlockSide)>>
             IN  place \in Cells /\ BlockOf(place) = block /\ IndexIn(place) = n
  <2> DEFINE q == (n - 1) \div BlockSide
             r == (n - 1) % BlockSide
             x == block[1] * BlockSide + q
             y == block[2] * BlockSide + r
  <2>1. n - 1 \in Nat /\ n - 1 < BlockSide * BlockSide
    BY Sizes
  <2>2. q \in Nat /\ r \in 0 .. BlockSide - 1 /\ n - 1 = q * BlockSide + r
    BY <2>1, Sizes, DivMod
  <2>3. q < BlockSide
    BY <2>1, Sizes, DivLess
  <2> HIDE DEF q, r
  <2>4. q \in 0 .. BlockSide - 1
    BY <2>2, <2>3, Sizes
  <2>5. x \in 0 .. BlocksX * BlockSide - 1 /\ x \div BlockSide = block[1] /\ x % BlockSide = q
    BY <1>0, <2>4, Sizes, ProductLess, DivModOf
  <2>6. y \in 0 .. BlocksY * BlockSide - 1 /\ y \div BlockSide = block[2] /\ y % BlockSide = r
    BY <1>0, <2>2, Sizes, ProductLess, DivModOf
  <2> HIDE DEF x, y
  <2>7. <<x, y>> \in Cells /\ BlockOf(<<x, y>>) = block
    BY <1>0, <2>5, <2>6 DEF Cells, BlockOf
  <2>8. IndexIn(<<x, y>>) = n
    BY <2>2, <2>5, <2>6 DEF IndexIn
  <2> QED BY <2>7, <2>8 DEF x, y, q, r
<1>2. \A n \in 1 .. BlockArea :
        CellSeq(block)[n] = <<(block[1] * BlockSide) + ((n - 1) \div BlockSide),
                              (block[2] * BlockSide) + ((n - 1) % BlockSide)>>
  BY DEF CellSeq
<1>3. CellSeq(block) \in [1 .. BlockArea -> Cells]
  BY <1>1 DEF CellSeq
<1> QED BY <1>1, <1>2, <1>3

LEMMA CellsOfBlocks ==
  ASSUME NEW place \in Cells
  PROVE  /\ BlockOf(place) \in Blocks /\ IndexIn(place) \in 1 .. BlockArea
         /\ CellSeq(BlockOf(place))[IndexIn(place)] = place
<1>0. /\ place = <<place[1], place[2]>> /\ place[1] \in Nat /\ place[1] < BlocksX * BlockSide
      /\ place[2] \in Nat /\ place[2] < BlocksY * BlockSide
  BY Sizes DEF Cells
<1> DEFINE a == place[1] \div BlockSide
           b == place[2] \div BlockSide
           q == place[1] % BlockSide
           r == place[2] % BlockSide
<1>1. a \in Nat /\ q \in 0 .. BlockSide - 1 /\ place[1] = a * BlockSide + q
  BY <1>0, Sizes, DivMod
<1>2. b \in Nat /\ r \in 0 .. BlockSide - 1 /\ place[2] = b * BlockSide + r
  BY <1>0, Sizes, DivMod
<1>3. a < BlocksX /\ b < BlocksY
  BY <1>0, Sizes, DivLess
<1>4. BlockOf(place) = <<a, b>> /\ IndexIn(place) = q * BlockSide + r + 1
  BY DEF BlockOf, IndexIn
<1> HIDE DEF a, b, q, r
<1>5. <<a, b>> \in Blocks
  BY <1>1, <1>2, <1>3, Sizes DEF Blocks
<1>6. q * BlockSide + r \in 0 .. BlockSide * BlockSide - 1
  BY <1>1, <1>2, Sizes, ProductLess
<1>7. (q * BlockSide + r) \div BlockSide = q /\ (q * BlockSide + r) % BlockSide = r
  BY <1>1, <1>2, Sizes, DivModOf
<1> DEFINE i == q * BlockSide + r + 1
<1>8. i \in 1 .. BlockArea /\ i - 1 = q * BlockSide + r
  BY <1>6, <1>1, <1>2, Sizes
<1>9. (i - 1) \div BlockSide = q /\ (i - 1) % BlockSide = r
  BY <1>7, <1>8
<1>10. i = IndexIn(place)
  BY <1>4
<1> HIDE DEF i
<1>11. CellSeq(<<a, b>>)[i] = <<a * BlockSide + q, b * BlockSide + r>>
  BY <1>8, <1>9 DEF CellSeq
<1> QED BY <1>0, <1>1, <1>2, <1>4, <1>5, <1>8, <1>10, <1>11

LEMMA InBlock ==
  ASSUME NEW block \in Blocks
  PROVE  /\ CellsOf(block) \in SUBSET Cells
         /\ \A place \in Cells : place \in CellsOf(block) <=> BlockOf(place) = block
         /\ Origin(block) \in CellsOf(block) /\ Origin(block) = CellSeq(block)[1]
         /\ Len(CellSeq(block)) = BlockArea /\ DOMAIN CellSeq(block) = 1 .. BlockArea
         /\ CellSeq(block) \in Seq(Cells)
<1>1. CellSeq(block) \in [1 .. BlockArea -> Cells] /\ 1 \in 1 .. BlockArea /\ BlockArea \in Nat
  BY CellsInOrder, Sizes
<1>2. CellsOf(block) \in SUBSET Cells
  BY <1>1 DEF CellsOf
<1>3. ASSUME NEW place \in Cells PROVE place \in CellsOf(block) <=> BlockOf(place) = block
  <2>1. ASSUME place \in CellsOf(block) PROVE BlockOf(place) = block
    <3>1. PICK n \in 1 .. BlockArea : place = CellSeq(block)[n]
      BY <2>1 DEF CellsOf
    <3> QED BY <3>1, CellsInOrder
  <2>2. ASSUME BlockOf(place) = block PROVE place \in CellsOf(block)
    <3>1. IndexIn(place) \in 1 .. BlockArea /\ CellSeq(block)[IndexIn(place)] = place
      BY <2>2, CellsOfBlocks
    <3> QED BY <3>1 DEF CellsOf
  <2> QED BY <2>1, <2>2
<1>4. CellSeq(block) \in Seq(Cells) /\ Len(CellSeq(block)) = BlockArea /\ DOMAIN CellSeq(block) = 1 .. BlockArea
  BY <1>1
<1> QED BY <1>1, <1>2, <1>3, <1>4 DEF Origin, CellsOf

-----------------------------------------------------------------------------
(* From surfaces to cells.                                                 *)

LEMMA TruncatedGrows ==
  ASSUME NEW x \in Int, NEW y \in Int
  PROVE  /\ Truncated(x, 2) \in Int
         /\ y - x >= 4 => Truncated(x, 2) < Truncated(y, 2)
BY DEF Truncated

LEMMA RoundedIs ==
  ASSUME NEW z \in Int
  PROVE  Rounded(z) \in Int /\ Rounded(z) % 8 = 0
BY DEF Rounded, Truncated

LEMMA ProductGrows ==
  ASSUME NEW a \in Nat, NEW b \in Nat, a <= b, NEW c \in Nat
  PROVE  a * c \in Nat /\ b * c \in Nat /\ a * c <= b * c /\ b * c - a * c = (b - a) * c
OBVIOUS

(* A field of spans that have headroom, and the elevation of its map.      *)
Cleared == Field(grid) /\ Clear(grid) /\ elevation \in Int

LEMMA Spans ==
  ASSUME Cleared, NEW column \in Columns
  PROVE  /\ grid[column] \in Seq(Span) /\ Apart(grid[column])
         /\ Len(grid[column]) \in Nat /\ DOMAIN grid[column] = 1 .. Len(grid[column])
         /\ \A i \in DOMAIN grid[column] :
              /\ grid[column][i] \in Span
              /\ grid[column][i].smax \in Nat /\ grid[column][i].smin \in Nat
              /\ grid[column][i].open \in SUBSET Directions
<1>1. grid[column] \in Seq(Span) /\ Apart(grid[column])
  BY DEF Cleared, Field
<1>2. /\ Len(grid[column]) \in Nat /\ DOMAIN grid[column] = 1 .. Len(grid[column])
      /\ \A i \in DOMAIN grid[column] : grid[column][i] \in Span
  BY <1>1
<1> QED BY <1>1, <1>2 DEF Span

LEMMA SurfaceIs ==
  ASSUME Cleared, NEW column \in Columns, NEW i \in DOMAIN grid[column]
  PROVE  Surface(grid[column][i]) \in Int
<1>1. grid[column][i].smax \in Nat
  BY Spans
<1>2. CellHeight \in Nat
  BY RegionAssumption DEF RegionAssumption
<1>3. 2 * grid[column][i].smax * CellHeight \in Int
  BY <1>1, <1>2
<1> QED BY <1>3 DEF Surface, Cleared

LEMMA KeptApart ==
  ASSUME Cleared, NEW column \in Columns, NEW i \in Kept(column), NEW j \in Kept(column), i < j
  PROVE  /\ (ActorHeight + 1) * CellHeight \in Nat
         /\ Surface(grid[column][j]) - Surface(grid[column][i]) >= 2 * ((ActorHeight + 1) * CellHeight)
<1> DEFINE s == grid[column]
<1>0. /\ Apart(s) /\ Len(s) \in Nat /\ DOMAIN s = 1 .. Len(s)
      /\ \A k \in DOMAIN s : s[k].smax \in Nat /\ s[k].smin \in Nat
  BY Spans
<1>1. /\ i \in 1 .. Len(s) /\ j \in 1 .. Len(s) /\ Walkable(s[i])
      /\ Top(s, i) - s[i].smax > ActorHeight
  BY <1>0 DEF Kept, Cleared, Clear
<1> HIDE DEF s
<1>2. i + 1 \in DOMAIN s /\ i \in DOMAIN s /\ j \in DOMAIN s
  BY <1>0, <1>1
<1>3. Top(s, i) = s[i + 1].smin
  BY <1>0, <1>1 DEF Top
<1>4. s[i + 1].smin <= s[j].smax
  <2>1. s[i + 1].smin <= s[i + 1].smax /\ s[j].smin <= s[j].smax
    BY <1>0, <1>2 DEF Apart
  <2>2. CASE j = i + 1
    BY <2>1, <2>2
  <2>3. CASE j # i + 1
    <3>1. i + 1 \in 1 .. j - 1
      BY <1>0, <1>1, <1>2, <2>3
    <3>2. s[i + 1].smax < s[j].smin
      BY <1>0, <1>2, <3>1 DEF Apart
    <3> QED BY <1>0, <1>2, <2>1, <3>2
  <2> QED BY <2>2, <2>3
<1>5. ActorHeight \in Nat /\ CellHeight \in Nat
  BY ActorAssumption, RegionAssumption DEF ActorAssumption, RegionAssumption
<1> DEFINE a == s[i].smax
           b == s[j].smax
<1>6. a \in Nat /\ b \in Nat /\ ActorHeight + 1 <= b - a /\ a <= b /\ b - a \in Nat
      /\ ActorHeight + 1 \in Nat
  BY <1>0, <1>1, <1>2, <1>3, <1>4, <1>5
<1> HIDE DEF a, b
<1>7. /\ (ActorHeight + 1) * CellHeight \in Nat /\ (b - a) * CellHeight \in Nat
      /\ (ActorHeight + 1) * CellHeight <= (b - a) * CellHeight
  BY <1>5, <1>6, ProductGrows
<1>8. a * CellHeight \in Nat /\ b * CellHeight \in Nat /\ b * CellHeight - a * CellHeight = (b - a) * CellHeight
  BY <1>5, <1>6, ProductGrows
<1>9. /\ Surface(s[i]) = elevation + 2 * (a * CellHeight)
      /\ Surface(s[j]) = elevation + 2 * (b * CellHeight)
  <2>1. 2 * a * CellHeight = 2 * (a * CellHeight) /\ 2 * b * CellHeight = 2 * (b * CellHeight)
    BY <1>5, <1>6
  <2> QED BY <2>1 DEF Surface, a, b
<1>10. elevation \in Int
  BY DEF Cleared
<1> DEFINE p == (ActorHeight + 1) * CellHeight
           q == (b - a) * CellHeight
           u == a * CellHeight
           v == b * CellHeight
<1>11. p \in Nat /\ q \in Nat /\ u \in Nat /\ v \in Nat /\ p <= q /\ v - u = q
  BY <1>7, <1>8
<1>12. Surface(s[i]) = elevation + 2 * u /\ Surface(s[j]) = elevation + 2 * v
  BY <1>9
<1> HIDE DEF p, q, u, v
<1>13. p \in Nat /\ Surface(s[j]) - Surface(s[i]) >= 2 * p
  BY <1>10, <1>11, <1>12
<1> QED BY <1>13 DEF p, s

LEMMA KeptIs ==
  ASSUME Cleared, NEW column \in Columns
  PROVE  /\ IsFiniteSet(Kept(column)) /\ Cardinality(Kept(column)) \in Nat
         /\ Kept(column) \in SUBSET DOMAIN grid[column] /\ Kept(column) \in SUBSET Nat
         /\ (Kept(column) = {} <=> Cardinality(Kept(column)) = 0)
<1>1. DOMAIN grid[column] = 1 .. Len(grid[column]) /\ Len(grid[column]) \in Nat
  BY Spans
<1>2. IsFiniteSet(DOMAIN grid[column])
  <2>1. ASSUME NEW n \in Nat PROVE IsFiniteSet(1 .. n)
    BY FS_Interval
  <2> QED BY <1>1, <2>1
<1>3. Kept(column) \in SUBSET DOMAIN grid[column]
  BY DEF Kept
<1>4. IsFiniteSet(Kept(column))
  BY <1>2, <1>3, FS_Subset
<1> QED BY <1>1, <1>3, <1>4, FS_CardinalityType, FS_EmptySet

LEMMA CellsOfSpans ==
  ASSUME Cleared, NEW column \in Columns
  PROVE  /\ \A i \in Kept(column) : CellOf(grid[column][i]) \in CellRec
         /\ \A i, j \in Kept(column) :
              i < j => CellOf(grid[column][i]).z < CellOf(grid[column][j]).z
<1>1. ASSUME NEW i \in Kept(column) PROVE CellOf(grid[column][i]) \in CellRec
  <2>1. Surface(grid[column][i]) \in Int
    BY SurfaceIs DEF Kept
  <2> QED BY <2>1, TruncatedGrows DEF CellOf, CellRec
<1>2. ASSUME NEW i \in Kept(column), NEW j \in Kept(column), i < j
      PROVE  CellOf(grid[column][i]).z < CellOf(grid[column][j]).z
  <2>1. Surface(grid[column][i]) \in Int /\ Surface(grid[column][j]) \in Int
    BY SurfaceIs DEF Kept
  <2>2. Surface(grid[column][j]) - Surface(grid[column][i]) >= 2 * ((ActorHeight + 1) * CellHeight)
        /\ (ActorHeight + 1) * CellHeight \in Nat
    BY <1>2, KeptApart
  <2>3. Surface(grid[column][j]) - Surface(grid[column][i]) >= 4
    BY <2>1, <2>2, HeadroomAssumption DEF HeadroomAssumption
  <2> QED BY <2>1, <2>3, TruncatedGrows DEF CellOf
<1> QED BY <1>1, <1>2

LEMMA BuiltColumn ==
  ASSUME Cleared, NEW column \in Columns
  PROVE  /\ Distinct(Built[column])
         /\ Cardinality(Built[column]) =
              IF Kept(column) = {} THEN 1 ELSE Cardinality(Kept(column))
         /\ Built[column] # {} /\ Cardinality(Built[column]) \in Nat \ {0}
<1>1. CASE Kept(column) = {}
  <2>1. Built[column] = {FakeCell}
    BY <1>1 DEF Built
  <2>2. FakeCell \in CellRec
    BY DEF FakeCell, CellRec
  <2> QED BY <1>1, <2>1, <2>2, FS_Singleton DEF Distinct
<1>2. CASE Kept(column) # {}
  <2> DEFINE f == [i \in Kept(column) |-> CellOf(grid[column][i])]
             S == Built[column]
  <2>1. S = {CellOf(grid[column][i]) : i \in Kept(column)}
    BY <1>2 DEF Built
  <2>2. \A i \in Kept(column) : f[i] = CellOf(grid[column][i])
    OBVIOUS
  <2>3. f \in [Kept(column) -> S] /\ \A x \in S : \E i \in Kept(column) : f[i] = x
    BY <2>1
  <2>4. \A i, j \in Kept(column) : i < j => f[i].z < f[j].z
    BY <2>2, CellsOfSpans
  <2>5. \A i \in Kept(column) : f[i] \in CellRec /\ f[i].z \in Int /\ i \in Nat
    BY <2>2, CellsOfSpans, KeptIs DEF CellRec
  <2> HIDE DEF f, S
  <2>6. \A i, j \in Kept(column) : f[i].z = f[j].z => i = j
    BY <2>4, <2>5
  <2>7. f \in Bijection(Kept(column), S)
    BY <2>3, <2>6 DEF Bijection, Injection, IsInjective, Surjection
  <2>8. IsFiniteSet(S) /\ Cardinality(S) = Cardinality(Kept(column))
    BY <2>7, KeptIs, FS_Bijection DEF ExistsBijection
  <2>9. S \in SUBSET CellRec /\ \A a, b \in S : a.z = b.z => a = b
    BY <2>3, <2>5, <2>6
  <2>10. S # {} /\ Cardinality(S) # 0
    BY <1>2, <2>3, <2>8, KeptIs
  <2> QED BY <1>2, <2>8, <2>9, <2>10, KeptIs DEF Distinct, S
<1> QED BY <1>1, <1>2

(* Columns of cells, none of them empty.                                   *)
Layered(columns) ==
  /\ columns \in [Cells -> Seq(CellRec)]
  /\ \A place \in Cells : Len(columns[place]) \in Nat \ {0}

Put(cells0) == \A place \in Cells : Distinct(cells0[place]) /\ cells0[place] # {}

LEMMA BufferedIs ==
  ASSUME NEW set, Put(set)
  PROVE  /\ Layered(Buffered(set))
         /\ \A place \in Cells :
              /\ Len(Buffered(set)[place]) = Cardinality(set[place])
              /\ DOMAIN Buffered(set)[place] = 1 .. Cardinality(set[place])
              /\ \A i \in 1 .. Cardinality(set[place]) :
                   Buffered(set)[place][i] = Packed(Sorted(set[place])[i])
              /\ Members(Buffered(set)[place]) = {Packed(cell) : cell \in set[place]}
<1>1. ASSUME NEW place \in Cells
      PROVE  /\ Buffered(set)[place] \in Seq(CellRec)
             /\ Len(Buffered(set)[place]) = Cardinality(set[place])
             /\ DOMAIN Buffered(set)[place] = 1 .. Cardinality(set[place])
             /\ Cardinality(set[place]) \in Nat \ {0}
             /\ \A i \in 1 .. Cardinality(set[place]) :
                  Buffered(set)[place][i] = Packed(Sorted(set[place])[i])
             /\ Members(Buffered(set)[place]) = {Packed(cell) : cell \in set[place]}
  <2> DEFINE S == set[place]
             s == Sorted(S)
             c == [i \in DOMAIN s |-> Packed(s[i])]
             n == Cardinality(S)
  <2>1. Distinct(S) /\ S # {}
    BY DEF Put
  <2>2. s \in Seq(S) /\ Len(s) = n /\ n \in Nat /\ Members(s) = S
    BY <2>1, SortedIs
  <2>3. n # 0
    BY <2>1, FS_EmptySet DEF Distinct
  <2>4. Buffered(set)[place] = c
    BY DEF Buffered
  <2>5. DOMAIN s = 1 .. n /\ \A i \in 1 .. n : s[i] \in S /\ s[i] \in CellRec
    <3> HIDE DEF s, S
    <3>1. DOMAIN s = 1 .. n /\ \A i \in 1 .. n : s[i] \in S
      BY <2>2
    <3> QED BY <2>1, <3>1 DEF Distinct
  <2>6. \A cell \in CellRec : Packed(cell) \in CellRec
    BY RoundedIs DEF Packed, CellRec
  <2>7. c = [i \in 1 .. n |-> Packed(s[i])]
    BY <2>5
  <2> HIDE DEF s, S, n, c
  <2>8. c \in [1 .. n -> CellRec] /\ \A i \in 1 .. n : c[i] = Packed(s[i])
    BY <2>5, <2>6, <2>7
  <2>9. c \in Seq(CellRec) /\ Len(c) = n /\ DOMAIN c = 1 .. n
    BY <2>2, <2>8
  <2>10. Members(c) = {Packed(cell) : cell \in S}
    <3>1. Members(c) = {Packed(s[i]) : i \in 1 .. n}
      BY <2>8, <2>9 DEF Members
    <3>2. S = {s[i] : i \in 1 .. n}
      BY <2>2 DEF Members
    <3> QED BY <3>1, <3>2
  <2> QED BY <2>2, <2>3, <2>4, <2>8, <2>9, <2>10 DEF S, s, n
<1>2. Buffered(set) \in [Cells -> Seq(CellRec)]
  <2>1. Buffered(set) = [place \in Cells |-> Buffered(set)[place]]
    BY DEF Buffered
  <2> QED BY <1>1, <2>1
<1> QED BY <1>1, <1>2 DEF Layered

LEMMA PackedIs ==
  ASSUME NEW cell \in CellRec
  PROVE  /\ Packed(cell) = [z |-> Rounded(cell.z), open |-> cell.open]
         /\ Packed(cell) \in CellRec /\ Packed(cell).z = Rounded(cell.z) /\ Packed(cell).open = cell.open
         /\ Packed(cell).z % 8 = 0
BY RoundedIs DEF Packed, CellRec

LEMMA FlattenIs ==
  ASSUME NEW D, NEW n \in Nat \ {0}, NEW s \in [1 .. n -> Seq(D)]
  PROVE  /\ FlattenSeq(s) \in Seq(D)
         /\ Members(FlattenSeq(s)) = UNION {Members(s[k]) : k \in 1 .. n}
         /\ \E p : Joins(p, s, n, D) /\ FlattenSeq(s) = p[n]
<1>0. \A k \in 1 .. n : s[k] \in Seq(D)
  OBVIOUS
<1>1. PICK p : Joins(p, s, n, D)
  BY <1>0, JoinExists
<1>2. FlattenSeq(s) = p[n]
  BY <1>1, Flattened
<1>3. Members(p[n]) = UNION {Members(s[k]) : k \in 1 .. n}
  BY <1>1, MembersOfJoin
<1>4. p[n] \in Seq(D)
  BY <1>1 DEF Joins
<1> QED BY <1>1, <1>2, <1>3, <1>4

-----------------------------------------------------------------------------
(* The buffer of what was built.                                           *)

Raw == Buffered(Built)

LEMMA BuiltIsPut ==
  ASSUME Cleared
  PROVE  Put(Built) /\ Layered(Raw)
<1>1. Put(Built)
  BY BuiltColumn, Sizes DEF Put
<1> QED BY <1>1, BufferedIs DEF Raw

LEMMA RawColumn ==
  ASSUME Cleared, NEW place \in Cells
  PROVE  /\ Len(Raw[place]) = IF Kept(place) = {} THEN 1 ELSE Cardinality(Kept(place))
         /\ Len(Raw[place]) \in Nat \ {0} /\ DOMAIN Raw[place] = 1 .. Len(Raw[place])
         /\ Raw[place] \in Seq(CellRec)
         /\ Members(Raw[place]) =
              IF Kept(place) = {} THEN {Packed(FakeCell)}
              ELSE {Packed(CellOf(grid[place][i])) : i \in Kept(place)}
<1>0. place \in Columns
  BY Sizes
<1>1. /\ Len(Raw[place]) = Cardinality(Built[place])
      /\ DOMAIN Raw[place] = 1 .. Cardinality(Built[place])
      /\ Members(Raw[place]) = {Packed(cell) : cell \in Built[place]}
  BY BuiltIsPut, BufferedIs DEF Raw
<1>2. Len(Raw[place]) \in Nat \ {0} /\ Raw[place] \in Seq(CellRec)
  BY BuiltIsPut DEF Layered
<1>3. Cardinality(Built[place]) = IF Kept(place) = {} THEN 1 ELSE Cardinality(Kept(place))
  BY <1>0, BuiltColumn
<1>4. Built[place] = IF Kept(place) = {} THEN {FakeCell}
                     ELSE {CellOf(grid[place][i]) : i \in Kept(place)}
  BY <1>0 DEF Built
<1>5. {Packed(cell) : cell \in Built[place]} =
        IF Kept(place) = {} THEN {Packed(FakeCell)}
        ELSE {Packed(CellOf(grid[place][i])) : i \in Kept(place)}
  BY <1>4
<1> QED BY <1>1, <1>2, <1>3, <1>5

LEMMA CellOfSpan ==
  ASSUME Cleared, NEW place \in Cells, NEW i \in Kept(place)
  PROVE  /\ Packed(CellOf(grid[place][i])) \in CellRec
         /\ Packed(CellOf(grid[place][i])).z = Quantized(grid[place][i])
         /\ Packed(CellOf(grid[place][i])).open = CellOf(grid[place][i]).open
         /\ CellOf(grid[place][i]).open = Compass <=> grid[place][i].open = Directions
         /\ Quantized(grid[place][i]) \in Int
<1>0. place \in Columns /\ i \in DOMAIN grid[place]
  BY Sizes DEF Kept
<1>1. CellOf(grid[place][i]) \in CellRec
  BY <1>0, CellsOfSpans
<1>2. CellOf(grid[place][i]).z = Truncated(Surface(grid[place][i]), 2)
  BY DEF CellOf
<1>3. grid[place][i].open \in SUBSET Directions
  BY <1>0, Spans
<1>4. CellOf(grid[place][i]).open = Compass <=> grid[place][i].open = Directions
  <2>1. CellOf(grid[place][i]).open =
          {name \in Compass : Heading(name) \in grid[place][i].open}
    BY DEF CellOf
  <2>2. Directions = {0, 1, 2, 3}
    BY DEF Directions
  <2>3. Heading("north") = 3 /\ Heading("south") = 1 /\ Heading("west") = 0 /\ Heading("east") = 2
    BY DEF Heading
  <2> QED BY <1>3, <2>1, <2>2, <2>3 DEF Compass
<1>5. Packed(CellOf(grid[place][i])).z = Rounded(CellOf(grid[place][i]).z)
      /\ Packed(CellOf(grid[place][i])).open = CellOf(grid[place][i]).open
      /\ Packed(CellOf(grid[place][i])) \in CellRec
  BY <1>1, PackedIs
<1> QED BY <1>2, <1>4, <1>5 DEF Quantized, CellRec

LEMMA FakeIs ==
  /\ FakeCell \in CellRec /\ Packed(FakeCell) \in CellRec
  /\ Packed(FakeCell).open = {} /\ Packed(FakeCell).z = -16384
<1>1. FakeCell \in CellRec
  BY DEF FakeCell, CellRec
<1>2. Rounded(-16384) = -16384
  BY DEF Rounded, Truncated
<1> QED BY <1>1, <1>2, PackedIs DEF FakeCell

LEMMA FirstOfOne ==
  ASSUME NEW s, Len(s) = 1
  PROVE  Members(s) = {s[1]}
BY DEF Members

(* A block is flat if each of its columns has one surface.                 *)
LEMMA SimpleIs ==
  ASSUME Cleared, NEW block \in Blocks
  PROVE  Simple(Raw, block) <=> FlatBlock(block)
<1>0. CellsOf(block) \in SUBSET Cells
  BY InBlock
<1>1. ASSUME Simple(Raw, block) PROVE FlatBlock(block)
  <2>1. ASSUME NEW a \in CellsOf(block)
        PROVE  /\ Cardinality(Kept(a)) = 1
               /\ \A i \in Kept(a) : /\ grid[a][i].open = Directions
                                     /\ Raw[a][1].z = Quantized(grid[a][i])
    <3>0. a \in Cells
      BY <1>0
    <3>1. Len(Raw[a]) = 1
      <4>1. ~(Len(Raw[a]) > 1)
        BY <1>1 DEF Simple, Multilayer
      <4> DEFINE l == Len(Raw[a])
      <4>2. l \in Nat /\ l # 0 /\ ~(l > 1)
        BY <3>0, <4>1, RawColumn
      <4> HIDE DEF l
      <4>3. l = 1
        BY <4>2
      <4> QED BY <4>3 DEF l
    <3>2. Members(Raw[a]) = {Raw[a][1]}
      BY <3>1, FirstOfOne
    <3>3. Raw[a][1].open = Compass
      BY <1>1 DEF Simple, Lowest
    <3>4. Kept(a) # {}
      <4>1. Kept(a) = {} => Raw[a][1] = Packed(FakeCell)
        BY <3>0, <3>2, RawColumn
      <4>2. Compass # {}
        BY DEF Compass
      <4> QED BY <3>3, <4>1, <4>2, FakeIs
    <3>5. Cardinality(Kept(a)) = 1
      BY <3>0, <3>1, <3>4, RawColumn
    <3>6. ASSUME NEW i \in Kept(a)
          PROVE  /\ grid[a][i].open = Directions
                 /\ Raw[a][1].z = Quantized(grid[a][i])
      <4>1. Packed(CellOf(grid[a][i])) \in Members(Raw[a])
        BY <3>0, <3>4, RawColumn
      <4>2. Raw[a][1] = Packed(CellOf(grid[a][i]))
        BY <3>2, <4>1
      <4> QED BY <3>0, <3>3, <4>2, CellOfSpan
    <3> QED BY <3>5, <3>6
  <2>2. ASSUME NEW a \in CellsOf(block), NEW b \in CellsOf(block),
               NEW i \in Kept(a), NEW j \in Kept(b)
        PROVE  Quantized(grid[a][i]) - Quantized(grid[b][j]) <= 16
    <3>1. Raw[a][1].z - Raw[b][1].z <= 16
      BY <1>1 DEF Simple, Lowest
    <3> QED BY <2>1, <3>1
  <2> QED BY <2>1, <2>2 DEF FlatBlock
<1>2. ASSUME FlatBlock(block) PROVE Simple(Raw, block)
  <2>1. ASSUME NEW a \in CellsOf(block)
        PROVE  /\ Len(Raw[a]) = 1 /\ Raw[a][1].open = Compass
               /\ \E i \in Kept(a) : Raw[a][1].z = Quantized(grid[a][i])
    <3>0. a \in Cells /\ a \in Columns
      BY <1>0, Sizes
    <3>1. Cardinality(Kept(a)) = 1 /\ \A i \in Kept(a) : grid[a][i].open = Directions
      BY <1>2 DEF FlatBlock
    <3>2. Kept(a) # {}
      BY <3>0, <3>1, KeptIs
    <3>3. Len(Raw[a]) = 1
      BY <3>0, <3>1, <3>2, RawColumn
    <3>4. Raw[a][1] \in Members(Raw[a])
      BY <3>3, FirstOfOne
    <3>5. PICK i \in Kept(a) : Raw[a][1] = Packed(CellOf(grid[a][i]))
      BY <3>0, <3>2, <3>4, RawColumn
    <3>6. grid[a][i].open = Directions
      BY <3>1
    <3>7. Raw[a][1].open = Compass /\ Raw[a][1].z = Quantized(grid[a][i])
      BY <3>0, <3>5, <3>6, CellOfSpan
    <3> QED BY <3>3, <3>7
  <2>2. ~Multilayer(Raw, block)
    <3>1. ASSUME NEW a \in CellsOf(block) PROVE ~(Len(Raw[a]) > 1)
      <4>1. Len(Raw[a]) = 1
        BY <2>1
      <4> QED BY <4>1
    <3> QED BY <3>1 DEF Multilayer
  <2>3. \A cell \in Lowest(Raw, block) : cell.open = Compass
    BY <2>1 DEF Lowest
  <2>4. ASSUME NEW a \in CellsOf(block), NEW b \in CellsOf(block)
        PROVE  Raw[a][1].z - Raw[b][1].z <= 16
    <3>1. PICK i \in Kept(a) : Raw[a][1].z = Quantized(grid[a][i])
      BY <2>1
    <3>2. PICK j \in Kept(b) : Raw[b][1].z = Quantized(grid[b][j])
      BY <2>1
    <3>3. Quantized(grid[a][i]) - Quantized(grid[b][j]) <= 16
      BY <1>2 DEF FlatBlock
    <3> QED BY <3>1, <3>2, <3>3
  <2>5. \A a, b \in Lowest(Raw, block) : a.z - b.z <= 16
    BY <2>4 DEF Lowest
  <2> QED BY <2>2, <2>3, <2>5 DEF Simple
<1> QED BY <1>1, <1>2

-----------------------------------------------------------------------------
(* What compression keeps.                                                 *)

Types3 == {SimpleType, ComplexType, MultilayerType}

(* Every height a multiple of 8.                                           *)
Eights(columns) ==
  \A place \in Cells : \A i \in 1 .. Len(columns[place]) : columns[place][i].z % 8 = 0

LEMMA RawEights ==
  ASSUME Cleared
  PROVE  Eights(Raw)
<1> SUFFICES ASSUME NEW place \in Cells, NEW i \in 1 .. Len(Raw[place])
             PROVE  Raw[place][i].z % 8 = 0
  BY DEF Eights
<1>1. Raw[place][i] \in Members(Raw[place])
  BY DEF Members
<1>2. Put(Built) /\ Members(Raw[place]) = {Packed(cell) : cell \in Built[place]}
  BY BuiltIsPut, BufferedIs DEF Raw
<1>3. PICK cell \in Built[place] : Raw[place][i] = Packed(cell)
  BY <1>1, <1>2
<1>4. cell \in CellRec
  BY <1>2 DEF Put, Distinct
<1> QED BY <1>3, <1>4, PackedIs

LEMMA FirstCell ==
  ASSUME NEW columns, Layered(columns), NEW place \in Cells
  PROVE  /\ columns[place] \in Seq(CellRec) /\ Len(columns[place]) \in Nat \ {0}
         /\ DOMAIN columns[place] = 1 .. Len(columns[place])
         /\ 1 \in 1 .. Len(columns[place])
         /\ \A i \in 1 .. Len(columns[place]) :
              /\ columns[place][i] \in CellRec
              /\ columns[place][i].z \in Int /\ columns[place][i].open \in SUBSET Compass
<1> DEFINE s == columns[place]
           l == Len(s)
<1>1. s \in Seq(CellRec) /\ l \in Nat /\ l # 0
  BY DEF Layered
<1> HIDE DEF s
<1>2. DOMAIN s = 1 .. l /\ \A i \in 1 .. l : s[i] \in CellRec
  BY <1>1
<1> HIDE DEF l
<1>3. 1 \in 1 .. l
  BY <1>1
<1>4. \A i \in 1 .. l : s[i].z \in Int /\ s[i].open \in SUBSET Compass
  BY <1>2 DEF CellRec
<1> QED BY <1>1, <1>2, <1>3, <1>4 DEF l, s

LEMMA MiddleIs ==
  ASSUME NEW columns, Layered(columns), Eights(columns),
         NEW block \in Blocks, Simple(columns, block)
  PROVE  /\ Rounded(MiddleHeight(columns, block)) \in Int
         /\ Rounded(MiddleHeight(columns, block)) % 8 = 0
         /\ \A cell \in Lowest(columns, block) :
              /\ cell.z - Rounded(MiddleHeight(columns, block)) <= 8
              /\ Rounded(MiddleHeight(columns, block)) - cell.z <= 8
         /\ \E low, high \in Lowest(columns, block) :
              /\ low.z <= Rounded(MiddleHeight(columns, block))
              /\ Rounded(MiddleHeight(columns, block)) <= high.z
<1> DEFINE zs == {cell.z : cell \in Lowest(columns, block)}
           min == CHOOSE z \in zs : \A other \in zs : z <= other
           max == CHOOSE z \in zs : \A other \in zs : z >= other
<1>1. \A z \in zs : z \in Int /\ z % 8 = 0
  <2> SUFFICES ASSUME NEW place \in CellsOf(block)
               PROVE  columns[place][1].z \in Int /\ columns[place][1].z % 8 = 0
    BY DEF Lowest
  <2>1. place \in Cells
    BY InBlock
  <2> QED BY <2>1, FirstCell DEF Eights
<1>2. \A a, b \in zs : a - b <= 16
  BY DEF Simple
<1>3. PICK z0 \in zs : TRUE
  <2>1. Origin(block) \in CellsOf(block)
    BY InBlock
  <2> QED BY <2>1 DEF Lowest
<1> HIDE DEF zs
<1>4. \E z \in zs : \A other \in zs : z <= other
  <2> DEFINE T == {n \in Nat : (z0 - 16) + n \in zs}
  <2>1. (z0 - 16) + 16 = z0 /\ 16 \in T
    BY <1>1, <1>3
  <2>2. PICK m \in T : \A k \in T : m <= k
    BY <2>1, LeastNumber
  <2>3. (z0 - 16) + m \in zs
    BY <2>2
  <2>4. ASSUME NEW other \in zs PROVE (z0 - 16) + m <= other
    <3>1. other \in Int /\ z0 \in Int /\ z0 - other <= 16
      BY <1>1, <1>2
    <3>2. other - (z0 - 16) \in Nat /\ (z0 - 16) + (other - (z0 - 16)) = other
      BY <3>1
    <3>3. other - (z0 - 16) \in T
      BY <3>2
    <3>4. m <= other - (z0 - 16) /\ m \in Nat
      BY <2>2, <3>3
    <3> QED BY <3>1, <3>4
  <2> QED BY <2>3, <2>4
<1>5. \E z \in zs : \A other \in zs : z >= other
  <2> DEFINE T == {n \in Nat : (z0 + 16) - n \in zs}
  <2>1. (z0 + 16) - 16 = z0 /\ 16 \in T
    BY <1>1, <1>3
  <2>2. PICK m \in T : \A k \in T : m <= k
    BY <2>1, LeastNumber
  <2>3. (z0 + 16) - m \in zs
    BY <2>2
  <2>4. ASSUME NEW other \in zs PROVE (z0 + 16) - m >= other
    <3>1. other \in Int /\ z0 \in Int /\ other - z0 <= 16
      BY <1>1, <1>2
    <3>2. (z0 + 16) - other \in Nat /\ (z0 + 16) - ((z0 + 16) - other) = other
      BY <3>1
    <3>3. (z0 + 16) - other \in T
      BY <3>2
    <3>4. m <= (z0 + 16) - other /\ m \in Nat
      BY <2>2, <3>3
    <3> QED BY <3>1, <3>4
  <2> QED BY <2>3, <2>4
<1>6. min \in zs /\ \A other \in zs : min <= other
  BY <1>4
<1>7. max \in zs /\ \A other \in zs : max >= other
  BY <1>5
<1>8. MiddleHeight(columns, block) = min + (max - min) \div 2
  BY DEF MiddleHeight, zs
<1> HIDE DEF min, max
<1>9. min \in Int /\ max \in Int /\ min % 8 = 0 /\ max % 8 = 0 /\ max - min <= 16 /\ min <= max
  BY <1>1, <1>2, <1>6, <1>7
<1>10. \/ max = min \/ max = min + 8 \/ max = min + 16
  BY <1>9
<1> DEFINE mid == min + (max - min) \div 2
<1>11. \/ max = min /\ mid = min
       \/ max = min + 8 /\ mid = min + 4
       \/ max = min + 16 /\ mid = min + 8
  <2> DEFINE d == max - min
             half == d \div 2
  <2>1. mid = min + half
    OBVIOUS
  <2>2. d = 0 => half = 0
    OBVIOUS
  <2>3. d = 8 => half = 4
    OBVIOUS
  <2>4. d = 16 => half = 8
    OBVIOUS
  <2> HIDE DEF half, mid
  <2>8. d = max - min
    OBVIOUS
  <2> HIDE DEF d
  <2>5. CASE max = min
    <3>1. d = 0
      BY <1>9, <2>5, <2>8
    <3> QED BY <1>9, <2>1, <2>2, <2>5, <3>1
  <2>6. CASE max = min + 8
    <3>1. d = 8
      BY <1>9, <2>6, <2>8
    <3> QED BY <1>9, <2>1, <2>3, <2>6, <3>1
  <2>7. CASE max = min + 16
    <3>1. d = 16
      BY <1>9, <2>7, <2>8
    <3> QED BY <1>9, <2>1, <2>4, <2>7, <3>1
  <2> QED BY <1>10, <2>5, <2>6, <2>7
<1>12. mid \in Int
  BY <1>9, <1>11
<1> HIDE DEF mid
<1>13. /\ Rounded(mid) \in Int /\ max - Rounded(mid) <= 8 /\ Rounded(mid) - min <= 8
       /\ min <= Rounded(mid) /\ Rounded(mid) <= max
  <2>1. CASE max = min /\ mid = min
    BY <1>9, <2>1 DEF Rounded, Truncated
  <2>2. CASE max = min + 8 /\ mid = min + 4
    BY <1>9, <2>2 DEF Rounded, Truncated
  <2>3. CASE max = min + 16 /\ mid = min + 8
    BY <1>9, <2>3 DEF Rounded, Truncated
  <2> QED BY <1>11, <2>1, <2>2, <2>3
<1>14. ASSUME NEW z \in zs PROVE z - Rounded(mid) <= 8 /\ Rounded(mid) - z <= 8
  BY <1>1, <1>6, <1>7, <1>9, <1>13
<1>15. MiddleHeight(columns, block) = mid
  BY <1>8 DEF mid
<1>16. \E low, high \in Lowest(columns, block) : low.z <= Rounded(mid) /\ Rounded(mid) <= high.z
  BY <1>6, <1>7, <1>13 DEF zs
<1>17. Rounded(mid) % 8 = 0
  BY <1>12, RoundedIs
<1> QED BY <1>13, <1>14, <1>15, <1>16, <1>17 DEF zs

LEMMA CompressedIs ==
  ASSUME NEW columns, Layered(columns), Eights(columns)
  PROVE  /\ \A block \in Blocks : Compressed(columns).types[block] = TypeOf(columns, block)
         /\ Layered(Compressed(columns).columns)
         /\ \A place \in Cells :
              /\ Len(Compressed(columns).columns[place]) = Len(columns[place])
              /\ ~(place = Origin(BlockOf(place)) /\ Simple(columns, BlockOf(place))) =>
                   Compressed(columns).columns[place] = columns[place]
              /\ place = Origin(BlockOf(place)) /\ Simple(columns, BlockOf(place)) =>
                   /\ Compressed(columns).columns[place][1].open = columns[place][1].open
                   /\ Compressed(columns).columns[place][1].z =
                        Rounded(MiddleHeight(columns, BlockOf(place)))
<1> DEFINE c == Compressed(columns).columns
<1>1. \A place \in Cells :
        c[place] = IF place = Origin(BlockOf(place)) /\ Simple(columns, BlockOf(place))
                     THEN [columns[place] EXCEPT ![1].z =
                             Rounded(MiddleHeight(columns, BlockOf(place)))]
                     ELSE columns[place]
  BY DEF Compressed, BlockOf
<1>2. c = [place \in Cells |-> c[place]]
  BY DEF Compressed
<1>3. \A block \in Blocks : Compressed(columns).types[block] = TypeOf(columns, block)
  BY DEF Compressed
<1> HIDE DEF c
<1>4. ASSUME NEW place \in Cells
      PROVE  /\ c[place] \in Seq(CellRec) /\ Len(c[place]) = Len(columns[place])
             /\ Len(c[place]) \in Nat \ {0}
             /\ ~(place = Origin(BlockOf(place)) /\ Simple(columns, BlockOf(place))) =>
                   c[place] = columns[place]
             /\ place = Origin(BlockOf(place)) /\ Simple(columns, BlockOf(place)) =>
                   /\ c[place][1].open = columns[place][1].open
                   /\ c[place][1].z = Rounded(MiddleHeight(columns, BlockOf(place)))
  <2>0. columns[place] \in Seq(CellRec) /\ Len(columns[place]) \in Nat \ {0}
        /\ 1 \in 1 .. Len(columns[place]) /\ columns[place][1] \in CellRec
    BY FirstCell
  <2>1. CASE ~(place = Origin(BlockOf(place)) /\ Simple(columns, BlockOf(place)))
    BY <1>1, <2>0, <2>1
  <2>2. CASE place = Origin(BlockOf(place)) /\ Simple(columns, BlockOf(place))
    <3> DEFINE s == columns[place]
               z == Rounded(MiddleHeight(columns, BlockOf(place)))
    <3>1. z \in Int
      BY <2>2, MiddleIs, CellsOfBlocks
    <3>2. c[place] = [s EXCEPT ![1].z = z]
      BY <1>1, <2>2
    <3>3. s \in Seq(CellRec) /\ 1 \in 1 .. Len(s) /\ s[1] \in CellRec
      BY <2>0
    <3> HIDE DEF s, z
    <3> DEFINE first == [s[1] EXCEPT !.z = z]
    <3>4. first \in CellRec /\ first.z = z /\ first.open = s[1].open
      BY <3>1, <3>3 DEF CellRec
    <3>5. c[place] = [s EXCEPT ![1] = first]
      BY <3>2
    <3> HIDE DEF first
    <3>6. c[place] \in Seq(CellRec) /\ Len(c[place]) = Len(s) /\ c[place][1] = first
      <4> DEFINE t == c[place]
      <4>1. t = [s EXCEPT ![1] = first]
        BY <3>5
      <4> HIDE DEF t
      <4>2. t \in Seq(CellRec) /\ Len(t) = Len(s) /\ t[1] = first
        BY <3>3, <3>4, <4>1
      <4> QED BY <4>2 DEF t
    <3>7. /\ c[place] \in Seq(CellRec) /\ Len(c[place]) = Len(columns[place])
          /\ c[place][1].open = columns[place][1].open /\ c[place][1].z = z
      BY <3>4, <3>6 DEF s
    <3> QED BY <2>0, <2>2, <3>7 DEF z
  <2> QED BY <2>1, <2>2
<1>5. Layered(c)
  BY <1>2, <1>4 DEF Layered
<1> QED BY <1>3, <1>4, <1>5 DEF c

-----------------------------------------------------------------------------
(* The cells of a block.                                                   *)

CellAtRec == [x : Int, y : Int, type : Types3, z : Int, open : SUBSET Compass]

ColumnCells(b, place, type) ==
  [i \in DOMAIN b.columns[place] |-> CellAt(place, type, b.columns[place][i])]
BlockPieces(b, block, type) ==
  [n \in 1 .. BlockArea |-> ColumnCells(b, CellSeq(block)[n], type)]

(* A buffer that was compressed.                                           *)
Typed(b) == Layered(b.columns) /\ \A block \in Blocks : b.types[block] \in Types3

LEMMA CellAtIs ==
  ASSUME NEW place \in Cells, NEW type \in Types3, NEW cell \in CellRec
  PROVE  CellAt(place, type, cell) \in CellAtRec
BY Sizes DEF CellAt, CellAtRec, CellRec, Cells

LEMMA ColumnCellsIs ==
  ASSUME NEW b, Layered(b.columns), NEW place \in Cells, NEW type \in Types3
  PROVE  /\ ColumnCells(b, place, type) \in Seq(CellAtRec)
         /\ Len(ColumnCells(b, place, type)) = Len(b.columns[place])
         /\ DOMAIN ColumnCells(b, place, type) = 1 .. Len(b.columns[place])
         /\ \A i \in 1 .. Len(b.columns[place]) :
              ColumnCells(b, place, type)[i] = CellAt(place, type, b.columns[place][i])
<1> DEFINE s == b.columns[place]
           n == Len(s)
           c == ColumnCells(b, place, type)
<1>1. n \in Nat /\ DOMAIN s = 1 .. n /\ \A i \in 1 .. n : s[i] \in CellRec
  BY FirstCell
<1>2. c = [i \in 1 .. n |-> CellAt(place, type, s[i])]
  BY <1>1 DEF ColumnCells
<1> HIDE DEF n, c, s
<1>3. \A i \in 1 .. n : CellAt(place, type, s[i]) \in CellAtRec
  BY <1>1, CellAtIs
<1>4. c \in [1 .. n -> CellAtRec]
  BY <1>2, <1>3
<1>5. c \in Seq(CellAtRec) /\ Len(c) = n /\ DOMAIN c = 1 .. n
  BY <1>1, <1>4
<1>6. \A i \in 1 .. n : c[i] = CellAt(place, type, s[i])
  BY <1>2
<1> QED BY <1>5, <1>6 DEF n, c, s

LEMMA BlockPiecesIs ==
  ASSUME NEW b, Layered(b.columns), NEW block \in Blocks, NEW type \in Types3
  PROVE  /\ BlockPieces(b, block, type) \in [1 .. BlockArea -> Seq(CellAtRec)]
         /\ \A n \in 1 .. BlockArea :
              BlockPieces(b, block, type)[n] = ColumnCells(b, CellSeq(block)[n], type)
<1>1. \A n \in 1 .. BlockArea : CellSeq(block)[n] \in Cells
  BY CellsInOrder
<1>2. \A n \in 1 .. BlockArea : ColumnCells(b, CellSeq(block)[n], type) \in Seq(CellAtRec)
  BY <1>1, ColumnCellsIs
<1> QED BY <1>2 DEF BlockPieces

LEMMA BlockCellsIs ==
  ASSUME NEW b, Typed(b), NEW block \in Blocks
  PROVE  /\ b.types[block] = SimpleType =>
              BlockCells(b, block) = << CellAt(Origin(block), SimpleType, b.columns[Origin(block)][1]) >>
         /\ b.types[block] = ComplexType =>
              BlockCells(b, block) = [n \in 1 .. BlockArea |->
                CellAt(CellSeq(block)[n], ComplexType, b.columns[CellSeq(block)[n]][1])]
         /\ b.types[block] = MultilayerType =>
              BlockCells(b, block) = FlattenSeq(BlockPieces(b, block, MultilayerType))
<1>1. DOMAIN CellSeq(block) = 1 .. BlockArea
  BY InBlock
<1>2. CASE b.types[block] = SimpleType
  BY <1>2 DEF BlockCells, SimpleType, ComplexType, MultilayerType
<1>3. CASE b.types[block] = ComplexType
  BY <1>1, <1>3 DEF BlockCells, SimpleType, ComplexType, MultilayerType
<1>4. CASE b.types[block] = MultilayerType
  BY <1>1, <1>4 DEF BlockCells, SimpleType, ComplexType, MultilayerType, BlockPieces, ColumnCells
<1> QED BY <1>2, <1>3, <1>4 DEF SimpleType, ComplexType, MultilayerType, Typed, Types3

LEMMA BlockCellsAre ==
  ASSUME NEW b, Typed(b), NEW block \in Blocks
  PROVE  /\ BlockCells(b, block) \in Seq(CellAtRec)
         /\ b.types[block] = SimpleType =>
              Members(BlockCells(b, block)) =
                {CellAt(Origin(block), SimpleType, b.columns[Origin(block)][1])}
         /\ b.types[block] = ComplexType =>
              Members(BlockCells(b, block)) =
                {CellAt(place, ComplexType, b.columns[place][1]) : place \in CellsOf(block)}
         /\ b.types[block] = MultilayerType =>
              Members(BlockCells(b, block)) =
                UNION {{CellAt(place, MultilayerType, b.columns[place][i]) :
                          i \in 1 .. Len(b.columns[place])} : place \in CellsOf(block)}
<1> DEFINE c == BlockCells(b, block)
           places == CellSeq(block)
<1>0. Layered(b.columns) /\ BlockArea \in Nat \ {0}
  BY Sizes DEF Typed
<1>1. /\ \A n \in 1 .. BlockArea : places[n] \in Cells
      /\ CellsOf(block) = {places[n] : n \in 1 .. BlockArea}
      /\ Origin(block) \in Cells
  <2>1. Origin(block) \in Cells
    BY InBlock
  <2> QED BY <2>1, CellsInOrder DEF CellsOf
<1>a. \A place \in Cells : b.columns[place][1] \in CellRec
  BY <1>0, FirstCell
<1>2. CASE b.types[block] = SimpleType
  <2>0. SimpleType \in Types3
    BY DEF Types3
  <2>1. CellAt(Origin(block), SimpleType, b.columns[Origin(block)][1]) \in CellAtRec
    BY <1>1, <1>a, <2>0, CellAtIs
  <2>2. c = << CellAt(Origin(block), SimpleType, b.columns[Origin(block)][1]) >>
    BY <1>2, BlockCellsIs
  <2> DEFINE first == CellAt(Origin(block), SimpleType, b.columns[Origin(block)][1])
  <2> HIDE DEF first, c
  <2>3. c = << first >> /\ first \in CellAtRec
    BY <2>1, <2>2 DEF first
  <2>4. c \in Seq(CellAtRec) /\ Members(c) = {first}
    BY <2>3 DEF Members
  <2> QED BY <1>2, <2>4 DEF first, c, SimpleType, ComplexType, MultilayerType
<1>3. CASE b.types[block] = ComplexType
  <2>0. ComplexType \in Types3
    BY DEF Types3
  <2> DEFINE e(n) == CellAt(places[n], ComplexType, b.columns[places[n]][1])
  <2>1. \A n \in 1 .. BlockArea : e(n) \in CellAtRec
    BY <1>1, <1>a, <2>0, CellAtIs
  <2>2. c = [n \in 1 .. BlockArea |-> e(n)]
    BY <1>3, BlockCellsIs
  <2> HIDE DEF e, c
  <2>3. c \in Seq(CellAtRec) /\ Members(c) = {e(n) : n \in 1 .. BlockArea}
    <3>1. c \in [1 .. BlockArea -> CellAtRec]
      BY <2>1, <2>2
    <3>2. c \in Seq(CellAtRec) /\ Len(c) = BlockArea
      BY <1>0, <3>1
    <3> QED BY <2>2, <3>2 DEF Members
  <2>4. {e(n) : n \in 1 .. BlockArea} =
          {CellAt(place, ComplexType, b.columns[place][1]) : place \in CellsOf(block)}
    BY <1>1 DEF e
  <2>5. b.types[block] # SimpleType /\ b.types[block] # MultilayerType
    BY <1>3 DEF SimpleType, ComplexType, MultilayerType
  <2> QED BY <2>3, <2>4, <2>5 DEF c
<1>4. CASE b.types[block] = MultilayerType
  <2>0. MultilayerType \in Types3
    BY DEF Types3
  <2> DEFINE s == BlockPieces(b, block, MultilayerType)
  <2>1. /\ s \in [1 .. BlockArea -> Seq(CellAtRec)]
        /\ \A n \in 1 .. BlockArea : s[n] = ColumnCells(b, places[n], MultilayerType)
    BY <1>0, <2>0, BlockPiecesIs
  <2>2. c = FlattenSeq(s)
    BY <1>4, BlockCellsIs
  <2> HIDE DEF s, c
  <2>3. c \in Seq(CellAtRec) /\ Members(c) = UNION {Members(s[n]) : n \in 1 .. BlockArea}
    BY <1>0, <2>1, <2>2, FlattenIs
  <2>4. ASSUME NEW place \in Cells
        PROVE  Members(ColumnCells(b, place, MultilayerType)) =
                 {CellAt(place, MultilayerType, b.columns[place][i]) : i \in 1 .. Len(b.columns[place])}
    BY <1>0, <2>0, ColumnCellsIs DEF Members
  <2>5. \A n \in 1 .. BlockArea :
          Members(s[n]) = {CellAt(places[n], MultilayerType, b.columns[places[n]][i]) :
                             i \in 1 .. Len(b.columns[places[n]])}
    BY <1>1, <2>1, <2>4
  <2>6. UNION {Members(s[n]) : n \in 1 .. BlockArea} =
          UNION {{CellAt(place, MultilayerType, b.columns[place][i]) :
                    i \in 1 .. Len(b.columns[place])} : place \in CellsOf(block)}
    <3> DEFINE those(place) == {CellAt(place, MultilayerType, b.columns[place][i]) :
                                  i \in 1 .. Len(b.columns[place])}
    <3>1. \A n \in 1 .. BlockArea : Members(s[n]) = those(places[n])
      BY <2>5
    <3> HIDE DEF those
    <3>2. UNION {Members(s[n]) : n \in 1 .. BlockArea} =
            UNION {those(place) : place \in CellsOf(block)}
      BY <1>1, <3>1
    <3> QED BY <3>2 DEF those
  <2>7. b.types[block] # SimpleType /\ b.types[block] # ComplexType
    BY <1>4 DEF SimpleType, ComplexType, MultilayerType
  <2> QED BY <2>3, <2>6, <2>7 DEF c
<1> QED BY <1>2, <1>3, <1>4 DEF Typed, Types3

-----------------------------------------------------------------------------
(* What is rejected.                                                       *)

Sealed == Compressed(Raw)
NoOverflow == \A column \in Columns : \A i \in Kept(column) : ~Overflows(grid[column][i])

DataInv ==
  /\ PassInv
  /\ phase \in {"reset", "compress", "l2j", "dat", "done"} => NoOverflow /\ cells = Built
  /\ phase = "compress" => buffer = Raw
  /\ phase \in {"compress", "l2j", "dat", "done"} => ~TooManyLayers(Built)
  /\ phase \in {"l2j", "dat", "done"} => buffer = Sealed
  /\ phase \in {"dat", "done"} => ~Refused(Sealed) /\ l2j = L2JStream(Sealed)
  /\ phase = "done" => dat = PtsStream(Sealed)
  /\ phase = "rejected" => ~NoOverflow \/ TooManyLayers(Built) \/ Refused(Sealed)

LEMMA DataInit == Init => DataInv
<1> SUFFICES ASSUME Init PROVE DataInv
  OBVIOUS
<1>1. PassInv /\ phase = "filter"
  BY PassInit DEF Init
<1> QED BY <1>1 DEF DataInv

LEMMA DataStep == DataInv /\ [Next]_vars => DataInv'
<1> SUFFICES ASSUME DataInv, [Next]_vars PROVE DataInv'
  OBVIOUS
<1>0. PassInv'
  BY PassStep DEF DataInv
<1>1. CASE Filter \/ ScanColumn \/ SweepColumn
  <2>1. phase' \in {"filter", "simple", "complex", "convert"}
    BY <1>1 DEF Filter, ScanColumn, SweepColumn, Advance
  <2> QED BY <1>0, <2>1 DEF DataInv
<1>2. CASE UNCHANGED <<grid, elevation>>
           /\ (Convert \/ ConvertOverflows \/ Reset \/ ResetOverflows \/ Compress \/ WriteL2J
               \/ WriteL2JFails \/ WritePts \/ UNCHANGED vars)
  <2>1. Built' = Built /\ NoOverflow' = NoOverflow
    BY <1>2 DEF Built, NoOverflow, Kept, CellOf, Overflows, Surface
  <2>2. Raw' = Raw
    BY <2>1 DEF Raw
  <2>3. Sealed' = Sealed
    BY <2>2 DEF Sealed
  <2>4. TooManyLayers(Built)' = TooManyLayers(Built) /\ Refused(Sealed)' = Refused(Sealed)
    BY <2>1, <2>3 DEF TooManyLayers, Refused, BlockCells, OutOfRange
  <2>5. L2JStream(Sealed)' = L2JStream(Sealed) /\ PtsStream(Sealed)' = PtsStream(Sealed)
    BY <2>3
  <2>6. CASE Convert
    BY <1>0, <2>1, <2>6 DEF Convert, DataInv, NoOverflow
  <2>7. CASE ConvertOverflows
    BY <1>0, <2>1, <2>7 DEF ConvertOverflows, Reject, DataInv, NoOverflow
  <2>8. CASE Reset
    BY <1>0, <2>1, <2>2, <2>4, <2>8 DEF Reset, DataInv, Raw
  <2>9. CASE ResetOverflows
    BY <1>0, <2>1, <2>4, <2>9 DEF ResetOverflows, Reject, DataInv
  <2>10. CASE Compress
    BY <1>0, <2>1, <2>3, <2>4, <2>10 DEF Compress, DataInv, Sealed
  <2>11. CASE WriteL2J
    BY <1>0, <2>1, <2>3, <2>4, <2>5, <2>11 DEF WriteL2J, DataInv
  <2>12. CASE WriteL2JFails
    BY <1>0, <2>4, <2>12 DEF WriteL2JFails, Reject, DataInv
  <2>13. CASE WritePts
    BY <1>0, <2>1, <2>3, <2>4, <2>5, <2>13 DEF WritePts, DataInv
  <2>14. CASE UNCHANGED vars
    BY <1>0, <2>1, <2>2, <2>3, <2>4, <2>5, <2>14 DEF vars, DataInv
  <2> QED BY <1>2, <2>6, <2>7, <2>8, <2>9, <2>10, <2>11, <2>12, <2>13, <2>14
<1> QED BY <1>1, <1>2
  DEF Next, vars, Convert, ConvertOverflows, Reset, ResetOverflows, Compress, WriteL2J,
      WriteL2JFails, WritePts, Finished, Reject

LEMMA ClearedIs == PassInv /\ phase # "filter" => Cleared
BY RegionAssumption DEF PassInv, Cleared, RegionAssumption

LEMMA SealedIs ==
  ASSUME Cleared
  PROVE  /\ Typed(Sealed)
         /\ \A block \in Blocks :
              /\ Sealed.types[block] = TypeOf(Raw, block)
              /\ Sealed.types[block] = SimpleType <=> Simple(Raw, block)
              /\ Sealed.types[block] = MultilayerType <=> Multilayer(Raw, block)
         /\ \A place \in Cells :
              /\ Len(Sealed.columns[place]) = Len(Raw[place])
              /\ ~Simple(Raw, BlockOf(place)) => Sealed.columns[place] = Raw[place]
<1>1. Layered(Raw) /\ Eights(Raw)
  BY BuiltIsPut, RawEights
<1>2. /\ \A block \in Blocks : Sealed.types[block] = TypeOf(Raw, block)
      /\ Layered(Sealed.columns)
      /\ \A place \in Cells :
           /\ Len(Sealed.columns[place]) = Len(Raw[place])
           /\ ~Simple(Raw, BlockOf(place)) => Sealed.columns[place] = Raw[place]
  BY <1>1, CompressedIs DEF Sealed
<1>3. \A block \in Blocks : /\ TypeOf(Raw, block) \in Types3
                            /\ TypeOf(Raw, block) = SimpleType <=> Simple(Raw, block)
                            /\ TypeOf(Raw, block) = MultilayerType <=> Multilayer(Raw, block)
  BY DEF TypeOf, Types3, SimpleType, ComplexType, MultilayerType, Simple
<1> QED BY <1>2, <1>3 DEF Typed

LEMMA HeightsOfBlock ==
  ASSUME Cleared, NEW block \in Blocks, ~Simple(Raw, block)
  PROVE  {c.z : c \in Members(BlockCells(Sealed, block))} =
           UNION {{cell.z : cell \in Members(Raw[place])} : place \in CellsOf(block)}
<1>0. /\ CellsOf(block) \in SUBSET Cells
      /\ \A place \in CellsOf(block) : BlockOf(place) = block
  BY InBlock
<1>1. Typed(Sealed)
  BY SealedIs
<1>2. \A place \in CellsOf(block) : Sealed.columns[place] = Raw[place]
  BY <1>0, SealedIs
<1>3. \A place, type, cell : CellAt(place, type, cell).z = cell.z
  BY DEF CellAt
<1>4. CASE Multilayer(Raw, block)
  <2>1. Members(BlockCells(Sealed, block)) =
          UNION {{CellAt(place, MultilayerType, Sealed.columns[place][i]) :
                    i \in 1 .. Len(Sealed.columns[place])} : place \in CellsOf(block)}
    BY <1>1, <1>4, SealedIs, BlockCellsAre
  <2>2. Members(BlockCells(Sealed, block)) =
          UNION {{CellAt(place, MultilayerType, Raw[place][i]) :
                    i \in 1 .. Len(Raw[place])} : place \in CellsOf(block)}
    BY <1>2, <2>1
  <2> DEFINE A(place) == {CellAt(place, MultilayerType, Raw[place][i]) : i \in 1 .. Len(Raw[place])}
             B(place) == {cell.z : cell \in Members(Raw[place])}
  <2>3. ASSUME NEW place PROVE {c.z : c \in A(place)} = B(place)
    <3>1. \A i \in 1 .. Len(Raw[place]) :
            CellAt(place, MultilayerType, Raw[place][i]).z = Raw[place][i].z
      BY <1>3
    <3>2. Members(Raw[place]) = {Raw[place][i] : i \in 1 .. Len(Raw[place])}
      BY DEF Members
    <3> QED BY <3>1, <3>2
  <2> HIDE DEF A, B
  <2>4. Members(BlockCells(Sealed, block)) = UNION {A(place) : place \in CellsOf(block)}
    BY <2>2 DEF A
  <2>5. {c.z : c \in UNION {A(place) : place \in CellsOf(block)}} =
          UNION {{c.z : c \in A(place)} : place \in CellsOf(block)}
    OBVIOUS
  <2>6. UNION {{c.z : c \in A(place)} : place \in CellsOf(block)} =
          UNION {B(place) : place \in CellsOf(block)}
    BY <2>3
  <2> QED BY <2>4, <2>5, <2>6 DEF B
<1>5. CASE ~Multilayer(Raw, block)
  <2>1. Sealed.types[block] = ComplexType
    BY <1>1, <1>5, SealedIs DEF Typed, Types3
  <2>2. Members(BlockCells(Sealed, block)) =
          {CellAt(place, ComplexType, Sealed.columns[place][1]) : place \in CellsOf(block)}
    BY <1>1, <2>1, BlockCellsAre
  <2>3. ASSUME NEW place \in CellsOf(block) PROVE Members(Raw[place]) = {Raw[place][1]}
    <3> DEFINE l == Len(Raw[place])
    <3>1. l \in Nat /\ l # 0
      BY <1>0, RawColumn
    <3>2. ~(l > 1)
      BY <1>5 DEF Multilayer
    <3> HIDE DEF l
    <3>3. l = 1
      BY <3>1, <3>2
    <3> QED BY <3>3, FirstOfOne DEF l
  <2>4. Members(BlockCells(Sealed, block)) =
          {CellAt(place, ComplexType, Raw[place][1]) : place \in CellsOf(block)}
    BY <1>2, <2>2
  <2> QED BY <1>3, <2>3, <2>4
<1> QED BY <1>4, <1>5

InRange(z) == Within(z, -16384, 16376)
HasHeight(span) == Within(Surface(span), -65536, 65534)

LEMMA RefusedIs ==
  ASSUME Cleared
  PROVE  Refused(Sealed) <=>
           \E block \in Blocks :
             /\ ~FlatBlock(block)
             /\ \E place \in CellsOf(block) : \E i \in Kept(place) :
                  ~InRange(Quantized(grid[place][i]))
<1>1. ASSUME NEW block \in Blocks
      PROVE  /\ Sealed.types[block] # SimpleType <=> ~FlatBlock(block)
             /\ ~FlatBlock(block) =>
                  ((\E n \in DOMAIN BlockCells(Sealed, block) :
                      OutOfRange(BlockCells(Sealed, block)[n]))
                   <=> \E place \in CellsOf(block) : \E i \in Kept(place) :
                         ~InRange(Quantized(grid[place][i])))
  <2>1. Sealed.types[block] # SimpleType <=> ~FlatBlock(block)
    BY SealedIs, SimpleIs
  <2> SUFFICES ASSUME ~FlatBlock(block)
               PROVE  (\E n \in DOMAIN BlockCells(Sealed, block) :
                         OutOfRange(BlockCells(Sealed, block)[n]))
                      <=> \E place \in CellsOf(block) : \E i \in Kept(place) :
                            ~InRange(Quantized(grid[place][i]))
    BY <2>1
  <2> DEFINE c == BlockCells(Sealed, block)
  <2>2. c \in Seq(CellAtRec)
    BY SealedIs, BlockCellsAre
  <2>3. {a.z : a \in Members(c)} =
          UNION {{cell.z : cell \in Members(Raw[place])} : place \in CellsOf(block)}
    BY SimpleIs, HeightsOfBlock
  <2> HIDE DEF c
  <2>4. (\E n \in DOMAIN c : OutOfRange(c[n])) <=> \E a \in Members(c) : ~InRange(a.z)
    <3>1. DOMAIN c = 1 .. Len(c) /\ \A n \in DOMAIN c : c[n].z \in Int
      <4>1. DOMAIN c = 1 .. Len(c) /\ \A n \in DOMAIN c : c[n] \in CellAtRec
        BY <2>2
      <4> QED BY <4>1 DEF CellAtRec
    <3>2. \A n \in DOMAIN c : OutOfRange(c[n]) <=> ~InRange(c[n].z)
      BY <3>1 DEF OutOfRange, InRange, Within
    <3> QED BY <3>1, <3>2 DEF Members
  <2>5. (\E a \in Members(c) : ~InRange(a.z)) <=>
          \E place \in CellsOf(block) : \E cell \in Members(Raw[place]) : ~InRange(cell.z)
    <3>1. (\E a \in Members(c) : ~InRange(a.z)) <=> \E z \in {a.z : a \in Members(c)} : ~InRange(z)
      OBVIOUS
    <3>2. (\E z \in UNION {{cell.z : cell \in Members(Raw[place])} : place \in CellsOf(block)} : ~InRange(z))
          <=> \E place \in CellsOf(block) : \E cell \in Members(Raw[place]) : ~InRange(cell.z)
      OBVIOUS
    <3> QED BY <2>3, <3>1, <3>2
  <2>6. ASSUME NEW place \in CellsOf(block)
        PROVE  (\E cell \in Members(Raw[place]) : ~InRange(cell.z)) <=>
               \E i \in Kept(place) : ~InRange(Quantized(grid[place][i]))
    <3>0. place \in Cells
      BY InBlock
    <3>1. CASE Kept(place) = {}
      <4>1. Members(Raw[place]) = {Packed(FakeCell)}
        BY <3>0, <3>1, RawColumn
      <4>2. InRange(Packed(FakeCell).z)
        BY FakeIs DEF InRange, Within
      <4> QED BY <3>1, <4>1, <4>2
    <3>2. CASE Kept(place) # {}
      <4>1. Members(Raw[place]) = {Packed(CellOf(grid[place][i])) : i \in Kept(place)}
        BY <3>0, <3>2, RawColumn
      <4>2. \A i \in Kept(place) : /\ Packed(CellOf(grid[place][i])).z = Quantized(grid[place][i])
                                   /\ Quantized(grid[place][i]) \in Int
        BY <3>0, CellOfSpan
      <4>3. \A i \in Kept(place) :
              ~InRange(Packed(CellOf(grid[place][i])).z) <=>
                ~InRange(Quantized(grid[place][i]))
        BY <4>2
      <4> QED BY <4>1, <4>3
    <3> QED BY <3>1, <3>2
  <2> QED BY <2>4, <2>5, <2>6 DEF c
<1> QED BY <1>1 DEF Refused

LEMMA TooManyIs ==
  ASSUME Cleared
  PROVE  TooManyLayers(Built) <=>
           \E column \in Columns : Cardinality(Kept(column)) > MaxLayers
<1>1. ASSUME NEW column \in Columns
      PROVE  Cardinality(Built[column]) > MaxLayers <=> Cardinality(Kept(column)) > MaxLayers
  <2> DEFINE k == Cardinality(Kept(column))
             n == Cardinality(Built[column])
  <2>1. k \in Nat /\ (Kept(column) = {} <=> k = 0) /\ n = IF Kept(column) = {} THEN 1 ELSE k
    BY KeptIs, BuiltColumn
  <2> HIDE DEF k, n
  <2>2. n > MaxLayers <=> k > MaxLayers
    BY <2>1, Sizes
  <2> QED BY <2>2 DEF k, n
<1> QED BY <1>1, Sizes DEF TooManyLayers

LEMMA OverflowIs ==
  ASSUME Cleared
  PROVE  NoOverflow <=> \A column \in Columns : \A i \in Kept(column) :
                          HasHeight(grid[column][i])
<1>1. ASSUME NEW column \in Columns, NEW i \in Kept(column)
      PROVE  ~Overflows(grid[column][i]) <=> HasHeight(grid[column][i])
  <2> DEFINE s == Surface(grid[column][i])
  <2>1. s \in Int
    BY SurfaceIs DEF Kept
  <2>2. Overflows(grid[column][i]) <=> s < -65536 \/ s > 65534
    BY DEF Overflows
  <2> HIDE DEF s
  <2>3. ~(s < -65536 \/ s > 65534) <=> Within(s, -65536, 65534)
    BY <2>1 DEF Within
  <2> QED BY <2>2, <2>3 DEF s, HasHeight
<1> QED BY <1>1 DEF NoOverflow

LEMMA RepresentableIs ==
  ASSUME Cleared
  PROVE  Representable <=> NoOverflow /\ ~TooManyLayers(Built) /\ ~Refused(Sealed)
<1>1. \A column \in Columns :
        Cardinality(Kept(column)) <= MaxLayers <=> ~(Cardinality(Kept(column)) > MaxLayers)
  <2> SUFFICES ASSUME NEW column \in Columns
               PROVE  Cardinality(Kept(column)) <= MaxLayers <=> ~(Cardinality(Kept(column)) > MaxLayers)
    OBVIOUS
  <2> DEFINE k == Cardinality(Kept(column))
  <2>1. k \in Nat
    BY KeptIs
  <2> HIDE DEF k
  <2>2. k <= MaxLayers <=> ~(k > MaxLayers)
    BY <2>1, Sizes
  <2> QED BY <2>2 DEF k
<1>2. (\A column \in Columns : Cardinality(Kept(column)) <= MaxLayers) <=> ~TooManyLayers(Built)
  BY <1>1, TooManyIs
<1>3. (\A block \in Blocks :
         \/ FlatBlock(block)
         \/ \A column \in CellsOf(block) : \A i \in Kept(column) :
              InRange(Quantized(grid[column][i]))) <=> ~Refused(Sealed)
  BY RefusedIs
<1>4. NoOverflow <=> \A column \in Columns : \A i \in Kept(column) :
                       HasHeight(grid[column][i])
  BY OverflowIs
<1> QED BY <1>2, <1>3, <1>4 DEF Representable, InRange, HasHeight

THEOREM DataInvariant == Spec => []DataInv
BY DataInit, DataStep, PTL DEF Spec

(* OnlyUnrepresentableIsRejected, of every region: a region is written if  *)
(* and only if the formats can hold it (Builder.cpp:61-69,                 *)
(* ExportBuffer.cpp:43-47, PackedHeight.h:12-19).                          *)
THEOREM RejectsTheUnrepresentable == Spec => []OnlyUnrepresentableIsRejected
<1>1. DataInv => OnlyUnrepresentableIsRejected
  <2> SUFFICES ASSUME DataInv PROVE OnlyUnrepresentableIsRejected
    OBVIOUS
  <2>1. CASE phase = "done"
    <3>1. NoOverflow /\ ~TooManyLayers(Built) /\ ~Refused(Sealed) /\ PassInv
      BY <2>1 DEF DataInv
    <3> QED BY <2>1, <3>1, ClearedIs, RepresentableIs DEF OnlyUnrepresentableIsRejected
  <2>2. CASE phase = "rejected"
    <3>1. ~(NoOverflow /\ ~TooManyLayers(Built) /\ ~Refused(Sealed)) /\ PassInv
      BY <2>2 DEF DataInv
    <3> QED BY <2>2, <3>1, ClearedIs, RepresentableIs DEF OnlyUnrepresentableIsRejected
  <2> QED BY <2>1, <2>2 DEF OnlyUnrepresentableIsRejected
<1> QED BY <1>1, DataInvariant, PTL

-----------------------------------------------------------------------------
(* What a number of the streams says.                                      *)

LEMMA OpenReadsBack ==
  ASSUME NEW open \in SUBSET Compass
  PROVE  Nswe(open) \in 0 .. 15 /\ OpenOf(Nswe(open)) = open
<1> DEFINE n == IF "north" \in open THEN 8 ELSE 0
           s == IF "south" \in open THEN 4 ELSE 0
           w == IF "west" \in open THEN 2 ELSE 0
           e == IF "east" \in open THEN 1 ELSE 0
<1>1. Nswe(open) = n + s + w + e
  BY DEF Nswe, Bit
<1>2. /\ n \in {0, 8} /\ s \in {0, 4} /\ w \in {0, 2} /\ e \in {0, 1}
      /\ n = 8 <=> "north" \in open
      /\ s = 4 <=> "south" \in open
      /\ w = 2 <=> "west" \in open
      /\ e = 1 <=> "east" \in open
  OBVIOUS
<1> HIDE DEF n, s, w, e
<1> DEFINE word == n + s + w + e
<1>3. /\ word \in 0 .. 15
      /\ (word \div 8) % 2 = 1 <=> n = 8
      /\ (word \div 4) % 2 = 1 <=> s = 4
      /\ (word \div 2) % 2 = 1 <=> w = 2
      /\ (word \div 1) % 2 = 1 <=> e = 1
  BY <1>2
<1> HIDE DEF word
<1>4. OpenOf(word) = open
  <2>1. \A name \in Compass : (word \div Bit(name)) % 2 = 1 <=> name \in open
    BY <1>2, <1>3 DEF Compass, Bit
  <2> QED BY <2>1 DEF OpenOf
<1> QED BY <1>1, <1>3, <1>4 DEF word

LEMMA NothingIsOpen == OpenOf(0) = {}
<1>1. /\ 0 \div 8 = 0 /\ 0 \div 4 = 0 /\ 0 \div 2 = 0 /\ 0 \div 1 = 0 /\ 0 % 2 = 0
  OBVIOUS
<1> QED BY <1>1 DEF OpenOf, Compass, Bit

LEMMA WordsAgree ==
  ASSUME NEW z \in Int, z % 8 = 0, NEW open \in SUBSET Compass
  PROVE  /\ L2JWord(z, open) = PtsWord(z, open)
         /\ L2JWord(z, open) = Unsigned(2 * z + Nswe(open))
         /\ L2JWord(z, open) \in Nat
<1>1. (2 * z) % 16 = 0
  OBVIOUS
<1>2. open \cup OpenOf(0) = open
  BY NothingIsOpen
<1>3. Nswe(open) \in Nat
  BY OpenReadsBack
<1>4. (2 * z) - 0 + Nswe(open) = 2 * z + Nswe(open) /\ 2 * z + Nswe(open) \in Int
  BY <1>3
<1>5. Unsigned(2 * z + Nswe(open)) \in Nat
  BY <1>4 DEF Unsigned
<1>6. L2JWord(z, open) = Unsigned((2 * z) - 0 + Nswe(open))
  BY <1>1, <1>2 DEF L2JWord
<1>7. PtsWord(z, open) = Unsigned((2 * z) - 0 + Nswe(open))
  BY <1>1 DEF PtsWord
<1> QED BY <1>4, <1>5, <1>6, <1>7

LEMMA WordReadsBack ==
  ASSUME NEW z \in Int, z % 8 = 0, InRange(z), NEW open \in SUBSET Compass
  PROVE  /\ HeightOf(L2JWord(z, open)) = z
         /\ OpenOf(L2JWord(z, open) % 16) = open
<1> DEFINE k == Nswe(open)
           word == Unsigned(2 * z + k)
<1>1. k \in 0 .. 15 /\ OpenOf(k) = open
  BY OpenReadsBack
<1>2. L2JWord(z, open) = word
  BY WordsAgree
<1> HIDE DEF k
<1>3. z >= -16384 /\ z <= 16376
  BY DEF InRange, Within
<1>4. word = IF z >= 0 THEN 2 * z + k ELSE 2 * z + k + 65536
  BY <1>1, <1>3 DEF Unsigned
<1> HIDE DEF word
<1>5. word % 16 = k
  BY <1>1, <1>3, <1>4
<1>6. word - k = IF z >= 0 THEN 2 * z ELSE 2 * z + 65536
  BY <1>1, <1>4
<1>7. Signed(word - k) = 2 * z
  BY <1>3, <1>6 DEF Signed
<1>8. (2 * z) \div 2 = z
  OBVIOUS
<1> QED BY <1>1, <1>2, <1>5, <1>7, <1>8 DEF HeightOf

LEMMA HeightReadsBack ==
  ASSUME NEW z \in Int, -32768 <= z, z <= 32767
  PROVE  Signed(Unsigned(z)) = z /\ Unsigned(z) \in Nat
BY DEF Signed, Unsigned

LEMMA CellReadsBack ==
  ASSUME NEW cell \in CellRec, cell.z % 8 = 0, InRange(cell.z), NEW place, NEW type
  PROVE  ReadCell(L2JWord(cell.z, cell.open), place, type) = CellAt(place, type, cell)
<1>1. cell.z \in Int /\ cell.open \in SUBSET Compass
  BY DEF CellRec
<1>2. /\ HeightOf(L2JWord(cell.z, cell.open)) = cell.z
      /\ OpenOf(L2JWord(cell.z, cell.open) % 16) = cell.open
  BY <1>1, WordReadsBack
<1> QED BY <1>2 DEF ReadCell, CellAt

(* Two that start alike and go on alike.                                   *)
LEMMA Alike ==
  ASSUME NEW n \in Nat, NEW g, NEW w, g[0] = w[0],
         \A k \in 1 .. n : g[k - 1] = w[k - 1] => g[k] = w[k]
  PROVE  g[n] = w[n]
<1> DEFINE T == {m \in Nat : m <= n => g[m] = w[m]}
<1>1. 0 \in T
  OBVIOUS
<1>2. ASSUME NEW m \in T PROVE m + 1 \in T
  <2>0. m \in Nat /\ m + 1 \in Nat /\ (m + 1) - 1 = m
    OBVIOUS
  <2>a. m <= n => g[m] = w[m]
    OBVIOUS
  <2> SUFFICES ASSUME m + 1 <= n PROVE g[m + 1] = w[m + 1]
    BY <2>0
  <2> HIDE DEF T
  <2>1. m <= n /\ m + 1 \in 1 .. n
    BY <2>0
  <2> QED BY <2>0, <2>a, <2>1
<1>3. T = Nat
  <2> HIDE DEF T
  <2>1. T \in SUBSET Nat
    BY DEF T
  <2> QED BY <1>1, <1>2, <2>1, NumbersInduction
<1>4. n \in T
  BY <1>3
<1> QED BY <1>4

LEMMA ReadMultilayerIs ==
  ASSUME NEW stream, NEW block \in Blocks, NEW D,
         NEW w \in [0 .. BlockArea -> D],
         \A k \in 1 .. BlockArea : w[k] = ReadColumn(stream, w[k - 1], CellSeq(block)[k])
  PROVE  ReadMultilayer(stream, w[0], block) = w[BlockArea]
<1> DEFINE n == BlockArea
           body(g) == [k \in 0 .. n |-> IF k = 0 THEN w[0]
                                        ELSE ReadColumn(stream, g[k - 1], CellSeq(block)[k])]
           f == CHOOSE g : g = body(g)
<1>0. Len(CellSeq(block)) = n /\ n \in Nat
  BY InBlock, Sizes
<1>1. ReadMultilayer(stream, w[0], block) = f[n]
  BY <1>0 DEF ReadMultilayer, Through
<1>2. w = body(w)
  <2>1. ASSUME NEW k \in 0 .. n
        PROVE  w[k] = IF k = 0 THEN w[0] ELSE ReadColumn(stream, w[k - 1], CellSeq(block)[k])
    <3>1. CASE k = 0
      BY <3>1
    <3>2. CASE k # 0
      <4>1. k \in 1 .. n
        BY <1>0, <3>2
      <4> QED BY <3>2, <4>1
    <3> QED BY <3>1, <3>2
  <2> QED BY <2>1
<1>3. f = body(f)
  BY <1>2
<1> HIDE DEF f
<1>4. f[0] = w[0]
  BY <1>0, <1>3
<1>5. \A k \in 1 .. n : f[k] = ReadColumn(stream, f[k - 1], CellSeq(block)[k])
  <2> SUFFICES ASSUME NEW k \in 1 .. n
               PROVE  f[k] = ReadColumn(stream, f[k - 1], CellSeq(block)[k])
    OBVIOUS
  <2>1. k \in 0 .. n /\ k # 0
    BY <1>0
  <2> QED BY <1>3, <2>1
<1> HIDE DEF body
<1>6. ASSUME NEW k \in 1 .. n, f[k - 1] = w[k - 1] PROVE f[k] = w[k]
  BY <1>5, <1>6
<1>a. f[0] = w[0] /\ n \in Nat
  BY <1>0, <1>4
<1>b. \A k \in 1 .. n : f[k - 1] = w[k - 1] => f[k] = w[k]
  BY <1>6
<1> HIDE DEF n
<1>7. f[n] = w[n]
  BY <1>a, <1>b, Alike
<1> QED BY <1>1, <1>7 DEF n

-----------------------------------------------------------------------------
(* The folds of the formats, followed from place to place.                 *)

LEMMA SeqOfBlocks == Len(BlockSeq) = BlocksX * BlocksY /\ BlocksX * BlocksY \in Nat /\ DOMAIN BlockSeq = 1 .. BlocksX * BlocksY
<1>1. BlockSeq \in [1 .. BlocksX * BlocksY -> Blocks] /\ BlocksX * BlocksY \in Nat
  BY BlocksInOrder, Sizes
<1> QED BY <1>1

LEMMA LayersIs ==
  ASSUME NEW b, NEW block \in Blocks, NEW D, NEW w \in [0 .. BlockArea -> D], w[0] = 0,
         \A k \in 1 .. BlockArea : w[k] = w[k - 1] + Len(b.columns[CellSeq(block)[k]])
  PROVE  Layers(b, block) = w[BlockArea]
<1> DEFINE n == BlockArea
           body(g) == [k \in 0 .. n |-> IF k = 0 THEN 0
                                        ELSE g[k - 1] + Len(b.columns[CellSeq(block)[k]])]
           f == CHOOSE g : g = body(g)
<1>0. Len(CellSeq(block)) = n /\ n \in Nat
  BY InBlock, Sizes
<1>1. Layers(b, block) = f[n]
  BY <1>0 DEF Layers, Through
<1>2. w = body(w)
  <2>1. ASSUME NEW k \in 0 .. n
        PROVE  w[k] = IF k = 0 THEN 0 ELSE w[k - 1] + Len(b.columns[CellSeq(block)[k]])
    <3>1. CASE k = 0
      BY <3>1
    <3>2. CASE k # 0
      <4>1. k \in 1 .. n
        BY <1>0, <3>2
      <4> QED BY <3>2, <4>1
    <3> QED BY <3>1, <3>2
  <2> QED BY <2>1
<1>3. f = body(f)
  BY <1>2
<1> HIDE DEF f
<1>4. f[0] = w[0]
  BY <1>0, <1>3
<1>5. ASSUME NEW k \in 1 .. n, f[k - 1] = w[k - 1] PROVE f[k] = w[k]
  <2>1. k \in 0 .. n /\ k # 0
    BY <1>0
  <2>2. f[k] = f[k - 1] + Len(b.columns[CellSeq(block)[k]])
    BY <1>3, <2>1
  <2> QED BY <1>5, <2>2
<1> HIDE DEF body
<1>6. \A k \in 1 .. n : f[k - 1] = w[k - 1] => f[k] = w[k]
  BY <1>5
<1>7. n \in Nat
  BY <1>0
<1> HIDE DEF n
<1>8. f[n] = w[n]
  BY <1>4, <1>6, <1>7, Alike
<1> QED BY <1>1, <1>8 DEF n

(* The flat blocks of a stream.                                            *)
FlatBlocks(b) == {x \in Blocks : PtsType(b, x) = SimpleType}

LEMMA HeaderIs ==
  ASSUME NEW b, NEW D, NEW w \in [0 .. BlocksX * BlocksY -> D], w[0] = 0,
         \A k \in 1 .. BlocksX * BlocksY : w[k] = w[k - 1] + (IF BlockSeq[k] \in FlatBlocks(b) THEN 0 ELSE Layers(b, BlockSeq[k]))
  PROVE  /\ PtsHeader(b)[1] = w[BlocksX * BlocksY] /\ PtsHeader(b)[3] = Cardinality(FlatBlocks(b))
         /\ Len(PtsHeader(b)) = 3
<1> DEFINE n == BlocksX * BlocksY
           body(g) == [k \in 0 .. n |-> IF k = 0 THEN 0
                                        ELSE g[k - 1] + (IF BlockSeq[k] \in FlatBlocks(b) THEN 0 ELSE Layers(b, BlockSeq[k]))]
           f == CHOOSE g : g = body(g)
<1>0. Len(BlockSeq) = n /\ n \in Nat
  BY SeqOfBlocks
<1>1. PtsHeader(b) = << f[n], Cardinality(FlatBlocks(b)) + Cardinality({x \in Blocks : PtsType(b, x) = ComplexType}),
                         Cardinality(FlatBlocks(b)) >>
  BY <1>0 DEF PtsHeader, FlatBlocks, Through
<1>2. w = body(w)
  <2>1. ASSUME NEW k \in 0 .. n
        PROVE  w[k] = IF k = 0 THEN 0 ELSE w[k - 1] + (IF BlockSeq[k] \in FlatBlocks(b) THEN 0 ELSE Layers(b, BlockSeq[k]))
    <3>1. CASE k = 0
      BY <3>1
    <3>2. CASE k # 0
      <4>1. k \in 1 .. n
        BY <1>0, <3>2
      <4> QED BY <3>2, <4>1
    <3> QED BY <3>1, <3>2
  <2> QED BY <2>1
<1>3. f = body(f)
  BY <1>2
<1> HIDE DEF f
<1>4. f[0] = w[0]
  BY <1>0, <1>3
<1>5. ASSUME NEW k \in 1 .. n, f[k - 1] = w[k - 1] PROVE f[k] = w[k]
  <2>1. k \in 0 .. n /\ k # 0
    BY <1>0
  <2>2. f[k] = f[k - 1] + (IF BlockSeq[k] \in FlatBlocks(b) THEN 0 ELSE Layers(b, BlockSeq[k]))
    BY <1>3, <2>1
  <2> QED BY <1>5, <2>2
<1> HIDE DEF body
<1>6. \A k \in 1 .. n : f[k - 1] = w[k - 1] => f[k] = w[k]
  BY <1>5
<1>7. n \in Nat
  BY <1>0
<1> HIDE DEF n
<1>8. f[n] = w[n]
  BY <1>4, <1>6, <1>7, Alike
<1> QED BY <1>1, <1>8 DEF n

LEMMA ReadL2JIs ==
  ASSUME NEW stream, NEW D, NEW w \in [0 .. BlocksX * BlocksY -> D], w[0] = [at |-> 1, cells |-> << >>],
         \A k \in 1 .. BlocksX * BlocksY : w[k] = ReadL2JBlock(stream, w[k - 1], BlockSeq[k])
  PROVE  ReadL2J(stream) = w[BlocksX * BlocksY].cells
<1> DEFINE n == BlocksX * BlocksY
           body(g) == [k \in 0 .. n |-> IF k = 0 THEN [at |-> 1, cells |-> << >>]
                                        ELSE ReadL2JBlock(stream, g[k - 1], BlockSeq[k])]
           f == CHOOSE g : g = body(g)
<1>0. Len(BlockSeq) = n /\ n \in Nat
  BY SeqOfBlocks
<1>1. ReadL2J(stream) = f[n].cells
  BY <1>0 DEF ReadL2J, Through
<1>2. w = body(w)
  <2>1. ASSUME NEW k \in 0 .. n
        PROVE  w[k] = IF k = 0 THEN [at |-> 1, cells |-> << >>] ELSE ReadL2JBlock(stream, w[k - 1], BlockSeq[k])
    <3>1. CASE k = 0
      BY <3>1
    <3>2. CASE k # 0
      <4>1. k \in 1 .. n
        BY <1>0, <3>2
      <4> QED BY <3>2, <4>1
    <3> QED BY <3>1, <3>2
  <2> QED BY <2>1
<1>3. f = body(f)
  BY <1>2
<1> HIDE DEF f
<1>4. f[0] = w[0]
  BY <1>0, <1>3
<1>5. ASSUME NEW k \in 1 .. n, f[k - 1] = w[k - 1] PROVE f[k] = w[k]
  <2>1. k \in 0 .. n /\ k # 0
    BY <1>0
  <2>2. f[k] = ReadL2JBlock(stream, f[k - 1], BlockSeq[k])
    BY <1>3, <2>1
  <2> QED BY <1>5, <2>2
<1> HIDE DEF body
<1>6. \A k \in 1 .. n : f[k - 1] = w[k - 1] => f[k] = w[k]
  BY <1>5
<1>7. n \in Nat
  BY <1>0
<1> HIDE DEF n
<1>8. f[n] = w[n]
  BY <1>4, <1>6, <1>7, Alike
<1> QED BY <1>1, <1>8 DEF n

LEMMA ReadPtsIs ==
  ASSUME NEW stream, NEW D, NEW w \in [0 .. BlocksX * BlocksY -> D], w[0] = [at |-> 4, cells |-> << >>],
         \A k \in 1 .. BlocksX * BlocksY : w[k] = ReadPtsBlock(stream, w[k - 1], BlockSeq[k])
  PROVE  ReadPts(stream) = w[BlocksX * BlocksY].cells
<1> DEFINE n == BlocksX * BlocksY
           body(g) == [k \in 0 .. n |-> IF k = 0 THEN [at |-> 4, cells |-> << >>]
                                        ELSE ReadPtsBlock(stream, g[k - 1], BlockSeq[k])]
           f == CHOOSE g : g = body(g)
<1>0. Len(BlockSeq) = n /\ n \in Nat
  BY SeqOfBlocks
<1>1. ReadPts(stream) = f[n].cells
  BY <1>0 DEF ReadPts, Through
<1>2. w = body(w)
  <2>1. ASSUME NEW k \in 0 .. n
        PROVE  w[k] = IF k = 0 THEN [at |-> 4, cells |-> << >>] ELSE ReadPtsBlock(stream, w[k - 1], BlockSeq[k])
    <3>1. CASE k = 0
      BY <3>1
    <3>2. CASE k # 0
      <4>1. k \in 1 .. n
        BY <1>0, <3>2
      <4> QED BY <3>2, <4>1
    <3> QED BY <3>1, <3>2
  <2> QED BY <2>1
<1>3. f = body(f)
  BY <1>2
<1> HIDE DEF f
<1>4. f[0] = w[0]
  BY <1>0, <1>3
<1>5. ASSUME NEW k \in 1 .. n, f[k - 1] = w[k - 1] PROVE f[k] = w[k]
  <2>1. k \in 0 .. n /\ k # 0
    BY <1>0
  <2>2. f[k] = ReadPtsBlock(stream, f[k - 1], BlockSeq[k])
    BY <1>3, <2>1
  <2> QED BY <1>5, <2>2
<1> HIDE DEF body
<1>6. \A k \in 1 .. n : f[k - 1] = w[k - 1] => f[k] = w[k]
  BY <1>5
<1>7. n \in Nat
  BY <1>0
<1> HIDE DEF n
<1>8. f[n] = w[n]
  BY <1>4, <1>6, <1>7, Alike
<1> QED BY <1>1, <1>8 DEF n

-----------------------------------------------------------------------------
(* How many cells a block has.                                             *)

LEMMA AtLeastOneEach ==
  ASSUME NEW n \in Nat, NEW x \in [1 .. n -> Nat \ {0}], NEW w \in [0 .. n -> Nat], w[0] = 0,
         \A k \in 1 .. n : w[k] = w[k - 1] + x[k]
  PROVE  w[n] \in Nat /\ w[n] >= n /\ (w[n] = n <=> \A k \in 1 .. n : x[k] = 1)
<1> DEFINE T == {m \in Nat : m <= n =>
                   w[m] \in Nat /\ w[m] >= m /\ (w[m] = m <=> \A k \in 1 .. m : x[k] = 1)}
<1>1. 0 \in T
  OBVIOUS
<1>2. ASSUME NEW m \in T PROVE m + 1 \in T
  <2>0. m \in Nat /\ m + 1 \in Nat /\ (m + 1) - 1 = m
    OBVIOUS
  <2>a. m <= n => w[m] \in Nat /\ w[m] >= m /\ (w[m] = m <=> \A k \in 1 .. m : x[k] = 1)
    OBVIOUS
  <2> SUFFICES ASSUME m + 1 <= n
               PROVE  /\ w[m + 1] \in Nat /\ w[m + 1] >= m + 1
                      /\ w[m + 1] = m + 1 <=> \A k \in 1 .. m + 1 : x[k] = 1
    BY <2>0
  <2> HIDE DEF T
  <2>1. m <= n /\ m + 1 \in 1 .. n
    BY <2>0
  <2>2. x[m + 1] \in Nat \ {0} /\ w[m + 1] = w[m] + x[m + 1]
    BY <2>0, <2>1
  <2>3. w[m] \in Nat /\ w[m] >= m /\ (w[m] = m <=> \A k \in 1 .. m : x[k] = 1)
    BY <2>a, <2>1
  <2>4. w[m + 1] \in Nat /\ w[m + 1] >= m + 1
    BY <2>0, <2>2, <2>3
  <2>5. w[m + 1] = m + 1 <=> w[m] = m /\ x[m + 1] = 1
    <3> DEFINE u == w[m]
               v == x[m + 1]
    <3>1. u \in Nat /\ u >= m /\ v \in Nat /\ v # 0 /\ w[m + 1] = u + v
      BY <2>2, <2>3
    <3> HIDE DEF u, v
    <3>2. u + v = m + 1 <=> u = m /\ v = 1
      BY <2>0, <3>1
    <3> QED BY <3>1, <3>2 DEF u, v
  <2>6. \A k \in 1 .. m + 1 : k \in 1 .. m \/ k = m + 1
    BY <2>0
  <2>7. \A k \in 1 .. m : k \in 1 .. m + 1
    BY <2>0
  <2>8. m + 1 \in 1 .. m + 1
    BY <2>0
  <2>9. (\A k \in 1 .. m + 1 : x[k] = 1) <=> (\A k \in 1 .. m : x[k] = 1) /\ x[m + 1] = 1
    BY <2>6, <2>7, <2>8
  <2> QED BY <2>3, <2>4, <2>5, <2>9
<1>3. T = Nat
  <2> HIDE DEF T
  <2>1. T \in SUBSET Nat
    BY DEF T
  <2> QED BY <1>1, <1>2, <2>1, NumbersInduction
<1>4. n \in T
  BY <1>3
<1> QED BY <1>4

LEMMA LayersAre ==
  ASSUME NEW b, Layered(b.columns), NEW block \in Blocks, NEW type \in Types3
  PROVE  /\ Layers(b, block) \in Nat /\ Layers(b, block) >= BlockArea
         /\ Layers(b, block) = BlockArea <=> ~Multilayer(b.columns, block)
         /\ \E c : /\ Joins(c, BlockPieces(b, block, type), BlockArea, CellAtRec)
                   /\ FlattenSeq(BlockPieces(b, block, type)) = c[BlockArea]
                   /\ Len(c[BlockArea]) = Layers(b, block)
<1> DEFINE s == BlockPieces(b, block, type)
           n == BlockArea
<1>0. n \in Nat \ {0} /\ \A k \in 1 .. n : CellSeq(block)[k] \in Cells
  BY Sizes, CellsInOrder
<1>1. /\ s \in [1 .. n -> Seq(CellAtRec)]
      /\ \A k \in 1 .. n : s[k] = ColumnCells(b, CellSeq(block)[k], type)
  BY BlockPiecesIs
<1> HIDE DEF s
<1>2. PICK c : Joins(c, s, n, CellAtRec) /\ FlattenSeq(s) = c[n]
  BY <1>0, <1>1, FlattenIs
<1> DEFINE w == [k \in 0 .. n |-> Len(c[k])]
           x == [k \in 1 .. n |-> Len(b.columns[CellSeq(block)[k]])]
<1>3. ASSUME NEW k \in 1 .. n
      PROVE  /\ x[k] \in Nat \ {0} /\ w[k] = w[k - 1] + x[k]
             /\ x[k] = Len(b.columns[CellSeq(block)[k]])
  <2>1. k \in 0 .. n /\ k - 1 \in 0 .. n /\ Follows(c[k], c[k - 1], s[k])
    BY <1>0, <1>2, JoinStep
  <2>2. x[k] = Len(b.columns[CellSeq(block)[k]]) /\ x[k] \in Nat \ {0}
    BY <1>0, FirstCell
  <2>3. Len(s[k]) = Len(b.columns[CellSeq(block)[k]])
    BY <1>0, <1>1, ColumnCellsIs
  <2>4. Len(c[k]) = Len(c[k - 1]) + Len(s[k])
    BY <2>1 DEF Follows
  <2>5. w[k] = Len(c[k]) /\ w[k - 1] = Len(c[k - 1])
    BY <2>1
  <2> QED BY <2>2, <2>3, <2>4, <2>5
<1>4. w \in [0 .. n -> Nat]
  <2>1. ASSUME NEW k \in 0 .. n PROVE Len(c[k]) \in Nat
    <3>1. c[k] \in Seq(CellAtRec)
      BY <1>2 DEF Joins
    <3> QED BY <3>1
  <2> QED BY <2>1
<1>5. w[0] = 0
  <2>1. c[0] = << >> /\ 0 \in 0 .. n /\ Len(<< >>) = 0
    BY <1>0, <1>2 DEF Joins
  <2> QED BY <2>1
<1>a. w[n] = Len(c[n]) /\ w = [k \in 0 .. n |-> w[k]]
  BY <1>0
<1>b. x \in [1 .. n -> Nat \ {0}] /\ \A k \in 1 .. n : w[k] = w[k - 1] + x[k]
  BY <1>3
<1>c. \A k \in 1 .. n : w[k] = w[k - 1] + Len(b.columns[CellSeq(block)[k]])
  BY <1>3
<1>d. n \in Nat
  BY <1>0
<1> HIDE DEF w, x
<1>7. Layers(b, block) = w[n]
  BY <1>4, <1>5, <1>c, LayersIs, Zenon
<1> HIDE DEF n
<1>6. w[n] \in Nat /\ w[n] >= n /\ (w[n] = n <=> \A k \in 1 .. n : x[k] = 1)
  BY <1>b, <1>d, <1>4, <1>5, AtLeastOneEach, Zenon
<1>8. (\A k \in 1 .. n : x[k] = 1) <=> ~Multilayer(b.columns, block)
  <2>1. Multilayer(b.columns, block) <=> \E k \in 1 .. n : Len(b.columns[CellSeq(block)[k]]) > 1
    BY DEF Multilayer, CellsOf, n
  <2>2. \A k \in 1 .. n : x[k] = 1 <=> ~(Len(b.columns[CellSeq(block)[k]]) > 1)
    <3> SUFFICES ASSUME NEW k \in 1 .. n PROVE x[k] = 1 <=> ~(x[k] > 1)
      BY <1>3
    <3>1. x[k] \in Nat /\ x[k] # 0
      BY <1>3
    <3> QED BY <3>1
  <2> QED BY <2>1, <2>2
<1> QED BY <1>2, <1>6, <1>7, <1>8, <1>a DEF s, n

-----------------------------------------------------------------------------
(* What is written of a block.                                             *)

(* A buffer the streams can hold.                                          *)
Writable(b) ==
  /\ Typed(b) /\ Eights(b.columns)
  /\ \A block \in Blocks :
       /\ b.types[block] = MultilayerType <=> Multilayer(b.columns, block)
       /\ b.types[block] = SimpleType =>
            /\ Within(b.columns[Origin(block)][1].z, -32768, 32767)
            /\ b.columns[Origin(block)][1].open = Compass
       /\ b.types[block] # SimpleType =>
            \A place \in CellsOf(block) : \A i \in 1 .. Len(b.columns[place]) :
              InRange(b.columns[place][i].z)

WordOf(cell) == L2JWord(cell.z, cell.open)
ColumnWords(b, place) == [i \in 1 .. Len(b.columns[place]) |-> WordOf(b.columns[place][i])]
Counted(b, place) == << Len(b.columns[place]) >> \o ColumnWords(b, place)
CountedPieces(b, block) == [n \in 1 .. BlockArea |-> Counted(b, CellSeq(block)[n])]
FirstWords(b, block) == [n \in 1 .. BlockArea |-> WordOf(b.columns[CellSeq(block)[n]][1])]
FlatHeight(b, block) == Unsigned(b.columns[Origin(block)][1].z)

LEMMA WordsOf ==
  ASSUME NEW b, Layered(b.columns), Eights(b.columns), NEW place \in Cells,
         NEW i \in 1 .. Len(b.columns[place])
  PROVE  /\ WordOf(b.columns[place][i]) \in Nat
         /\ PtsWord(b.columns[place][i].z, b.columns[place][i].open) = WordOf(b.columns[place][i])
<1>1. /\ b.columns[place][i].z \in Int /\ b.columns[place][i].open \in SUBSET Compass
      /\ b.columns[place][i].z % 8 = 0
  BY FirstCell DEF Eights
<1> QED BY <1>1, WordsAgree DEF WordOf

LEMMA CountedIs ==
  ASSUME NEW b, Layered(b.columns), Eights(b.columns), NEW place \in Cells
  PROVE  /\ ColumnWords(b, place) \in Seq(Nat) /\ Counted(b, place) \in Seq(Nat)
         /\ Len(ColumnWords(b, place)) = Len(b.columns[place])
         /\ Len(b.columns[place]) \in Nat
         /\ Len(Counted(b, place)) = 1 + Len(b.columns[place])
         /\ Follows(Counted(b, place), << Len(b.columns[place]) >>, ColumnWords(b, place))
<1> DEFINE l == Len(b.columns[place])
           words == ColumnWords(b, place)
<1>1. l \in Nat
  BY FirstCell
<1>2. \A i \in 1 .. l : WordOf(b.columns[place][i]) \in Nat
  BY WordsOf
<1>3. words = [i \in 1 .. l |-> WordOf(b.columns[place][i])]
  BY DEF ColumnWords
<1> HIDE DEF l, words
<1>4. words \in [1 .. l -> Nat]
  BY <1>2, <1>3
<1>5. words \in Seq(Nat) /\ Len(words) = l
  BY <1>1, <1>4
<1>6. << l >> \in Seq(Nat) /\ Len(<< l >>) = 1
  BY <1>1
<1>7. << l >> \o words \in Seq(Nat) /\ Follows(<< l >> \o words, << l >>, words)
  BY <1>5, <1>6, Concatenated
<1>8. Counted(b, place) = << l >> \o words
  BY DEF Counted, l, words
<1>9. Len(<< l >> \o words) = 1 + l
  BY <1>5, <1>6, <1>7 DEF Follows
<1> QED BY <1>1, <1>5, <1>7, <1>8, <1>9 DEF l, words

LEMMA PiecesAre ==
  ASSUME NEW b, Layered(b.columns), Eights(b.columns), NEW block \in Blocks
  PROVE  /\ CountedPieces(b, block) \in [1 .. BlockArea -> Seq(Nat)]
         /\ \A n \in 1 .. BlockArea :
              CountedPieces(b, block)[n] = Counted(b, CellSeq(block)[n])
         /\ FirstWords(b, block) \in Seq(Nat) /\ Len(FirstWords(b, block)) = BlockArea
         /\ \A n \in 1 .. BlockArea :
              FirstWords(b, block)[n] = WordOf(b.columns[CellSeq(block)[n]][1])
<1>0. BlockArea \in Nat /\ \A n \in 1 .. BlockArea : CellSeq(block)[n] \in Cells
  BY Sizes, CellsInOrder
<1>1. \A n \in 1 .. BlockArea : Counted(b, CellSeq(block)[n]) \in Seq(Nat)
  BY <1>0, CountedIs
<1>2. \A n \in 1 .. BlockArea : WordOf(b.columns[CellSeq(block)[n]][1]) \in Nat
  BY <1>0, FirstCell, WordsOf
<1>3. FirstWords(b, block) \in [1 .. BlockArea -> Nat]
  BY <1>2 DEF FirstWords
<1>4. FirstWords(b, block) \in Seq(Nat) /\ Len(FirstWords(b, block)) = BlockArea
  BY <1>0, <1>3
<1> QED BY <1>1, <1>4 DEF CountedPieces, FirstWords

LEMMA L2JBlockIs ==
  ASSUME NEW b, Writable(b), NEW block \in Blocks
  PROVE  /\ b.types[block] = SimpleType => L2JBlock(b, block) = << 0, FlatHeight(b, block) >>
         /\ b.types[block] = ComplexType => L2JBlock(b, block) = << 1 >> \o FirstWords(b, block)
         /\ b.types[block] = MultilayerType =>
              L2JBlock(b, block) = << 2 >> \o FlattenSeq(CountedPieces(b, block))
<1>0. Layered(b.columns) /\ DOMAIN CellSeq(block) = 1 .. BlockArea
  BY InBlock DEF Writable, Typed
<1>d. /\ SimpleType # ComplexType /\ SimpleType # MultilayerType /\ ComplexType # MultilayerType
      /\ SimpleType = 0 /\ ComplexType = 1 /\ MultilayerType = 2
  BY DEF SimpleType, ComplexType, MultilayerType
<1>1. CASE b.types[block] = SimpleType
  BY <1>1, <1>d DEF L2JBlock, FlatHeight
<1>2. CASE b.types[block] = ComplexType
  <2> DEFINE c(n) == b.columns[CellSeq(block)[n]]
  <2>1. L2JBlock(b, block) =
          << ComplexType >> \o [n \in DOMAIN CellSeq(block) |-> L2JWord(c(n)[1].z, c(n)[1].open)]
    BY <1>2, <1>d DEF L2JBlock
  <2>2. FirstWords(b, block) = [n \in 1 .. BlockArea |-> L2JWord(c(n)[1].z, c(n)[1].open)]
    BY DEF FirstWords, WordOf
  <2> QED BY <1>0, <1>2, <1>d, <2>1, <2>2
<1>3. CASE b.types[block] = MultilayerType
  <2>1. ASSUME NEW n \in 1 .. BlockArea
        PROVE  DOMAIN b.columns[CellSeq(block)[n]] = 1 .. Len(b.columns[CellSeq(block)[n]])
    <3>1. CellSeq(block)[n] \in Cells
      BY CellsInOrder
    <3> QED BY <1>0, <3>1, FirstCell
  <2> DEFINE c(n) == b.columns[CellSeq(block)[n]]
             e(n) == << Len(c(n)) >> \o [i \in DOMAIN c(n) |-> L2JWord(c(n)[i].z, c(n)[i].open)]
  <2>2. L2JBlock(b, block) =
          << MultilayerType >> \o FlattenSeq([n \in DOMAIN CellSeq(block) |-> e(n)])
    BY <1>3, <1>d DEF L2JBlock
  <2>3. \A n \in 1 .. BlockArea : Counted(b, CellSeq(block)[n]) = e(n)
    BY <2>1 DEF Counted, ColumnWords, WordOf
  <2> HIDE DEF c, e
  <2>4. CountedPieces(b, block) = [n \in 1 .. BlockArea |-> e(n)]
    BY <2>3 DEF CountedPieces
  <2> QED BY <1>0, <1>3, <1>d, <2>2, <2>4
<1> QED BY <1>1, <1>2, <1>3 DEF Writable, Typed, Types3

LEMMA PtsTypeIs ==
  ASSUME NEW b, Writable(b), NEW block \in Blocks
  PROVE  /\ PtsType(b, block) = b.types[block]
         /\ b.types[block] = MultilayerType => Layers(b, block) \in Nat /\ Layers(b, block) > BlockArea
         /\ b.types[block] = ComplexType => Layers(b, block) = BlockArea
<1>0. Layered(b.columns) /\ b.types[block] \in Types3 /\ MultilayerType \in Types3
  BY DEF Writable, Typed, Types3
<1>1. /\ Layers(b, block) \in Nat /\ Layers(b, block) >= BlockArea
      /\ Layers(b, block) = BlockArea <=> ~Multilayer(b.columns, block)
  BY <1>0, LayersAre
<1>2. b.types[block] = MultilayerType <=> Multilayer(b.columns, block)
  BY DEF Writable
<1>3. b.types[block] = MultilayerType => Layers(b, block) # BlockArea
  BY <1>1, <1>2
<1>4. b.types[block] = ComplexType => b.types[block] # MultilayerType
  BY DEF ComplexType, MultilayerType
<1>5. PtsType(b, block) = b.types[block]
  BY <1>3 DEF PtsType
<1> QED BY <1>1, <1>2, <1>3, <1>4, <1>5, Sizes

LEMMA PtsBlockIs ==
  ASSUME NEW b, Writable(b), NEW block \in Blocks
  PROVE  /\ b.types[block] = SimpleType =>
              PtsBlock(b, block) = << 0, FlatHeight(b, block), FlatHeight(b, block) >>
         /\ b.types[block] = ComplexType =>
              PtsBlock(b, block) = << BlockArea >> \o FirstWords(b, block)
         /\ b.types[block] = MultilayerType =>
              PtsBlock(b, block) = << Layers(b, block) >> \o FlattenSeq(CountedPieces(b, block))
<1>0. /\ Layered(b.columns) /\ Eights(b.columns) /\ DOMAIN CellSeq(block) = 1 .. BlockArea
      /\ \A n \in 1 .. BlockArea : CellSeq(block)[n] \in Cells
  BY InBlock, CellsInOrder DEF Writable, Typed
<1>a. PtsType(b, block) = b.types[block]
  BY PtsTypeIs
<1>d. /\ SimpleType # ComplexType /\ SimpleType # MultilayerType /\ ComplexType # MultilayerType
  BY DEF SimpleType, ComplexType, MultilayerType
<1>1. CASE b.types[block] = SimpleType
  BY <1>1, <1>a, <1>d DEF PtsBlock, FlatHeight
<1> DEFINE c(n) == b.columns[CellSeq(block)[n]]
<1>2. CASE b.types[block] = ComplexType
  <2>1. PtsBlock(b, block) =
          << BlockArea >> \o [n \in DOMAIN CellSeq(block) |-> PtsWord(c(n)[1].z, c(n)[1].open)]
    BY <1>2, <1>a, <1>d DEF PtsBlock
  <2>2. \A n \in 1 .. BlockArea : PtsWord(c(n)[1].z, c(n)[1].open) = WordOf(c(n)[1])
    BY <1>0, FirstCell, WordsOf
  <2>3. FirstWords(b, block) = [n \in 1 .. BlockArea |-> WordOf(c(n)[1])]
    BY DEF FirstWords
  <2> HIDE DEF c
  <2>4. FirstWords(b, block) = [n \in 1 .. BlockArea |-> PtsWord(c(n)[1].z, c(n)[1].open)]
    BY <2>2, <2>3
  <2> QED BY <1>0, <1>2, <1>d, <2>1, <2>4
<1>3. CASE b.types[block] = MultilayerType
  <2>1. ASSUME NEW n \in 1 .. BlockArea
        PROVE  /\ DOMAIN c(n) = 1 .. Len(c(n))
               /\ \A i \in 1 .. Len(c(n)) : PtsWord(c(n)[i].z, c(n)[i].open) = WordOf(c(n)[i])
    BY <1>0, FirstCell, WordsOf
  <2> DEFINE e(n) == << Len(c(n)) >> \o [i \in DOMAIN c(n) |-> PtsWord(c(n)[i].z, c(n)[i].open)]
  <2>2. PtsBlock(b, block) =
          << Layers(b, block) >> \o FlattenSeq([n \in DOMAIN CellSeq(block) |-> e(n)])
    BY <1>3, <1>a, <1>d DEF PtsBlock
  <2>3. ASSUME NEW n \in 1 .. BlockArea PROVE Counted(b, CellSeq(block)[n]) = e(n)
    <3>1. Counted(b, CellSeq(block)[n]) =
            << Len(c(n)) >> \o [i \in 1 .. Len(c(n)) |-> WordOf(c(n)[i])]
      BY DEF Counted, ColumnWords
    <3> HIDE DEF c
    <3>2. [i \in DOMAIN c(n) |-> PtsWord(c(n)[i].z, c(n)[i].open)] =
            [i \in 1 .. Len(c(n)) |-> WordOf(c(n)[i])]
      BY <2>1
    <3> QED BY <3>1, <3>2
  <2> HIDE DEF c, e
  <2>4. CountedPieces(b, block) = [n \in 1 .. BlockArea |-> e(n)]
    BY <2>3 DEF CountedPieces
  <2> QED BY <1>0, <1>3, <1>d, <2>2, <2>4
<1> QED BY <1>1, <1>2, <1>3 DEF Writable, Typed, Types3

-----------------------------------------------------------------------------
(* What is read of a block.                                                *)

Reading(at0, got) == [at |-> at0, cells |-> got]

(* Cells read so far, and what follows them.                               *)
IsCells(s) == s \in Seq(CellAtRec)
Cat(x, y) == x \o y

LEMMA Together ==
  ASSUME NEW x, NEW y, NEW z, IsCells(x), IsCells(y), IsCells(z)
  PROVE  Cat(Cat(x, y), z) = Cat(x, Cat(y, z)) /\ IsCells(Cat(x, y))
BY DEF IsCells, Cat

LEMMA CellsJoin ==
  ASSUME NEW n \in Nat, NEW s, NEW c, Joins(c, s, n, CellAtRec), NEW k \in 1 .. n
  PROVE  IsCells(c[k - 1]) /\ IsCells(s[k]) /\ c[k] = Cat(c[k - 1], s[k])
<1>1. c[k - 1] \in Seq(CellAtRec) /\ s[k] \in Seq(CellAtRec)
  BY JoinStep
<1>2. c[k] = c[k - 1] \o s[k]
  BY DEF Joins
<1> QED BY <1>1, <1>2 DEF IsCells, Cat

LEMMA ReadColumnOf ==
  ASSUME NEW b, Layered(b.columns), Eights(b.columns), NEW place \in Cells,
         \A i \in 1 .. Len(b.columns[place]) : InRange(b.columns[place][i].z),
         NEW stream, NEW at0 \in Nat, NEW got, Found(stream, at0, Counted(b, place))
  PROVE  ReadColumn(stream, Reading(at0, got), place) =
           Reading(at0 + Len(Counted(b, place)), Cat(got, ColumnCells(b, place, MultilayerType)))
<1> DEFINE l == Len(b.columns[place])
           words == ColumnWords(b, place)
<1>0. l \in Nat /\ Len(words) = l /\ Len(Counted(b, place)) = 1 + l
  BY CountedIs
<1>1. Found(stream, at0, << l >>) /\ Found(stream, at0 + 1, words)
  <2>1. Follows(Counted(b, place), << l >>, words) /\ Len(<< l >>) = 1
    BY CountedIs
  <2> QED BY <2>1, FoundParts
<1>2. At(stream, at0) = l
  <2>1. 1 \in 1 .. Len(<< l >>) /\ << l >>[1] = l /\ at0 + 1 - 1 = at0
    OBVIOUS
  <2> QED BY <1>1, <2>1 DEF Found
<1> HIDE DEF words
<1>3. ASSUME NEW i \in 1 .. l
      PROVE  ReadCell(At(stream, at0 + i), place, MultilayerType) =
               CellAt(place, MultilayerType, b.columns[place][i])
  <2>1. (at0 + 1) + i - 1 = at0 + i /\ i \in 1 .. Len(words)
    BY <1>0
  <2>2. At(stream, at0 + i) = words[i]
    BY <1>1, <2>1 DEF Found
  <2>3. words[i] = WordOf(b.columns[place][i])
    BY DEF words, ColumnWords
  <2>4. /\ b.columns[place][i] \in CellRec /\ b.columns[place][i].z % 8 = 0
        /\ InRange(b.columns[place][i].z)
    BY FirstCell DEF Eights
  <2> QED BY <2>2, <2>3, <2>4, CellReadsBack DEF WordOf
<1>4. ColumnCells(b, place, MultilayerType) =
        [i \in 1 .. l |-> CellAt(place, MultilayerType, b.columns[place][i])]
  <2>1. DOMAIN b.columns[place] = 1 .. l
    BY FirstCell
  <2> QED BY <2>1 DEF ColumnCells
<1>5. ReadColumn(stream, Reading(at0, got), place) =
        [at |-> at0 + 1 + l,
         cells |-> got \o [i \in 1 .. l |-> ReadCell(At(stream, at0 + i), place, MultilayerType)]]
  BY <1>2 DEF ReadColumn, Reading
<1> HIDE DEF l
<1>6. [i \in 1 .. l |-> ReadCell(At(stream, at0 + i), place, MultilayerType)] =
        ColumnCells(b, place, MultilayerType)
  BY <1>3, <1>4
<1>7. at0 + 1 + l = at0 + Len(Counted(b, place))
  BY <1>0
<1> QED BY <1>5, <1>6, <1>7 DEF Reading, Cat

LEMMA ReadMultilayerOf ==
  ASSUME NEW b, Layered(b.columns), Eights(b.columns), NEW block \in Blocks,
         \A place \in CellsOf(block) : \A i \in 1 .. Len(b.columns[place]) :
           InRange(b.columns[place][i].z),
         NEW stream, NEW at0 \in Nat, NEW got, IsCells(got),
         Found(stream, at0, FlattenSeq(CountedPieces(b, block)))
  PROVE  ReadMultilayer(stream, Reading(at0, got), block) =
           Reading(at0 + Len(FlattenSeq(CountedPieces(b, block))),
                   Cat(got, FlattenSeq(BlockPieces(b, block, MultilayerType))))
<1> DEFINE n == BlockArea
           q == CountedPieces(b, block)
           s == BlockPieces(b, block, MultilayerType)
<1>0. n \in Nat \ {0} /\ n \in Nat /\ \A k \in 1 .. n : CellSeq(block)[k] \in CellsOf(block) \cap Cells
  BY Sizes, CellsInOrder DEF CellsOf
<1>1. /\ q \in [1 .. n -> Seq(Nat)]
      /\ \A k \in 1 .. n : q[k] = Counted(b, CellSeq(block)[k])
  BY PiecesAre
<1>2. /\ s \in [1 .. n -> Seq(CellAtRec)]
      /\ \A k \in 1 .. n : s[k] = ColumnCells(b, CellSeq(block)[k], MultilayerType)
  BY BlockPiecesIs DEF Types3
<1> HIDE DEF q, s
<1>3. PICK p : Joins(p, q, n, Nat) /\ FlattenSeq(q) = p[n]
  BY <1>0, <1>1, FlattenIs
<1>4. PICK c : Joins(c, s, n, CellAtRec) /\ FlattenSeq(s) = c[n]
  BY <1>0, <1>2, FlattenIs
<1>a. Found(stream, at0, p[n])
  BY <1>3 DEF q
<1> DEFINE w == [k \in 0 .. n |-> Reading(at0 + Len(p[k]), Cat(got, c[k]))]
<1>5. ASSUME NEW k \in 1 .. n
      PROVE  w[k] = ReadColumn(stream, w[k - 1], CellSeq(block)[k])
  <2>1. /\ k \in 0 .. n /\ k - 1 \in 0 .. n /\ p[k - 1] \in Seq(Nat)
        /\ Follows(p[k], p[k - 1], q[k])
    BY <1>0, <1>3, JoinStep
  <2>2. IsCells(c[k - 1]) /\ IsCells(s[k]) /\ c[k] = Cat(c[k - 1], s[k])
    BY <1>0, <1>4, CellsJoin
  <2>3. Len(p[k - 1]) \in Nat /\ at0 + Len(p[k - 1]) \in Nat
    BY <2>1
  <2>4. Found(stream, at0 + Len(p[k - 1]), Counted(b, CellSeq(block)[k]))
    BY <1>0, <1>1, <1>3, <1>a, FoundPiece
  <2>5. ReadColumn(stream, Reading(at0 + Len(p[k - 1]), Cat(got, c[k - 1])), CellSeq(block)[k]) =
          Reading((at0 + Len(p[k - 1])) + Len(Counted(b, CellSeq(block)[k])),
                  Cat(Cat(got, c[k - 1]), ColumnCells(b, CellSeq(block)[k], MultilayerType)))
    BY <1>0, <2>3, <2>4, ReadColumnOf
  <2>6. (at0 + Len(p[k - 1])) + Len(q[k]) = at0 + Len(p[k])
    <3> DEFINE u == Len(p[k - 1])
               v == Len(q[k])
    <3>1. Len(p[k]) = u + v /\ u \in Nat /\ v \in Nat
      BY <2>1 DEF Follows
    <3> HIDE DEF u, v
    <3>2. (at0 + u) + v = at0 + (u + v)
      BY <3>1
    <3> QED BY <3>1, <3>2 DEF u, v
  <2>7. Cat(Cat(got, c[k - 1]), s[k]) = Cat(got, c[k])
    <3>1. Cat(Cat(got, c[k - 1]), s[k]) = Cat(got, Cat(c[k - 1], s[k]))
      BY <2>2, Together
    <3> QED BY <2>2, <3>1
  <2>8. w[k] = Reading(at0 + Len(p[k]), Cat(got, c[k]))
    BY <2>1
  <2>9. w[k - 1] = Reading(at0 + Len(p[k - 1]), Cat(got, c[k - 1]))
    BY <2>1
  <2> QED BY <1>1, <1>2, <2>5, <2>6, <2>7, <2>8, <2>9
<1>6. w[0] = Reading(at0, got)
  <2>1. p[0] = << >> /\ c[0] = << >> /\ Len(<< >>) = 0 /\ 0 \in 0 .. n
    BY <1>0, <1>3, <1>4 DEF Joins
  <2>2. Cat(got, << >>) = got /\ at0 + 0 = at0
    BY DEF IsCells, Cat
  <2> QED BY <2>1, <2>2
<1>7. w[n] = Reading(at0 + Len(p[n]), Cat(got, c[n]))
  BY <1>0
<1> DEFINE D == {Reading(at0 + Len(p[k]), Cat(got, c[k])) : k \in 0 .. n}
<1>8. w \in [0 .. n -> D]
  OBVIOUS
<1> HIDE DEF w, D
<1>9. \A k \in 1 .. n : w[k] = ReadColumn(stream, w[k - 1], CellSeq(block)[k])
  BY <1>5
<1>b. ReadMultilayer(stream, w[0], block) = w[n]
  BY <1>8, <1>9, ReadMultilayerIs, Zenon
<1>10. ReadMultilayer(stream, Reading(at0, got), block) = w[n]
  BY <1>6, <1>b
<1> QED BY <1>3, <1>4, <1>7, <1>10 DEF q, s

LEMMA BodyIs ==
  ASSUME NEW at0, NEW got
  PROVE  /\ Reading(at0, got).at = at0 /\ Reading(at0, got).cells = got
         /\ [Reading(at0, got) EXCEPT !.at = @ + 1] = Reading(at0 + 1, got)
BY DEF Reading

LEMMA FoundHead ==
  ASSUME NEW stream, NEW at0 \in Nat, NEW x \in Nat, NEW y \in Seq(Nat),
         NEW z, z = << x >> \o y, Found(stream, at0, z)
  PROVE  /\ At(stream, at0) = x /\ Found(stream, at0 + 1, y)
         /\ z \in Seq(Nat) /\ Len(z) = 1 + Len(y)
<1>1. << x >> \in Seq(Nat) /\ Len(<< x >>) = 1 /\ << x >>[1] = x
  OBVIOUS
<1>2. z \in Seq(Nat) /\ Follows(z, << x >>, y)
  BY <1>1, Concatenated
<1>3. Found(stream, at0, << x >>) /\ Found(stream, at0 + 1, y)
  BY <1>1, <1>2, FoundParts
<1>4. At(stream, at0) = x
  <2>1. 1 \in 1 .. Len(<< x >>) /\ at0 + 1 - 1 = at0
    BY <1>1
  <2> QED BY <1>1, <1>3, <2>1 DEF Found
<1>5. Len(z) = 1 + Len(y)
  BY <1>1, <1>2 DEF Follows
<1> QED BY <1>2, <1>3, <1>4, <1>5

LEMMA ReadComplexOf ==
  ASSUME NEW b, Writable(b), NEW block \in Blocks, b.types[block] = ComplexType,
         NEW stream, NEW at0 \in Nat, NEW got, Found(stream, at0, FirstWords(b, block))
  PROVE  ReadComplex(stream, Reading(at0, got), block) =
           Reading(at0 + BlockArea, Cat(got, BlockCells(b, block)))
<1> DEFINE words == FirstWords(b, block)
           first(n) == b.columns[CellSeq(block)[n]][1]
<1>b. \A n \in 1 .. BlockArea : CellSeq(block)[n] \in CellsOf(block) \cap Cells
  BY CellsInOrder DEF CellsOf
<1>0. /\ Layered(b.columns) /\ Eights(b.columns) /\ Typed(b)
      /\ \A n \in 1 .. BlockArea : CellSeq(block)[n] \in CellsOf(block) \cap Cells
  BY <1>b DEF Writable, Typed
<1>a. ComplexType # SimpleType
  BY DEF ComplexType, SimpleType
<1>1. /\ Len(words) = BlockArea
      /\ \A n \in 1 .. BlockArea : words[n] = WordOf(first(n))
  BY <1>0, PiecesAre
<1>2. ASSUME NEW n \in 1 .. BlockArea
      PROVE  ReadCell(At(stream, at0 + n - 1), CellSeq(block)[n], ComplexType) =
               CellAt(CellSeq(block)[n], ComplexType, first(n))
  <2>1. At(stream, at0 + n - 1) = WordOf(first(n))
    BY <1>1 DEF Found
  <2>2. 1 \in 1 .. Len(b.columns[CellSeq(block)[n]]) /\ first(n) \in CellRec
    BY <1>0, FirstCell
  <2>3. first(n).z % 8 = 0 /\ InRange(first(n).z)
    BY <1>0, <1>a, <2>2 DEF Writable, Eights
  <2> HIDE DEF first
  <2> QED BY <2>1, <2>2, <2>3, CellReadsBack DEF WordOf
<1>3. BlockCells(b, block) =
        [n \in 1 .. BlockArea |-> CellAt(CellSeq(block)[n], ComplexType, first(n))]
  BY <1>0, BlockCellsIs
<1>4. ReadComplex(stream, Reading(at0, got), block) =
        [at |-> at0 + BlockArea,
         cells |-> got \o [n \in 1 .. BlockArea |->
           ReadCell(At(stream, at0 + n - 1), CellSeq(block)[n], ComplexType)]]
  BY BodyIs DEF ReadComplex
<1> HIDE DEF first
<1>5. [n \in 1 .. BlockArea |-> ReadCell(At(stream, at0 + n - 1), CellSeq(block)[n], ComplexType)] =
        BlockCells(b, block)
  BY <1>2, <1>3
<1> QED BY <1>4, <1>5 DEF Reading, Cat

LEMMA ReadSimpleOf ==
  ASSUME NEW b, Writable(b), NEW block \in Blocks, b.types[block] = SimpleType,
         NEW stream, NEW at0, NEW got, IsCells(got), NEW width,
         At(stream, at0) = FlatHeight(b, block)
  PROVE  ReadSimple(stream, Reading(at0, got), block, width) =
           Reading(at0 + width, Cat(got, BlockCells(b, block)))
<1> DEFINE cell == b.columns[Origin(block)][1]
<1>0. Layered(b.columns) /\ Typed(b) /\ Origin(block) \in Cells
  BY InBlock DEF Writable, Typed
<1>1. cell \in CellRec /\ cell.z \in Int
  BY <1>0, FirstCell
<1>2. -32768 <= cell.z /\ cell.z <= 32767 /\ cell.open = Compass
  BY DEF Writable, Within
<1>3. FlatHeight(b, block) = Unsigned(cell.z)
  BY DEF FlatHeight
<1>4. BlockCells(b, block) = << CellAt(Origin(block), SimpleType, cell) >>
  BY <1>0, BlockCellsIs
<1> HIDE DEF cell
<1>5. Signed(At(stream, at0)) = cell.z
  BY <1>1, <1>2, <1>3, HeightReadsBack
<1>6. CellAt(Origin(block), SimpleType, [z |-> Signed(At(stream, at0)), open |-> Compass]) =
        CellAt(Origin(block), SimpleType, cell)
  BY <1>2, <1>5 DEF CellAt
<1> DEFINE c == CellAt(Origin(block), SimpleType, cell)
<1>7. ReadSimple(stream, Reading(at0, got), block, width) =
        [at |-> at0 + width, cells |-> Append(got, c)]
  BY <1>6, BodyIs DEF ReadSimple
<1>8. c \in CellAtRec
  BY <1>0, <1>1, CellAtIs DEF Types3
<1> HIDE DEF c
<1>9. Append(got, c) = got \o << c >>
  BY <1>8 DEF IsCells
<1> QED BY <1>4, <1>7, <1>9 DEF Reading, Cat, c

LEMMA BodyCells ==
  ASSUME NEW b, Writable(b), NEW block \in Blocks
  PROVE  /\ IsCells(BlockCells(b, block))
         /\ FirstWords(b, block) \in Seq(Nat) /\ Len(FirstWords(b, block)) = BlockArea
         /\ FlattenSeq(CountedPieces(b, block)) \in Seq(Nat)
         /\ FlatHeight(b, block) \in Nat
<1>0. /\ Layered(b.columns) /\ Eights(b.columns) /\ Typed(b) /\ BlockArea \in Nat \ {0}
      /\ Origin(block) \in Cells
  BY Sizes, InBlock DEF Writable, Typed
<1>1. CountedPieces(b, block) \in [1 .. BlockArea -> Seq(Nat)]
  BY <1>0, PiecesAre
<1>2. FlattenSeq(CountedPieces(b, block)) \in Seq(Nat)
  BY <1>0, <1>1, FlattenIs
<1>3. FlatHeight(b, block) \in Nat
  <2>1. b.columns[Origin(block)][1].z \in Int
    BY <1>0, FirstCell
  <2> QED BY <2>1 DEF FlatHeight, Unsigned
<1>4. BlockCells(b, block) \in Seq(CellAtRec)
  BY <1>0, BlockCellsAre
<1> QED BY <1>0, <1>2, <1>3, <1>4, PiecesAre DEF IsCells

LEMMA ReadL2JBlockOf ==
  ASSUME NEW b, Writable(b), NEW block \in Blocks,
         NEW stream, NEW at0 \in Nat, NEW got, IsCells(got),
         Found(stream, at0, L2JBlock(b, block))
  PROVE  ReadL2JBlock(stream, Reading(at0, got), block) =
           Reading(at0 + Len(L2JBlock(b, block)), Cat(got, BlockCells(b, block)))
<1> DEFINE body == Reading(at0 + 1, got)
<1>0. /\ Layered(b.columns) /\ Eights(b.columns) /\ Typed(b) /\ at0 + 1 \in Nat
      /\ BlockArea \in Nat
  BY Sizes DEF Writable, Typed
<1>d. /\ SimpleType = 0 /\ ComplexType = 1 /\ MultilayerType = 2
      /\ SimpleType \in Nat /\ ComplexType \in Nat /\ MultilayerType \in Nat
  BY DEF SimpleType, ComplexType, MultilayerType
<1>a. ReadL2JBlock(stream, Reading(at0, got), block) =
        CASE At(stream, at0) = SimpleType -> ReadSimple(stream, body, block, 1)
          [] At(stream, at0) = ComplexType -> ReadComplex(stream, body, block)
          [] OTHER -> ReadMultilayer(stream, body, block)
  BY BodyIs DEF ReadL2JBlock
<1>c. 0 \in Nat /\ 1 \in Nat /\ 2 \in Nat
  OBVIOUS
<1> HIDE DEF body
<1>1. CASE b.types[block] = SimpleType
  <2> DEFINE h == FlatHeight(b, block)
  <2>1. L2JBlock(b, block) = << 0, h >> /\ h \in Nat
    BY <1>1, L2JBlockIs, BodyCells
  <2> HIDE DEF h
  <2> DEFINE y == << h >>
  <2>2. << 0, h >> = << 0 >> \o y /\ y \in Seq(Nat) /\ Len(y) = 1 /\ y[1] = h
    BY <2>1
  <2> HIDE DEF y
  <2>4. /\ At(stream, at0) = 0 /\ Found(stream, at0 + 1, y)
        /\ Len(L2JBlock(b, block)) = 1 + Len(y)
    <3> DEFINE z == L2JBlock(b, block)
    <3>1. z = << 0 >> \o y /\ y \in Seq(Nat) /\ 0 \in Nat /\ Found(stream, at0, z)
      BY <1>c, <2>1, <2>2
    <3> HIDE DEF z
    <3>2. At(stream, at0) = 0 /\ Found(stream, at0 + 1, y)
      BY <3>1, FoundHead
    <3>3. Len(z) = 1 + Len(y)
      BY <3>1, FoundHead
    <3> QED BY <3>2, <3>3 DEF z
  <2>5. At(stream, at0 + 1) = h
    <3>1. 1 \in 1 .. Len(y) /\ (at0 + 1) + 1 - 1 = at0 + 1
      BY <2>2
    <3> QED BY <2>2, <2>4, <3>1 DEF Found
  <2>6. ReadSimple(stream, body, block, 1) = Reading((at0 + 1) + 1, Cat(got, BlockCells(b, block)))
    BY <1>0, <1>1, <2>5, ReadSimpleOf DEF body, h
  <2>7. (at0 + 1) + 1 = at0 + Len(L2JBlock(b, block))
    BY <2>2, <2>4
  <2>8. ReadL2JBlock(stream, Reading(at0, got), block) = ReadSimple(stream, body, block, 1)
    BY <1>a, <1>d, <2>4
  <2> QED BY <2>6, <2>7, <2>8
<1>2. CASE b.types[block] = ComplexType
  <2> DEFINE words == FirstWords(b, block)
  <2>1. L2JBlock(b, block) = << 1 >> \o words /\ words \in Seq(Nat) /\ Len(words) = BlockArea
    BY <1>2, L2JBlockIs, BodyCells
  <2> HIDE DEF words
  <2>4. /\ At(stream, at0) = 1 /\ Found(stream, at0 + 1, words)
        /\ Len(L2JBlock(b, block)) = 1 + Len(words)
    <3> DEFINE z == L2JBlock(b, block)
    <3>1. z = << 1 >> \o words /\ words \in Seq(Nat) /\ 1 \in Nat /\ Found(stream, at0, z)
      BY <1>c, <2>1
    <3> HIDE DEF z
    <3>2. At(stream, at0) = 1 /\ Found(stream, at0 + 1, words)
      BY <3>1, FoundHead
    <3>3. Len(z) = 1 + Len(words)
      BY <3>1, FoundHead
    <3> QED BY <3>2, <3>3 DEF z
  <2>6. ReadComplex(stream, body, block) =
          Reading((at0 + 1) + BlockArea, Cat(got, BlockCells(b, block)))
    BY <1>0, <1>2, <2>4, ReadComplexOf DEF body, words
  <2>5. Len(L2JBlock(b, block)) = 1 + BlockArea
    BY <2>1, <2>4
  <2>7. (at0 + 1) + BlockArea = at0 + Len(L2JBlock(b, block))
    BY <1>0, <2>5
  <2>8. ReadL2JBlock(stream, Reading(at0, got), block) = ReadComplex(stream, body, block)
    BY <1>a, <1>d, <2>4
  <2> QED BY <2>6, <2>7, <2>8
<1>3. CASE b.types[block] = MultilayerType
  <2> DEFINE words == FlattenSeq(CountedPieces(b, block))
  <2>1. L2JBlock(b, block) = << 2 >> \o words /\ words \in Seq(Nat)
    BY <1>3, L2JBlockIs, BodyCells
  <2>2. BlockCells(b, block) = FlattenSeq(BlockPieces(b, block, MultilayerType))
    BY <1>0, <1>3, BlockCellsIs
  <2>3. \A place \in CellsOf(block) : \A i \in 1 .. Len(b.columns[place]) :
          InRange(b.columns[place][i].z)
    BY <1>3, <1>d DEF Writable
  <2>4. /\ At(stream, at0) = 2 /\ Found(stream, at0 + 1, words)
        /\ Len(L2JBlock(b, block)) = 1 + Len(words)
    <3> HIDE DEF words
    <3> DEFINE z == L2JBlock(b, block)
    <3>1. z = << 2 >> \o words /\ words \in Seq(Nat) /\ 2 \in Nat /\ Found(stream, at0, z)
      BY <1>c, <2>1
    <3> HIDE DEF z
    <3>2. At(stream, at0) = 2 /\ Found(stream, at0 + 1, words)
      BY <3>1, FoundHead
    <3>3. Len(z) = 1 + Len(words)
      BY <3>1, FoundHead
    <3> QED BY <3>2, <3>3 DEF z
  <2>6. ReadMultilayer(stream, body, block) =
          Reading((at0 + 1) + Len(words), Cat(got, BlockCells(b, block)))
    BY <1>0, <2>2, <2>3, <2>4, ReadMultilayerOf DEF body
  <2> HIDE DEF words
  <2>7. (at0 + 1) + Len(words) = at0 + Len(L2JBlock(b, block))
    BY <2>1, <2>4
  <2>8. ReadL2JBlock(stream, Reading(at0, got), block) = ReadMultilayer(stream, body, block)
    BY <1>a, <1>d, <2>4
  <2> QED BY <2>6, <2>7, <2>8
<1> QED BY <1>0, <1>1, <1>2, <1>3 DEF Typed, Types3

LEMMA ReadPtsBlockOf ==
  ASSUME NEW b, Writable(b), NEW block \in Blocks,
         NEW stream, NEW at0 \in Nat, NEW got, IsCells(got),
         Found(stream, at0, PtsBlock(b, block))
  PROVE  ReadPtsBlock(stream, Reading(at0, got), block) =
           Reading(at0 + Len(PtsBlock(b, block)), Cat(got, BlockCells(b, block)))
<1> DEFINE body == Reading(at0 + 1, got)
<1>0. /\ Layered(b.columns) /\ Eights(b.columns) /\ Typed(b) /\ at0 + 1 \in Nat
      /\ BlockArea \in Nat \ {0}
  BY Sizes DEF Writable, Typed
<1>d. /\ SimpleType = 0 /\ ComplexType = 1 /\ MultilayerType = 2
      /\ SimpleType \in Nat /\ ComplexType \in Nat /\ MultilayerType \in Nat
  BY DEF SimpleType, ComplexType, MultilayerType
<1>a. ReadPtsBlock(stream, Reading(at0, got), block) =
        CASE At(stream, at0) = 0 -> ReadSimple(stream, body, block, 2)
          [] At(stream, at0) = BlockArea -> ReadComplex(stream, body, block)
          [] OTHER -> ReadMultilayer(stream, body, block)
  BY BodyIs DEF ReadPtsBlock
<1>c. 0 \in Nat /\ BlockArea \in Nat /\ BlockArea # 0
  BY <1>0
<1> HIDE DEF body
<1>1. CASE b.types[block] = SimpleType
  <2> DEFINE h == FlatHeight(b, block)
  <2>1. PtsBlock(b, block) = << 0, h, h >> /\ h \in Nat
    BY <1>1, PtsBlockIs, BodyCells
  <2> HIDE DEF h
  <2> DEFINE y == << h, h >>
  <2>2. << 0, h, h >> = << 0 >> \o y /\ y \in Seq(Nat) /\ Len(y) = 2 /\ y[1] = h
    BY <2>1
  <2> HIDE DEF y
  <2>4. /\ At(stream, at0) = 0 /\ Found(stream, at0 + 1, y)
        /\ Len(PtsBlock(b, block)) = 1 + Len(y)
    <3> DEFINE z == PtsBlock(b, block)
    <3>1. z = << 0 >> \o y /\ y \in Seq(Nat) /\ 0 \in Nat /\ Found(stream, at0, z)
      BY <1>c, <2>1, <2>2
    <3> HIDE DEF z
    <3>2. At(stream, at0) = 0 /\ Found(stream, at0 + 1, y)
      BY <3>1, FoundHead
    <3>3. Len(z) = 1 + Len(y)
      BY <3>1, FoundHead
    <3> QED BY <3>2, <3>3 DEF z
  <2>5. At(stream, at0 + 1) = h
    <3>1. 1 \in 1 .. Len(y) /\ (at0 + 1) + 1 - 1 = at0 + 1
      BY <2>2
    <3> QED BY <2>2, <2>4, <3>1 DEF Found
  <2>6. ReadSimple(stream, body, block, 2) = Reading((at0 + 1) + 2, Cat(got, BlockCells(b, block)))
    BY <1>0, <1>1, <2>5, ReadSimpleOf DEF body, h
  <2>7. (at0 + 1) + 2 = at0 + Len(PtsBlock(b, block))
    BY <2>2, <2>4
  <2>8. ReadPtsBlock(stream, Reading(at0, got), block) = ReadSimple(stream, body, block, 2)
    BY <1>a, <1>c, <2>4
  <2> QED BY <2>6, <2>7, <2>8
<1>2. CASE b.types[block] = ComplexType
  <2> DEFINE words == FirstWords(b, block)
  <2>1. PtsBlock(b, block) = << BlockArea >> \o words /\ words \in Seq(Nat) /\ Len(words) = BlockArea
    BY <1>2, PtsBlockIs, BodyCells
  <2> HIDE DEF words
  <2>4. /\ At(stream, at0) = BlockArea /\ Found(stream, at0 + 1, words)
        /\ Len(PtsBlock(b, block)) = 1 + Len(words)
    <3> DEFINE z == PtsBlock(b, block)
    <3>1. z = << BlockArea >> \o words /\ words \in Seq(Nat) /\ BlockArea \in Nat /\ Found(stream, at0, z)
      BY <1>c, <2>1
    <3> HIDE DEF z
    <3>2. At(stream, at0) = BlockArea /\ Found(stream, at0 + 1, words)
      BY <3>1, FoundHead
    <3>3. Len(z) = 1 + Len(words)
      BY <3>1, FoundHead
    <3> QED BY <3>2, <3>3 DEF z
  <2>6. ReadComplex(stream, body, block) =
          Reading((at0 + 1) + BlockArea, Cat(got, BlockCells(b, block)))
    BY <1>0, <1>2, <2>4, ReadComplexOf DEF body, words
  <2>5. Len(PtsBlock(b, block)) = 1 + BlockArea
    BY <2>1, <2>4
  <2>7. (at0 + 1) + BlockArea = at0 + Len(PtsBlock(b, block))
    BY <1>0, <2>5
  <2>8. ReadPtsBlock(stream, Reading(at0, got), block) = ReadComplex(stream, body, block)
    BY <1>a, <1>c, <2>4
  <2> QED BY <2>6, <2>7, <2>8
<1>3. CASE b.types[block] = MultilayerType
  <2> DEFINE words == FlattenSeq(CountedPieces(b, block))
             l == Layers(b, block)
  <2>0. l \in Nat /\ l > BlockArea /\ l # 0 /\ l # BlockArea
    <3>1. l \in Nat /\ l > BlockArea
      BY <1>3, PtsTypeIs
    <3> HIDE DEF l
    <3> QED BY <1>0, <3>1
  <2>1. PtsBlock(b, block) = << l >> \o words /\ words \in Seq(Nat)
    BY <1>3, PtsBlockIs, BodyCells
  <2>2. BlockCells(b, block) = FlattenSeq(BlockPieces(b, block, MultilayerType))
    BY <1>0, <1>3, BlockCellsIs
  <2>3. \A place \in CellsOf(block) : \A i \in 1 .. Len(b.columns[place]) :
          InRange(b.columns[place][i].z)
    BY <1>3, <1>d DEF Writable
  <2>4. /\ At(stream, at0) = l /\ Found(stream, at0 + 1, words)
        /\ Len(PtsBlock(b, block)) = 1 + Len(words)
    <3> HIDE DEF words, l
    <3> DEFINE z == PtsBlock(b, block)
    <3>1. z = << l >> \o words /\ words \in Seq(Nat) /\ l \in Nat /\ Found(stream, at0, z)
      BY <2>0, <2>1
    <3> HIDE DEF z
    <3>2. At(stream, at0) = l /\ Found(stream, at0 + 1, words)
      BY <3>1, FoundHead
    <3>3. Len(z) = 1 + Len(words)
      BY <3>1, FoundHead
    <3> QED BY <3>2, <3>3 DEF z
  <2>6. ReadMultilayer(stream, body, block) =
          Reading((at0 + 1) + Len(words), Cat(got, BlockCells(b, block)))
    BY <1>0, <2>2, <2>3, <2>4, ReadMultilayerOf DEF body
  <2> HIDE DEF words, l
  <2>7. (at0 + 1) + Len(words) = at0 + Len(PtsBlock(b, block))
    BY <2>1, <2>4
  <2>8. ReadPtsBlock(stream, Reading(at0, got), block) = ReadMultilayer(stream, body, block)
    BY <1>a, <2>0, <2>4
  <2> QED BY <2>6, <2>7, <2>8
<1> QED BY <1>0, <1>1, <1>2, <1>3 DEF Typed, Types3

LEMMA BlocksAreTyped ==
  ASSUME NEW b, Writable(b), NEW block \in Blocks
  PROVE  L2JBlock(b, block) \in Seq(Nat) /\ PtsBlock(b, block) \in Seq(Nat)
<1>0. /\ FirstWords(b, block) \in Seq(Nat) /\ FlattenSeq(CountedPieces(b, block)) \in Seq(Nat)
      /\ FlatHeight(b, block) \in Nat /\ BlockArea \in Nat
      /\ b.types[block] \in Types3
  BY BodyCells, Sizes DEF Writable, Typed
<1>a. ASSUME NEW x \in Nat, NEW y \in Seq(Nat) PROVE << x >> \o y \in Seq(Nat)
  <2>1. << x >> \in Seq(Nat)
    OBVIOUS
  <2> QED BY <2>1, Concatenated
<1>1. CASE b.types[block] = SimpleType
  <2> DEFINE h == FlatHeight(b, block)
  <2>1. L2JBlock(b, block) = << 0, h >> /\ PtsBlock(b, block) = << 0, h, h >> /\ h \in Nat
    BY <1>0, <1>1, L2JBlockIs, PtsBlockIs
  <2> HIDE DEF h
  <2>2. << 0, h >> \in Seq(Nat) /\ << 0, h, h >> \in Seq(Nat)
    BY <2>1
  <2> QED BY <2>1, <2>2
<1>2. CASE b.types[block] = ComplexType
  <2>1. /\ L2JBlock(b, block) = << 1 >> \o FirstWords(b, block)
        /\ PtsBlock(b, block) = << BlockArea >> \o FirstWords(b, block)
    BY <1>2, L2JBlockIs, PtsBlockIs
  <2>2. << 1 >> \o FirstWords(b, block) \in Seq(Nat)
    BY <1>0, <1>a
  <2>3. << BlockArea >> \o FirstWords(b, block) \in Seq(Nat)
    BY <1>0, <1>a
  <2> QED BY <2>1, <2>2, <2>3
<1>3. CASE b.types[block] = MultilayerType
  <2> DEFINE words == FlattenSeq(CountedPieces(b, block))
             l == Layers(b, block)
  <2>1. /\ L2JBlock(b, block) = << 2 >> \o words
        /\ PtsBlock(b, block) = << l >> \o words
        /\ words \in Seq(Nat) /\ l \in Nat
    BY <1>0, <1>3, L2JBlockIs, PtsBlockIs, PtsTypeIs
  <2> HIDE DEF words, l
  <2>2. << 2 >> \o words \in Seq(Nat)
    BY <1>a, <2>1
  <2>3. << l >> \o words \in Seq(Nat)
    BY <1>a, <2>1
  <2> QED BY <2>1, <2>2, <2>3
<1> QED BY <1>0, <1>1, <1>2, <1>3 DEF Types3

-----------------------------------------------------------------------------
(* What is read of a stream.                                               *)

NumBlocks == BlocksX * BlocksY
CellPieces(b) == [n \in 1 .. NumBlocks |-> BlockCells(b, BlockSeq[n])]

LEMMA BlocksOf ==
  /\ NumBlocks \in Nat \ {0} /\ NumBlocks \in Nat /\ NumBlocks = BlocksX * BlocksY
  /\ DOMAIN BlockSeq = 1 .. NumBlocks /\ Len(BlockSeq) = NumBlocks
  /\ \A n \in 1 .. NumBlocks : BlockSeq[n] \in Blocks
BY SeqOfBlocks, BlocksInOrder, Sizes DEF NumBlocks

(* The readings of a stream of one piece for each block.                   *)
Readings(w, stream, b, q, at0) ==
  /\ w = [k \in 0 .. NumBlocks |-> w[k]] /\ w[0] = Reading(at0, << >>)
  /\ w[NumBlocks].cells = Converted(b)
  /\ \A k \in 1 .. NumBlocks : \E at1, got :
       /\ at1 \in Nat /\ IsCells(got) /\ Found(stream, at1, q[k])
       /\ w[k - 1] = Reading(at1, got)
       /\ w[k] = Reading(at1 + Len(q[k]), Cat(got, BlockCells(b, BlockSeq[k])))

LEMMA ReadingsExist ==
  ASSUME NEW b, Writable(b), NEW q \in [1 .. NumBlocks -> Seq(Nat)],
         NEW stream, NEW at0 \in Nat, Found(stream, at0, FlattenSeq(q))
  PROVE  \E w : Readings(w, stream, b, q, at0)
<1> DEFINE n == NumBlocks
           s == CellPieces(b)
<1>0. n \in Nat \ {0} /\ n \in Nat /\ \A k \in 1 .. n : BlockSeq[k] \in Blocks
  BY BlocksOf
<1>1. /\ s \in [1 .. n -> Seq(CellAtRec)]
      /\ \A k \in 1 .. n : s[k] = BlockCells(b, BlockSeq[k])
      /\ Converted(b) = FlattenSeq(s)
  <2>1. \A k \in 1 .. n : BlockCells(b, BlockSeq[k]) \in Seq(CellAtRec)
    BY <1>0, BodyCells DEF IsCells
  <2>2. Converted(b) = FlattenSeq([k \in DOMAIN BlockSeq |-> BlockCells(b, BlockSeq[k])])
    BY DEF Converted
  <2> QED BY <2>1, <2>2, BlocksOf DEF CellPieces
<1> HIDE DEF s
<1>2. PICK p : Joins(p, q, n, Nat) /\ FlattenSeq(q) = p[n]
  BY <1>0, FlattenIs
<1>3. PICK c : Joins(c, s, n, CellAtRec) /\ FlattenSeq(s) = c[n]
  BY <1>0, <1>1, FlattenIs
<1>4. Found(stream, at0, p[n])
  BY <1>2
<1> DEFINE w == [k \in 0 .. n |-> Reading(at0 + Len(p[k]), c[k])]
<1>5. ASSUME NEW k \in 1 .. n
      PROVE  \E at1, got :
               /\ at1 \in Nat /\ IsCells(got) /\ Found(stream, at1, q[k])
               /\ w[k - 1] = Reading(at1, got)
               /\ w[k] = Reading(at1 + Len(q[k]), Cat(got, BlockCells(b, BlockSeq[k])))
  <2> DEFINE u == Len(p[k - 1])
             v == Len(q[k])
  <2>1. /\ k \in 0 .. n /\ k - 1 \in 0 .. n /\ Follows(p[k], p[k - 1], q[k])
    BY <1>0, <1>2, JoinStep
  <2>2. IsCells(c[k - 1]) /\ c[k] = Cat(c[k - 1], BlockCells(b, BlockSeq[k]))
    <3>1. IsCells(c[k - 1]) /\ c[k] = Cat(c[k - 1], s[k])
      BY <1>0, <1>3, CellsJoin
    <3> QED BY <1>1, <3>1
  <2>3. Len(p[k]) = u + v /\ u \in Nat /\ v \in Nat
    BY <2>1 DEF Follows
  <2>4. Found(stream, at0 + u, q[k])
    BY <1>0, <1>2, <1>4, FoundPiece
  <2>5. w[k] = Reading(at0 + Len(p[k]), c[k]) /\ w[k - 1] = Reading(at0 + u, c[k - 1])
    BY <2>1
  <2> HIDE DEF u, w
  <2>6. at0 + u \in Nat /\ at0 + Len(p[k]) = (at0 + u) + v
    <3> HIDE DEF v
    <3> QED BY <2>3
  <2> QED BY <2>2, <2>4, <2>5, <2>6
<1>6. w[0] = Reading(at0, << >>)
  <2>1. p[0] = << >> /\ c[0] = << >> /\ Len(<< >>) = 0 /\ 0 \in 0 .. n /\ at0 + 0 = at0
    BY <1>0, <1>2, <1>3 DEF Joins
  <2> QED BY <2>1
<1>7. w[n].cells = Converted(b)
  <2>1. w[n] = Reading(at0 + Len(p[n]), c[n])
    BY <1>0
  <2>2. Reading(at0 + Len(p[n]), c[n]).cells = c[n]
    BY BodyIs
  <2> HIDE DEF w
  <2> QED BY <1>1, <1>3, <2>1, <2>2
<1>8. w = [k \in 0 .. n |-> w[k]]
  OBVIOUS
<1> HIDE DEF w
<1> QED BY <1>5, <1>6, <1>7, <1>8 DEF Readings

LEMMA L2JReadsBack ==
  ASSUME NEW b, Writable(b)
  PROVE  ReadL2J(L2JStream(b)) = Converted(b)
<1> DEFINE n == NumBlocks
           q == [k \in 1 .. n |-> L2JBlock(b, BlockSeq[k])]
           stream == L2JStream(b)
<1>0. n \in Nat \ {0} /\ n \in Nat /\ n = BlocksX * BlocksY /\ \A k \in 1 .. n : BlockSeq[k] \in Blocks
  BY BlocksOf
<1>1. q \in [1 .. n -> Seq(Nat)] /\ \A k \in 1 .. n : q[k] = L2JBlock(b, BlockSeq[k])
  BY <1>0, BlocksAreTyped
<1>2. stream = FlattenSeq(q)
  BY BlocksOf DEF L2JStream
<1> HIDE DEF q, stream
<1>3. stream \in Seq(Nat)
  BY <1>0, <1>1, <1>2, FlattenIs
<1>4. Found(stream, 1, stream)
  <2>1. Len(stream) \in Nat /\ DOMAIN stream = 1 .. Len(stream)
    BY <1>3
  <2>2. \A i \in 1 .. Len(stream) : 1 + i - 1 = i
    BY <2>1
  <2> QED BY <2>1, <2>2 DEF Found, At
<1>5. PICK w : Readings(w, stream, b, q, 1)
  BY <1>1, <1>2, <1>4, ReadingsExist
<1>6. ASSUME NEW k \in 1 .. n
      PROVE  w[k] = ReadL2JBlock(stream, w[k - 1], BlockSeq[k])
  <2>1. PICK at1, got : /\ at1 \in Nat /\ IsCells(got) /\ Found(stream, at1, q[k])
                         /\ w[k - 1] = Reading(at1, got)
                         /\ w[k] = Reading(at1 + Len(q[k]), Cat(got, BlockCells(b, BlockSeq[k])))
    BY <1>5 DEF Readings
  <2>2. Found(stream, at1, L2JBlock(b, BlockSeq[k]))
    BY <1>1, <2>1
  <2>3. ReadL2JBlock(stream, Reading(at1, got), BlockSeq[k]) =
          Reading(at1 + Len(L2JBlock(b, BlockSeq[k])), Cat(got, BlockCells(b, BlockSeq[k])))
    BY <1>0, <2>1, <2>2, ReadL2JBlockOf
  <2> QED BY <1>1, <2>1, <2>3
<1> DEFINE D == {w[k] : k \in 0 .. n}
<1>7. /\ w \in [0 .. BlocksX * BlocksY -> D] /\ w[0] = [at |-> 1, cells |-> << >>]
      /\ w[BlocksX * BlocksY].cells = Converted(b)
      /\ \A k \in 1 .. BlocksX * BlocksY : w[k] = ReadL2JBlock(stream, w[k - 1], BlockSeq[k])
  <2>1. w = [k \in 0 .. n |-> w[k]] /\ w[0] = Reading(1, << >>) /\ w[n].cells = Converted(b)
    BY <1>5 DEF Readings
  <2>2. w \in [0 .. n -> D]
    BY <2>1
  <2>3. w[0] = [at |-> 1, cells |-> << >>]
    BY <2>1 DEF Reading
  <2> HIDE DEF n, D
  <2> QED BY <1>0, <1>6, <2>1, <2>2, <2>3
<1> HIDE DEF D
<1>8. ReadL2J(stream) = w[BlocksX * BlocksY].cells
  BY <1>7, ReadL2JIs, Zenon
<1> QED BY <1>7, <1>8 DEF stream

LEMMA PtsReadsBack ==
  ASSUME NEW b, Writable(b)
  PROVE  /\ ReadPts(PtsStream(b)) = Converted(b)
         /\ PtsStream(b)[1] = PtsHeader(b)[1] /\ PtsStream(b)[3] = PtsHeader(b)[3]
<1> DEFINE n == NumBlocks
           q == [k \in 1 .. n |-> PtsBlock(b, BlockSeq[k])]
           stream == PtsStream(b)
           header == PtsHeader(b)
<1>0. n \in Nat \ {0} /\ n \in Nat /\ n = BlocksX * BlocksY /\ \A k \in 1 .. n : BlockSeq[k] \in Blocks
  BY BlocksOf
<1>1. q \in [1 .. n -> Seq(Nat)] /\ \A k \in 1 .. n : q[k] = PtsBlock(b, BlockSeq[k])
  BY <1>0, BlocksAreTyped
<1>2. stream = header \o FlattenSeq(q)
  BY BlocksOf DEF PtsStream
<1>a. \E x, y, z : header = << x, y, z >>
  BY DEF PtsHeader
<1> HIDE DEF q, stream, header
<1>3. FlattenSeq(q) \in Seq(Nat)
  BY <1>0, <1>1, FlattenIs
<1>4. /\ stream[1] = header[1] /\ stream[3] = header[3]
      /\ Found(stream, 4, FlattenSeq(q))
  <2>1. PICK x, y, z : header = << x, y, z >>
    BY <1>a
  <2> DEFINE E == Nat \cup {x, y, z}
             body == FlattenSeq(q)
  <2>2. header \in Seq(E) /\ Len(header) = 3
    BY <2>1
  <2>3. body \in Seq(E)
    BY <1>3
  <2> HIDE DEF E, body
  <2>4. header \o body \in Seq(E) /\ Follows(header \o body, header, body)
    BY <2>2, <2>3, Concatenated
  <2>a. stream = header \o body
    BY <1>2 DEF body
  <2>5. stream \in Seq(E) /\ Follows(stream, header, body)
    BY <2>4, <2>a
  <2> DEFINE l == Len(body)
             m == Len(stream)
  <2>6. /\ l \in Nat /\ m = 3 + l /\ DOMAIN stream = 1 .. m
        /\ \A i \in 1 .. 3 : stream[i] = header[i]
        /\ \A i \in 1 .. l : stream[3 + i] = body[i]
    BY <2>2, <2>5 DEF Follows
  <2> HIDE DEF l, m
  <2>7. stream[1] = header[1] /\ stream[3] = header[3]
    BY <2>6
  <2>8. ASSUME NEW i \in 1 .. l PROVE At(stream, 4 + i - 1) = body[i]
    <3>1. 4 + i - 1 = 3 + i /\ 3 + i \in 1 .. m
      BY <2>6
    <3> QED BY <2>6, <3>1 DEF At
  <2>9. Found(stream, 4, body)
    BY <2>8 DEF Found, l
  <2> QED BY <2>7, <2>9 DEF body
<1>5. PICK w : Readings(w, stream, b, q, 4)
  BY <1>1, <1>4, ReadingsExist
<1>6. ASSUME NEW k \in 1 .. n
      PROVE  w[k] = ReadPtsBlock(stream, w[k - 1], BlockSeq[k])
  <2>1. PICK at1, got : /\ at1 \in Nat /\ IsCells(got) /\ Found(stream, at1, q[k])
                         /\ w[k - 1] = Reading(at1, got)
                         /\ w[k] = Reading(at1 + Len(q[k]), Cat(got, BlockCells(b, BlockSeq[k])))
    BY <1>5 DEF Readings
  <2>2. Found(stream, at1, PtsBlock(b, BlockSeq[k]))
    BY <1>1, <2>1
  <2>3. ReadPtsBlock(stream, Reading(at1, got), BlockSeq[k]) =
          Reading(at1 + Len(PtsBlock(b, BlockSeq[k])), Cat(got, BlockCells(b, BlockSeq[k])))
    BY <1>0, <2>1, <2>2, ReadPtsBlockOf
  <2> QED BY <1>1, <2>1, <2>3
<1> DEFINE D == {w[k] : k \in 0 .. n}
<1>7. /\ w \in [0 .. BlocksX * BlocksY -> D] /\ w[0] = [at |-> 4, cells |-> << >>]
      /\ w[BlocksX * BlocksY].cells = Converted(b)
      /\ \A k \in 1 .. BlocksX * BlocksY : w[k] = ReadPtsBlock(stream, w[k - 1], BlockSeq[k])
  <2>1. w = [k \in 0 .. n |-> w[k]] /\ w[0] = Reading(4, << >>) /\ w[n].cells = Converted(b)
    BY <1>5 DEF Readings
  <2>2. w \in [0 .. n -> D]
    BY <2>1
  <2>3. w[0] = [at |-> 4, cells |-> << >>]
    BY <2>1 DEF Reading
  <2> HIDE DEF n, D
  <2> QED BY <1>0, <1>6, <2>1, <2>2, <2>3
<1> HIDE DEF D
<1>8. ReadPts(stream) = w[BlocksX * BlocksY].cells
  BY <1>7, ReadPtsIs, Zenon
<1> QED BY <1>4, <1>7, <1>8 DEF stream, header

-----------------------------------------------------------------------------
(* Counting.                                                               *)

Where(s, S) == {i \in 1 .. Len(s) : s[i] \in S}
Count(s, S) == Cardinality(Where(s, S))

LEMMA UpToIsFinite ==
  ASSUME NEW n \in Nat
  PROVE  IsFiniteSet(1 .. n) /\ Cardinality(1 .. n) = n
<1>1. 1 \in Int /\ n \in Int
  OBVIOUS
<1>2. IsFiniteSet(1 .. n) /\ Cardinality(1 .. n) = IF 1 > n THEN 0 ELSE n - 1 + 1
  BY <1>1, FS_Interval
<1> QED BY <1>2

LEMMA WhereIs ==
  ASSUME NEW s, Len(s) \in Nat, NEW S
  PROVE  IsFiniteSet(Where(s, S)) /\ Count(s, S) \in Nat
<1> DEFINE l == Len(s)
<1>1. IsFiniteSet(1 .. l)
  BY UpToIsFinite
<1>2. Where(s, S) \in SUBSET (1 .. l)
  BY DEF Where
<1> HIDE DEF l
<1>3. IsFiniteSet(Where(s, S))
  BY <1>1, <1>2, FS_Subset
<1> QED BY <1>3, FS_CardinalityType DEF Count

LEMMA CountOfTwo ==
  ASSUME NEW z, NEW x, NEW y, Follows(z, x, y), NEW S
  PROVE  Count(z, S) = Count(x, S) + Count(y, S)
<1> DEFINE l == Len(x)
           m == Len(y)
           A == Where(x, S)
           B == Where(y, S)
           C == {l + j : j \in B}
           f == [j \in B |-> l + j]
<1>1. /\ Len(z) = l + m /\ l \in Nat /\ m \in Nat
      /\ \A i \in 1 .. l : z[i] = x[i]
      /\ \A i \in 1 .. m : z[l + i] = y[i]
  BY DEF Follows
<1>2. /\ A = {i \in 1 .. l : x[i] \in S} /\ B = {i \in 1 .. m : y[i] \in S}
      /\ IsFiniteSet(A) /\ IsFiniteSet(B)
      /\ Count(x, S) = Cardinality(A) /\ Count(y, S) = Cardinality(B)
      /\ Cardinality(A) \in Nat /\ Cardinality(B) \in Nat
  BY <1>1, WhereIs DEF Where, Count
<1> HIDE DEF A, B, l, m
<1>3. Where(z, S) = A \cup C
  <2>1. Where(z, S) = {i \in 1 .. l + m : z[i] \in S}
    BY <1>1 DEF Where
  <2>2. ASSUME NEW i \in 1 .. l + m, z[i] \in S PROVE i \in A \cup C
    <3>1. CASE i <= l
      <4>1. i \in 1 .. l
        BY <1>1, <3>1
      <4> QED BY <1>1, <1>2, <2>2, <4>1
    <3>2. CASE ~(i <= l)
      <4>1. i - l \in 1 .. m /\ l + (i - l) = i
        BY <1>1, <3>2
      <4>2. i - l \in B
        BY <1>1, <1>2, <2>2, <4>1
      <4> QED BY <4>1, <4>2
    <3> QED BY <3>1, <3>2
  <2>3. ASSUME NEW i \in A PROVE i \in 1 .. l + m /\ z[i] \in S
    <3>1. i \in 1 .. l /\ x[i] \in S
      BY <1>2
    <3> QED BY <1>1, <3>1
  <2>4. ASSUME NEW j \in B PROVE l + j \in 1 .. l + m /\ z[l + j] \in S
    <3>1. j \in 1 .. m /\ y[j] \in S
      BY <1>2
    <3> QED BY <1>1, <3>1
  <2> QED BY <2>1, <2>2, <2>3, <2>4
<1>4. A \cap C = {}
  <2> SUFFICES ASSUME NEW j \in B, l + j \in A PROVE FALSE
    OBVIOUS
  <2>1. j \in 1 .. m /\ l + j \in 1 .. l
    BY <1>2
  <2> QED BY <1>1, <2>1
<1>5. f \in Bijection(B, C)
  <2>1. f \in [B -> C] /\ \A t \in C : \E j \in B : f[j] = t
    OBVIOUS
  <2>2. \A i, j \in B : f[i] = f[j] => i = j
    <3> SUFFICES ASSUME NEW i \in B, NEW j \in B, l + i = l + j PROVE i = j
      OBVIOUS
    <3>1. i \in Int /\ j \in Int
      BY <1>2
    <3> QED BY <1>1, <3>1
  <2> QED BY <2>1, <2>2 DEF Bijection, Injection, IsInjective, Surjection
<1> HIDE DEF C, f
<1>6. IsFiniteSet(C) /\ Cardinality(C) = Cardinality(B)
  BY <1>2, <1>5, FS_Bijection DEF ExistsBijection
<1>7. Cardinality(A \cup C) = Cardinality(A) + Cardinality(C) - Cardinality(A \cap C)
  BY <1>2, <1>6, FS_Union
<1>8. Cardinality(A \cap C) = 0
  BY <1>4, FS_EmptySet
<1> QED BY <1>2, <1>3, <1>6, <1>7, <1>8 DEF Count

LEMMA CountAll ==
  ASSUME NEW s, Len(s) \in Nat, NEW S
  PROVE  /\ Members(s) \in SUBSET S => Count(s, S) = Len(s)
         /\ Members(s) \cap S = {} => Count(s, S) = 0
<1> DEFINE l == Len(s)
<1>1. ASSUME Members(s) \in SUBSET S PROVE Count(s, S) = l
  <2>1. Where(s, S) = 1 .. l
    BY <1>1 DEF Where, Members
  <2> HIDE DEF l
  <2> QED BY <2>1, UpToIsFinite DEF Count, l
<1>2. ASSUME Members(s) \cap S = {} PROVE Count(s, S) = 0
  <2>1. Where(s, S) = {}
    BY <1>2 DEF Where, Members
  <2> QED BY <2>1, FS_EmptySet DEF Count
<1> QED BY <1>1, <1>2

FlatCells == {c \in CellAtRec : c.type = SimpleType}
TallCells == {c \in CellAtRec : c.type # SimpleType}

LEMMA CountsOfBlock ==
  ASSUME NEW b, Writable(b), NEW block \in Blocks
  PROVE  /\ Len(BlockCells(b, block)) \in Nat
         /\ b.types[block] = SimpleType =>
              Count(BlockCells(b, block), FlatCells) = 1 /\ Count(BlockCells(b, block), TallCells) = 0
         /\ b.types[block] # SimpleType =>
              /\ Count(BlockCells(b, block), FlatCells) = 0
              /\ Count(BlockCells(b, block), TallCells) = Layers(b, block)
<1> DEFINE c == BlockCells(b, block)
           t == b.types[block]
<1>0. /\ Typed(b) /\ Layered(b.columns) /\ t \in Types3
      /\ BlockArea \in Nat /\ MultilayerType \in Types3
  BY Sizes DEF Writable, Typed, Types3
<1>1. c \in Seq(CellAtRec)
  BY <1>0, BlockCellsAre
<1>2. Len(c) \in Nat /\ Members(c) \in SUBSET CellAtRec
  <2> HIDE DEF c
  <2>1. Len(c) \in Nat /\ \A i \in 1 .. Len(c) : c[i] \in CellAtRec
    BY <1>1
  <2> QED BY <2>1 DEF Members
<1>a. \A place, type, cell : CellAt(place, type, cell).type = type
  BY DEF CellAt
<1>3. \A e \in Members(c) : e.type = t
  <2>1. CASE t = SimpleType
    BY <1>0, <1>a, <2>1, BlockCellsAre
  <2>2. CASE t = ComplexType
    BY <1>0, <1>a, <2>2, BlockCellsAre
  <2>3. CASE t = MultilayerType
    <3>1. Members(c) = UNION {{CellAt(place, MultilayerType, b.columns[place][i]) :
                                 i \in 1 .. Len(b.columns[place])} : place \in CellsOf(block)}
      BY <1>0, <2>3, BlockCellsAre
    <3> QED BY <1>a, <2>3, <3>1
  <2> QED BY <1>0, <2>1, <2>2, <2>3 DEF Types3
<1>4. t = SimpleType => Members(c) \in SUBSET FlatCells /\ Members(c) \cap TallCells = {}
  <2> HIDE DEF c, t
  <2> QED BY <1>2, <1>3 DEF FlatCells, TallCells
<1>5. t # SimpleType => Members(c) \in SUBSET TallCells /\ Members(c) \cap FlatCells = {}
  <2> HIDE DEF c, t
  <2> QED BY <1>2, <1>3 DEF FlatCells, TallCells
<1>6. t = SimpleType => Len(c) = 1
  <2> SUFFICES ASSUME t = SimpleType PROVE Len(c) = 1
    OBVIOUS
  <2>1. c = << CellAt(Origin(block), SimpleType, b.columns[Origin(block)][1]) >>
    BY <1>0, BlockCellsIs
  <2> DEFINE e == CellAt(Origin(block), SimpleType, b.columns[Origin(block)][1])
  <2> HIDE DEF e, c
  <2>2. c = << e >>
    BY <2>1 DEF e
  <2> QED BY <2>2
<1>7. t # SimpleType => Len(c) = Layers(b, block)
  <2>1. CASE t = ComplexType
    <3>1. c = [n \in 1 .. BlockArea |->
                 CellAt(CellSeq(block)[n], ComplexType, b.columns[CellSeq(block)[n]][1])]
      BY <1>0, <2>1, BlockCellsIs
    <3>2. DOMAIN c = 1 .. BlockArea
      <4> HIDE DEF c
      <4> QED BY <3>1
    <3>3. Layers(b, block) = BlockArea
      BY <2>1, PtsTypeIs
    <3> HIDE DEF c
    <3>4. Len(c) = BlockArea
      BY <1>0, <1>1, <3>2
    <3> QED BY <3>3, <3>4
  <2>2. CASE t = MultilayerType
    <3>1. c = FlattenSeq(BlockPieces(b, block, MultilayerType))
      BY <1>0, <2>2, BlockCellsIs
    <3>2. PICK p : /\ FlattenSeq(BlockPieces(b, block, MultilayerType)) = p[BlockArea]
                   /\ Len(p[BlockArea]) = Layers(b, block)
      BY <1>0, LayersAre
    <3> QED BY <3>1, <3>2
  <2> QED BY <1>0, <2>1, <2>2 DEF Types3
<1> HIDE DEF c, t
<1>8. t = SimpleType => Count(c, FlatCells) = 1 /\ Count(c, TallCells) = 0
  BY <1>2, <1>4, <1>6, CountAll
<1>9. t # SimpleType => Count(c, FlatCells) = 0 /\ Count(c, TallCells) = Layers(b, block)
  BY <1>2, <1>5, <1>7, CountAll
<1> QED BY <1>2, <1>8, <1>9 DEF c, t

LEMMA CountsOfAll ==
  ASSUME NEW b, Writable(b)
  PROVE  /\ Converted(b) \in Seq(CellAtRec)
         /\ PtsHeader(b)[1] = Count(Converted(b), TallCells)
         /\ PtsHeader(b)[3] = Count(Converted(b), FlatCells)
<1> DEFINE n == NumBlocks
           s == CellPieces(b)
           flat == FlatBlocks(b)
<1>0. /\ n \in Nat \ {0} /\ n \in Nat /\ n = BlocksX * BlocksY
      /\ \A k \in 1 .. n : BlockSeq[k] \in Blocks
  BY BlocksOf
<1>1. /\ s \in [1 .. n -> Seq(CellAtRec)]
      /\ \A k \in 1 .. n : s[k] = BlockCells(b, BlockSeq[k])
      /\ Converted(b) = FlattenSeq(s)
  <2>1. \A k \in 1 .. n : BlockCells(b, BlockSeq[k]) \in Seq(CellAtRec)
    BY <1>0, BodyCells DEF IsCells
  <2>2. Converted(b) = FlattenSeq([k \in DOMAIN BlockSeq |-> BlockCells(b, BlockSeq[k])])
    BY DEF Converted
  <2> QED BY <2>1, <2>2, BlocksOf DEF CellPieces
<1> HIDE DEF s
<1>2. PICK c : Joins(c, s, n, CellAtRec) /\ FlattenSeq(s) = c[n]
  BY <1>0, <1>1, FlattenIs
<1>3. FlattenSeq(s) \in Seq(CellAtRec)
  BY <1>0, <1>1, FlattenIs
<1>a. flat \in SUBSET Blocks /\ \A x \in Blocks : x \in flat <=> b.types[x] = SimpleType
  BY PtsTypeIs DEF FlatBlocks
<1> HIDE DEF flat
<1>4. ASSUME NEW k \in 1 .. n
      PROVE  /\ Count(c[k], TallCells) = Count(c[k - 1], TallCells) +
                  (IF BlockSeq[k] \in flat THEN 0 ELSE Layers(b, BlockSeq[k]))
             /\ Count(c[k], FlatCells) = Count(c[k - 1], FlatCells) +
                  (IF BlockSeq[k] \in flat THEN 1 ELSE 0)
             /\ k \in 0 .. n /\ k - 1 \in 0 .. n
  <2>1. k \in 0 .. n /\ k - 1 \in 0 .. n /\ Follows(c[k], c[k - 1], s[k])
    BY <1>0, <1>2, JoinStep
  <2>2. /\ Count(c[k], TallCells) = Count(c[k - 1], TallCells) + Count(s[k], TallCells)
        /\ Count(c[k], FlatCells) = Count(c[k - 1], FlatCells) + Count(s[k], FlatCells)
    BY <2>1, CountOfTwo
  <2>3. CASE BlockSeq[k] \in flat
    <3>1. Count(s[k], TallCells) = 0 /\ Count(s[k], FlatCells) = 1
      BY <1>0, <1>1, <1>a, <2>3, CountsOfBlock
    <3> QED BY <2>1, <2>2, <2>3, <3>1
  <2>4. CASE BlockSeq[k] \notin flat
    <3>1. Count(s[k], TallCells) = Layers(b, BlockSeq[k]) /\ Count(s[k], FlatCells) = 0
      BY <1>0, <1>1, <1>a, <2>4, CountsOfBlock
    <3> QED BY <2>1, <2>2, <2>4, <3>1
  <2> QED BY <2>3, <2>4
<1>5. Count(c[0], TallCells) = 0 /\ Count(c[0], FlatCells) = 0
  <2>1. c[0] = << >> /\ Len(<< >>) = 0
    BY <1>2 DEF Joins
  <2>2. Members(c[0]) = {} /\ Len(c[0]) \in Nat /\ Len(c[0]) = 0
    BY <2>1 DEF Members
  <2> QED BY <2>2, CountAll
(* The cells of blocks that are not flat.                                  *)
<1>6. PtsHeader(b)[1] = Count(c[n], TallCells) /\ PtsHeader(b)[3] = Cardinality(flat)
  <2> DEFINE w == [k \in 0 .. n |-> Count(c[k], TallCells)]
             D == {Count(c[k], TallCells) : k \in 0 .. n}
  <2>1. w \in [0 .. n -> D] /\ w[0] = 0 /\ w[n] = Count(c[n], TallCells)
    <3>1. 0 \in 0 .. n /\ n \in 0 .. n
      BY <1>0
    <3> QED BY <1>5, <3>1
  <2>2. \A k \in 1 .. n :
          w[k] = w[k - 1] + (IF BlockSeq[k] \in flat THEN 0 ELSE Layers(b, BlockSeq[k]))
    BY <1>4
  <2> HIDE DEF w, D
  <2>3. /\ w \in [0 .. BlocksX * BlocksY -> D]
        /\ \A k \in 1 .. BlocksX * BlocksY :
             w[k] = w[k - 1] + (IF BlockSeq[k] \in flat THEN 0 ELSE Layers(b, BlockSeq[k]))
        /\ w[BlocksX * BlocksY] = w[n]
    <3> HIDE DEF n
    <3> QED BY <1>0, <2>1, <2>2
  <2>a. w[0] = 0
    BY <2>1
  <2>b. PtsHeader(b)[1] = w[BlocksX * BlocksY]
    BY <2>a, <2>3, HeaderIs, Zenon DEF flat
  <2>c. PtsHeader(b)[3] = Cardinality(flat)
    BY <2>a, <2>3, HeaderIs, Zenon DEF flat
  <2>4. PtsHeader(b)[1] = w[BlocksX * BlocksY] /\ PtsHeader(b)[3] = Cardinality(flat)
    BY <2>b, <2>c
  <2> QED BY <2>1, <2>3, <2>4
(* The flat blocks.                                                        *)
<1>7. Count(c[n], FlatCells) = Cardinality(flat)
  <2> DEFINE H(k) == {j \in 1 .. k : BlockSeq[j] \in flat}
             w == [k \in 0 .. n |-> Count(c[k], FlatCells)]
             g == [k \in 0 .. n |-> Cardinality(H(k))]
  <2>1. ASSUME NEW k \in 0 .. n PROVE IsFiniteSet(H(k))
    <3>1. IsFiniteSet(1 .. k) /\ H(k) \in SUBSET (1 .. k)
      BY <1>0, UpToIsFinite
    <3> QED BY <3>1, FS_Subset
  <2>2. ASSUME NEW k \in 1 .. n
        PROVE  Cardinality(H(k)) = Cardinality(H(k - 1)) + (IF BlockSeq[k] \in flat THEN 1 ELSE 0)
    <3>0. k - 1 \in 0 .. n /\ IsFiniteSet(H(k - 1))
      BY <1>4, <2>1
    <3>1. Cardinality(H(k - 1)) \in Nat
      BY <3>0, FS_CardinalityType
    <3>2. k \notin H(k - 1)
      OBVIOUS
    <3>3. 1 .. k = (1 .. k - 1) \cup {k}
      OBVIOUS
    <3>4. CASE BlockSeq[k] \in flat
      <4>1. H(k) = H(k - 1) \cup {k}
        BY <3>3, <3>4
      <4> HIDE DEF H
      <4>2. Cardinality(H(k)) = Cardinality(H(k - 1)) + 1
        BY <3>0, <3>2, <4>1, FS_AddElement
      <4> QED BY <3>4, <4>2
    <3>5. CASE BlockSeq[k] \notin flat
      <4>1. H(k) = H(k - 1)
        BY <3>3, <3>5
      <4> HIDE DEF H
      <4> QED BY <3>1, <3>5, <4>1
    <3> QED BY <3>4, <3>5
  <2>3. Cardinality(H(0)) = 0
    <3>1. H(0) = {}
      OBVIOUS
    <3> HIDE DEF H
    <3> QED BY <3>1, FS_EmptySet
  <2> DEFINE f == [j \in H(n) |-> BlockSeq[j]]
  <2>4. f \in Bijection(H(n), flat)
    <3>1. f \in [H(n) -> flat]
      OBVIOUS
    <3>2. \A i, j \in H(n) : f[i] = f[j] => i = j
      <4>1. \A i \in H(n) : i \in 1 .. n /\ f[i] = BlockSeq[i] /\ IndexOf(BlockSeq[i]) = i
        BY <1>0, BlocksInOrder
      <4> QED BY <4>1
    <3>3. \A x \in flat : \E j \in H(n) : f[j] = x
      <4> SUFFICES ASSUME NEW x \in flat PROVE \E j \in H(n) : f[j] = x
        OBVIOUS
      <4>1. IndexOf(x) \in 1 .. n /\ BlockSeq[IndexOf(x)] = x
        BY <1>0, <1>a, BlocksInOrder
      <4> QED BY <4>1
    <3> HIDE DEF f, H
    <3> QED BY <3>1, <3>2, <3>3 DEF Bijection, Injection, IsInjective, Surjection
  <2>5. n \in 0 .. n /\ 0 \in 0 .. n
    BY <1>0
  <2> HIDE DEF H, f
  <2>6. Cardinality(flat) = Cardinality(H(n))
    BY <2>1, <2>4, <2>5, FS_Bijection DEF ExistsBijection
  <2>7. g[0] = w[0]
    BY <1>5, <2>3, <2>5
  <2>8. \A k \in 1 .. n : g[k - 1] = w[k - 1] => g[k] = w[k]
    <3> SUFFICES ASSUME NEW k \in 1 .. n, g[k - 1] = w[k - 1] PROVE g[k] = w[k]
      OBVIOUS
    <3>1. k \in 0 .. n /\ k - 1 \in 0 .. n
      BY <1>4
    <3>2. /\ g[k] = Cardinality(H(k)) /\ g[k - 1] = Cardinality(H(k - 1))
          /\ w[k] = Count(c[k], FlatCells) /\ w[k - 1] = Count(c[k - 1], FlatCells)
      BY <3>1
    <3> HIDE DEF g, w
    <3> QED BY <1>4, <2>2, <3>2
  <2>9. g[n] = Cardinality(H(n)) /\ w[n] = Count(c[n], FlatCells)
    BY <2>5
  <2> HIDE DEF g, w
  <2>10. n \in Nat
    BY <1>0
  <2>11. g[n] = w[n]
    <3> HIDE DEF n
    <3> QED BY <2>7, <2>8, <2>10, Alike
  <2> QED BY <2>6, <2>9, <2>11
<1> QED BY <1>1, <1>2, <1>3, <1>6, <1>7

-----------------------------------------------------------------------------
(* What is written can be read back.                                       *)

LEMMA RoundedStays ==
  ASSUME NEW s \in Int, -65536 <= s, s <= 65534
  PROVE  /\ Rounded(Truncated(s, 2)) \in Int
         /\ -32768 <= Rounded(Truncated(s, 2)) /\ Rounded(Truncated(s, 2)) <= 32767
<1> DEFINE t == Truncated(s, 2)
<1>1. t \in Int /\ -32768 <= t /\ t <= 32767
  BY DEF Truncated
<1> HIDE DEF t
<1>2. Rounded(t) \in Int /\ -32768 <= Rounded(t) /\ Rounded(t) <= 32767
  BY <1>1 DEF Rounded, Truncated
<1> QED BY <1>2 DEF t

LEMMA SimpleColumns ==
  ASSUME Cleared, NEW block \in Blocks, Simple(Raw, block), NEW place \in CellsOf(block)
  PROVE  /\ place \in Cells /\ BlockOf(place) = block /\ Len(Raw[place]) = 1
         /\ Raw[place][1].open = Compass /\ Raw[place][1] \in Members(Raw[place])
         /\ Kept(place) # {}
<1>0. place \in Cells /\ BlockOf(place) = block
  BY InBlock
<1> DEFINE l == Len(Raw[place])
<1>1. l \in Nat /\ l # 0
  BY <1>0, RawColumn
<1>2. ~(l > 1)
  BY DEF Simple, Multilayer
<1> HIDE DEF l
<1>3. l = 1
  BY <1>1, <1>2
<1>4. Raw[place][1].open = Compass
  BY DEF Simple, Lowest
<1>5. Members(Raw[place]) = {Raw[place][1]}
  BY <1>3, FirstOfOne DEF l
<1>6. Kept(place) # {}
  <2> SUFFICES ASSUME Kept(place) = {} PROVE FALSE
    OBVIOUS
  <2>1. Members(Raw[place]) = {Packed(FakeCell)}
    BY <1>0, RawColumn
  <2>2. Raw[place][1] = Packed(FakeCell)
    BY <1>5, <2>1
  <2> QED BY <1>4, <2>2, FakeIs DEF Compass
<1> QED BY <1>0, <1>3, <1>4, <1>5, <1>6 DEF l

LEMMA SealedIsWritable ==
  ASSUME Cleared, NoOverflow, ~Refused(Sealed)
  PROVE  Writable(Sealed)
<1>0. Layered(Raw) /\ Eights(Raw)
  BY BuiltIsPut, RawEights
<1>1. /\ Typed(Sealed)
      /\ \A block \in Blocks : /\ Sealed.types[block] = SimpleType <=> Simple(Raw, block)
                               /\ Sealed.types[block] = MultilayerType <=> Multilayer(Raw, block)
      /\ \A place \in Cells :
           /\ Len(Sealed.columns[place]) = Len(Raw[place])
           /\ ~Simple(Raw, BlockOf(place)) => Sealed.columns[place] = Raw[place]
  BY SealedIs
<1>2. \A place \in Cells :
        /\ ~(place = Origin(BlockOf(place)) /\ Simple(Raw, BlockOf(place))) =>
             Sealed.columns[place] = Raw[place]
        /\ place = Origin(BlockOf(place)) /\ Simple(Raw, BlockOf(place)) =>
             /\ Sealed.columns[place][1].open = Raw[place][1].open
             /\ Sealed.columns[place][1].z = Rounded(MiddleHeight(Raw, BlockOf(place)))
  BY <1>0, CompressedIs DEF Sealed
<1>3. Eights(Sealed.columns)
  <2> SUFFICES ASSUME NEW place \in Cells, NEW i \in 1 .. Len(Sealed.columns[place])
               PROVE  Sealed.columns[place][i].z % 8 = 0
    BY DEF Eights
  <2>0. Len(Sealed.columns[place]) = Len(Raw[place]) /\ BlockOf(place) \in Blocks
    BY <1>1, CellsOfBlocks
  <2>1. CASE ~(place = Origin(BlockOf(place)) /\ Simple(Raw, BlockOf(place)))
    BY <1>0, <1>2, <2>0, <2>1 DEF Eights
  <2>2. CASE place = Origin(BlockOf(place)) /\ Simple(Raw, BlockOf(place))
    <3>1. Len(Raw[place]) = 1
      BY <2>0, <2>2, InBlock, SimpleColumns
    <3>2. i = 1
      BY <2>0, <3>1
    <3>3. Sealed.columns[place][1].z = Rounded(MiddleHeight(Raw, BlockOf(place)))
      BY <1>2, <2>2
    <3>4. Rounded(MiddleHeight(Raw, BlockOf(place))) % 8 = 0
      BY <1>0, <2>0, <2>2, MiddleIs
    <3> QED BY <3>2, <3>3, <3>4
  <2> QED BY <2>1, <2>2
<1>4. ASSUME NEW block \in Blocks
      PROVE  Sealed.types[block] = MultilayerType <=> Multilayer(Sealed.columns, block)
  <2>1. \A place \in CellsOf(block) : Len(Sealed.columns[place]) = Len(Raw[place])
    BY <1>1, InBlock
  <2>2. Multilayer(Sealed.columns, block) <=> Multilayer(Raw, block)
    BY <2>1 DEF Multilayer
  <2> QED BY <1>1, <2>2
<1>5. ASSUME NEW block \in Blocks, Sealed.types[block] = SimpleType
      PROVE  /\ Within(Sealed.columns[Origin(block)][1].z, -32768, 32767)
             /\ Sealed.columns[Origin(block)][1].open = Compass
  <2>0. Simple(Raw, block) /\ Origin(block) \in CellsOf(block)
    BY <1>1, <1>5, InBlock
  <2>1. /\ Origin(block) \in Cells /\ BlockOf(Origin(block)) = block
        /\ Raw[Origin(block)][1].open = Compass
    BY <2>0, SimpleColumns
  <2> DEFINE m == Rounded(MiddleHeight(Raw, block))
  <2>2. Sealed.columns[Origin(block)][1].open = Compass /\ Sealed.columns[Origin(block)][1].z = m
    BY <1>2, <2>0, <2>1
  <2>3. m \in Int /\ \E low, high \in Lowest(Raw, block) : low.z <= m /\ m <= high.z
    BY <1>0, <2>0, MiddleIs
  <2>4. \A cell \in Lowest(Raw, block) : cell.z \in Int /\ -32768 <= cell.z /\ cell.z <= 32767
    <3> SUFFICES ASSUME NEW place \in CellsOf(block)
                 PROVE  /\ Raw[place][1].z \in Int
                        /\ -32768 <= Raw[place][1].z /\ Raw[place][1].z <= 32767
      BY DEF Lowest
    <3>1. /\ place \in Cells /\ Kept(place) # {}
          /\ Raw[place][1] \in Members(Raw[place])
      BY <2>0, SimpleColumns
    <3>2. PICK i \in Kept(place) : Raw[place][1] = Packed(CellOf(grid[place][i]))
      BY <3>1, RawColumn
    <3>3. Raw[place][1].z = Quantized(grid[place][i])
      BY <3>1, <3>2, CellOfSpan
    <3> DEFINE s == Surface(grid[place][i])
    <3>4. place \in Columns /\ i \in DOMAIN grid[place]
      BY <3>1, Sizes DEF Kept
    <3>5. s \in Int /\ ~(s < -65536 \/ s > 65534)
      BY <3>4, SurfaceIs DEF NoOverflow, Overflows
    <3>6. Quantized(grid[place][i]) = Rounded(Truncated(s, 2))
      BY DEF Quantized
    <3> HIDE DEF s
    <3>7. -65536 <= s /\ s <= 65534
      BY <3>5
    <3> QED BY <3>3, <3>5, <3>6, <3>7, RoundedStays
  <2> HIDE DEF m
  <2>5. -32768 <= m /\ m <= 32767
    <3>1. PICK low \in Lowest(Raw, block), high \in Lowest(Raw, block) : low.z <= m /\ m <= high.z
      BY <2>3
    <3> DEFINE a == low.z
               c == high.z
    <3>2. /\ a \in Int /\ c \in Int /\ a <= m /\ m <= c
          /\ -32768 <= a /\ c <= 32767
      BY <2>4, <3>1
    <3> HIDE DEF a, c
    <3> QED BY <2>3, <3>2
  <2> QED BY <2>2, <2>5 DEF Within
<1>6. ASSUME NEW block \in Blocks, Sealed.types[block] # SimpleType,
             NEW place \in CellsOf(block), NEW i \in 1 .. Len(Sealed.columns[place])
      PROVE  InRange(Sealed.columns[place][i].z)
  <2>0. ~Simple(Raw, block) /\ place \in Cells /\ BlockOf(place) = block
    BY <1>1, <1>6, InBlock
  <2>1. Sealed.columns[place] = Raw[place]
    BY <1>1, <2>0
  <2> DEFINE c == BlockCells(Sealed, block)
  <2>2. c \in Seq(CellAtRec)
    BY <1>1, BlockCellsAre
  <2>3. {a.z : a \in Members(c)} =
          UNION {{cell.z : cell \in Members(Raw[q])} : q \in CellsOf(block)}
    BY <2>0, HeightsOfBlock
  <2>4. Raw[place][i].z \in {a.z : a \in Members(c)}
    <3>1. Raw[place][i] \in Members(Raw[place])
      BY <2>1 DEF Members
    <3> DEFINE H == [q \in CellsOf(block) |-> {cell.z : cell \in Members(Raw[q])}]
    <3>2. Raw[place][i].z \in H[place] /\ place \in CellsOf(block)
      BY <3>1
    <3>3. Raw[place][i].z \in UNION {H[q] : q \in CellsOf(block)}
      BY <3>2
    <3>4. {a.z : a \in Members(c)} = UNION {H[q] : q \in CellsOf(block)}
      BY <2>3
    <3> HIDE DEF H, c
    <3> QED BY <3>3, <3>4
  <2>a. \A k \in DOMAIN c : ~OutOfRange(c[k])
    BY <1>6 DEF Refused
  <2> HIDE DEF c
  <2>5. \A a \in Members(c) : a.z \in Int /\ ~OutOfRange(a)
    <3>1. DOMAIN c = 1 .. Len(c) /\ \A k \in 1 .. Len(c) : c[k] \in CellAtRec
      BY <2>2
    <3> QED BY <2>a, <3>1 DEF Members, CellAtRec
  <2>6. PICK a \in Members(c) : a.z = Raw[place][i].z
    BY <2>4
  <2> DEFINE z == a.z
  <2>7. z \in Int /\ ~(z < -16384 \/ z > 16376) /\ Sealed.columns[place][i].z = z
    BY <2>1, <2>5, <2>6 DEF OutOfRange
  <2> HIDE DEF z
  <2> QED BY <2>7 DEF InRange, Within
<1> QED BY <1>1, <1>3, <1>4, <1>5, <1>6 DEF Writable

(* BothFormatsReadBack, of every region: what a reader finds in either     *)
(* stream is what the buffer has, cell for cell, and the counters of the   *)
(* client's header are those of what follows (L2JSerializer.cpp:44-90,     *)
(* PtsSerializer.cpp:13-95).                                               *)
THEOREM FormatsReadBack == Spec => []BothFormatsReadBack
<1>1. DataInv => BothFormatsReadBack
  <2> SUFFICES ASSUME DataInv, phase = "done" PROVE BothFormatsReadBack
    BY DEF BothFormatsReadBack
  <2>1. /\ PassInv /\ NoOverflow /\ ~Refused(Sealed) /\ buffer = Sealed
        /\ l2j = L2JStream(Sealed) /\ dat = PtsStream(Sealed)
    BY DEF DataInv
  <2> DEFINE read == ReadL2J(l2j)
             flat == {n \in DOMAIN read : read[n].type = SimpleType}
  <2>2. Writable(Sealed)
    BY <2>1, ClearedIs, SealedIsWritable
  <2>3. read = Converted(Sealed) /\ ReadPts(dat) = Converted(Sealed)
    BY <2>1, <2>2, L2JReadsBack, PtsReadsBack
  <2>4. /\ read \in Seq(CellAtRec)
        /\ dat[1] = Count(read, TallCells) /\ dat[3] = Count(read, FlatCells)
    BY <2>1, <2>2, <2>3, PtsReadsBack, CountsOfAll
  <2> HIDE DEF read
  <2>5. DOMAIN read = 1 .. Len(read) /\ \A n \in 1 .. Len(read) : read[n] \in CellAtRec
    BY <2>4
  <2>6. Where(read, FlatCells) = flat /\ Where(read, TallCells) = DOMAIN read \ flat
    BY <2>5 DEF Where, FlatCells, TallCells
  <2>7. dat[1] = Cardinality(DOMAIN read \ flat) /\ dat[3] = Cardinality(flat)
    BY <2>4, <2>6 DEF Count
  <2> QED BY <2>1, <2>3, <2>7 DEF BothFormatsReadBack, read
<1> QED BY <1>1, DataInvariant, PTL

-----------------------------------------------------------------------------
(* What is written is what was generated.                                  *)

LEMMA RoundedNear ==
  ASSUME NEW s \in Int
  PROVE  /\ 2 * Rounded(Truncated(s, 2)) - s < 16
         /\ s - 2 * Rounded(Truncated(s, 2)) < 16
<1> DEFINE t == Truncated(s, 2)
<1>1. t \in Int /\ (s >= 0 => t >= 0 /\ 0 <= s - 2 * t /\ s - 2 * t <= 1)
      /\ (s < 0 => t <= 0 /\ 0 <= 2 * t - s /\ 2 * t - s <= 1)
  BY DEF Truncated
<1> HIDE DEF t
<1> DEFINE r == Rounded(t)
<1>2. r \in Int /\ (t >= 0 => 0 <= t - r /\ t - r <= 7) /\ (t < 0 => 0 <= r - t /\ r - t <= 7)
  BY <1>1 DEF Rounded, Truncated
<1>3. t = 0 => r = 0
  BY DEF Rounded, Truncated
<1> HIDE DEF r
<1>4. 2 * r - s < 16 /\ s - 2 * r < 16
  BY <1>1, <1>2, <1>3
<1> QED BY <1>4 DEF r, t

LEMMA RoundedGrows ==
  ASSUME NEW x \in Int, NEW y \in Int, y - x >= 32
  PROVE  Rounded(Truncated(x, 2)) < Rounded(Truncated(y, 2))
<1> DEFINE t == Truncated(x, 2)
           u == Truncated(y, 2)
<1>1. t \in Int /\ u \in Int /\ u - t >= 15
  BY DEF Truncated
<1> HIDE DEF t, u
<1>2. Rounded(t) < Rounded(u)
  BY <1>1 DEF Rounded, Truncated
<1> QED BY <1>2 DEF t, u

(* No two surfaces of a column are kept at one height.                     *)
LEMMA HeightsDiffer ==
  ASSUME Cleared, NEW place \in Cells, NEW i \in Kept(place), NEW j \in Kept(place), i # j
  PROVE  Quantized(grid[place][i]) # Quantized(grid[place][j])
<1>0. place \in Columns
  BY Sizes
<1>1. i \in Nat /\ j \in Nat /\ i \in DOMAIN grid[place] /\ j \in DOMAIN grid[place]
  BY <1>0, KeptIs
<1>2. ASSUME NEW a \in Kept(place), NEW c \in Kept(place), a < c
      PROVE  Quantized(grid[place][a]) < Quantized(grid[place][c])
  <2> DEFINE x == Surface(grid[place][a])
             y == Surface(grid[place][c])
             h == (ActorHeight + 1) * CellHeight
  <2>1. x \in Int /\ y \in Int
    BY <1>0, SurfaceIs, KeptIs
  <2>2. h \in Nat /\ y - x >= 2 * h
    BY <1>0, <1>2, KeptApart
  <2>3. h >= 16
    BY RoundingAssumption DEF RoundingAssumption
  <2>4. Quantized(grid[place][a]) = Rounded(Truncated(x, 2)) /\ Quantized(grid[place][c]) = Rounded(Truncated(y, 2))
    BY DEF Quantized
  <2> HIDE DEF x, y, h
  <2>5. y - x >= 32
    BY <2>1, <2>2, <2>3
  <2> QED BY <2>1, <2>4, <2>5, RoundedGrows
<1>3. i < j \/ j < i
  BY <1>1
<1>4. Quantized(grid[place][i]) \in Int /\ Quantized(grid[place][j]) \in Int
  BY CellOfSpan
<1>5. CASE i < j
  <2>1. Quantized(grid[place][i]) < Quantized(grid[place][j])
    BY <1>2, <1>5
  <2> QED BY <1>4, <2>1
<1>6. CASE j < i
  <2>1. Quantized(grid[place][j]) < Quantized(grid[place][i])
    BY <1>2, <1>6
  <2> QED BY <1>4, <2>1
<1> QED BY <1>3, <1>5, <1>6

(* The square of a block, from its origin.                                 *)
LEMMA Square ==
  ASSUME NEW place \in Cells, NEW block \in Blocks
  PROVE  /\ Origin(block)[1] = block[1] * BlockSide /\ Origin(block)[2] = block[2] * BlockSide
         /\ (/\ place[1] - Origin(block)[1] \in 0 .. BlockSide - 1
             /\ place[2] - Origin(block)[2] \in 0 .. BlockSide - 1)
            <=> BlockOf(place) = block
<1>1. /\ place[1] \in Nat /\ place[2] \in Nat
      /\ block[1] \in Nat /\ block[2] \in Nat /\ block = <<block[1], block[2]>>
      /\ BlockSide \in Nat \ {0} /\ BlockArea \in Nat \ {0} /\ 1 \in 1 .. BlockArea
  BY Sizes DEF Cells, Blocks
<1>2. Origin(block) = << (block[1] * BlockSide) + ((1 - 1) \div BlockSide),
                         (block[2] * BlockSide) + ((1 - 1) % BlockSide) >>
  BY <1>1 DEF Origin, CellSeq
<1>3. (1 - 1) \div BlockSide = 0 /\ (1 - 1) % BlockSide = 0
  BY <1>1
<1> DEFINE d == BlockSide
           x == block[1] * d
           y == block[2] * d
<1>4. x \in Nat /\ y \in Nat
  BY <1>1
<1>5. Origin(block)[1] = x /\ Origin(block)[2] = y
  <2> HIDE DEF x, y
  <2>1. Origin(block) = <<x, y>>
    <3>1. x + 0 = x /\ y + 0 = y
      BY <1>4
    <3> QED BY <1>2, <1>3, <3>1 DEF x, y
  <2> QED BY <2>1
<1>6. ASSUME NEW p \in Nat, NEW b \in Nat
      PROVE  p - b * d \in 0 .. d - 1 <=> p \div d = b
  <2>1. /\ p % d \in 0 .. d - 1 /\ p \div d \in Nat
        /\ p = (p \div d) * d + (p % d)
    BY <1>1, DivMod
  <2>2. ASSUME p - b * d \in 0 .. d - 1 PROVE p \div d = b
    <3> DEFINE r == p - b * d
    <3>1. r \in 0 .. d - 1 /\ (b * d + r) \div d = b
      BY <1>1, <2>2, DivModOf
    <3>2. b * d \in Nat
      BY <1>1
    <3>3. b * d + r = p
      BY <3>2
    <3> QED BY <3>1, <3>3
  <2>3. ASSUME p \div d = b PROVE p - b * d \in 0 .. d - 1
    <3>1. p = b * d + (p % d) /\ b * d \in Nat
      BY <1>1, <2>1, <2>3
    <3> QED BY <2>1, <3>1
  <2> QED BY <2>2, <2>3
<1>7. /\ place[1] - x \in 0 .. d - 1 <=> place[1] \div d = block[1]
      /\ place[2] - y \in 0 .. d - 1 <=> place[2] \div d = block[2]
  BY <1>1, <1>6
<1>8. BlockOf(place) = block <=> place[1] \div d = block[1] /\ place[2] \div d = block[2]
  BY <1>1 DEF BlockOf
<1> QED BY <1>5, <1>7, <1>8 DEF x, y, d

(* What a stream has of a block.                                           *)
LEMMA ConvertedMembers ==
  ASSUME NEW b, Typed(b)
  PROVE  /\ Converted(b) \in Seq(CellAtRec)
         /\ Members(Converted(b)) = UNION {Members(BlockCells(b, block)) : block \in Blocks}
<1> DEFINE n == BlocksX * BlocksY
           s == [k \in 1 .. n |-> BlockCells(b, BlockSeq[k])]
<1>1. n \in Nat \ {0} /\ DOMAIN BlockSeq = 1 .. n /\ \A k \in 1 .. n : BlockSeq[k] \in Blocks
  BY Sizes, BlocksInOrder
<1>2. s \in [1 .. n -> Seq(CellAtRec)]
  BY <1>1, BlockCellsAre
<1>3. Converted(b) = FlattenSeq(s)
  BY <1>1 DEF Converted
<1>4. \A k \in 1 .. n : s[k] = BlockCells(b, BlockSeq[k])
  OBVIOUS
<1>5. \A block \in Blocks : \E k \in 1 .. n : BlockSeq[k] = block
  BY BlocksInOrder
<1> HIDE DEF n, s
<1>6. /\ FlattenSeq(s) \in Seq(CellAtRec)
      /\ Members(FlattenSeq(s)) = UNION {Members(s[k]) : k \in 1 .. n}
  BY <1>1, <1>2, FlattenIs
<1>7. \A x : (x \in UNION {Members(s[k]) : k \in 1 .. n}) <=>
             x \in UNION {Members(BlockCells(b, block)) : block \in Blocks}
  <2>1. ASSUME NEW x, NEW k \in 1 .. n, x \in Members(s[k])
        PROVE  x \in UNION {Members(BlockCells(b, block)) : block \in Blocks}
    BY <1>1, <1>4, <2>1
  <2>2. ASSUME NEW x, NEW block \in Blocks, x \in Members(BlockCells(b, block))
        PROVE  x \in UNION {Members(s[k]) : k \in 1 .. n}
    BY <1>4, <1>5, <2>2
  <2> QED BY <2>1, <2>2
<1> QED BY <1>3, <1>6, <1>7

(* What a reader finds for a column.                                       *)
Matches(cell, place) ==
  \/ <<cell.x, cell.y>> = place
  \/ /\ cell.type = SimpleType
     /\ place[1] - cell.x \in 0 .. BlockSide - 1
     /\ place[2] - cell.y \in 0 .. BlockSide - 1

LEMMA CellsForIs ==
  ASSUME NEW b, Typed(b), NEW place \in Cells, NEW block, block = BlockOf(place)
  PROVE  CellsFor(Converted(b), place) = {cell \in Members(BlockCells(b, block)) : Matches(cell, place)}
<1> DEFINE read == Converted(b)
<1>0. block \in Blocks
  BY CellsOfBlocks
<1>1. /\ read \in Seq(CellAtRec)
      /\ Members(read) = UNION {Members(BlockCells(b, other)) : other \in Blocks}
  BY ConvertedMembers
<1>2. CellsFor(read, place) = {cell \in Members(read) : Matches(cell, place)}
  <2> HIDE DEF read
  <2>1. DOMAIN read = 1 .. Len(read)
    BY <1>1
  <2> QED BY <2>1 DEF CellsFor, Members, Matches
<1> HIDE DEF read
<1>3. ASSUME NEW other \in Blocks, NEW cell \in Members(BlockCells(b, other)), Matches(cell, place)
      PROVE  other = block
  <2>1. CASE b.types[other] = SimpleType
    <3>1. cell = CellAt(Origin(other), SimpleType, b.columns[Origin(other)][1])
      BY <1>3, <2>1, BlockCellsAre
    <3>2. cell.x = Origin(other)[1] /\ cell.y = Origin(other)[2]
      BY <3>1 DEF CellAt
    <3>3. Origin(other) \in Cells /\ BlockOf(Origin(other)) = other
      BY InBlock
    <3>4. CASE <<cell.x, cell.y>> = place
      <4>1. Origin(other) = <<Origin(other)[1], Origin(other)[2]>>
        BY <3>3 DEF Cells
      <4> QED BY <3>2, <3>3, <3>4, <4>1
    <3>5. CASE ~(<<cell.x, cell.y>> = place)
      BY <1>3, <3>2, <3>5, Square DEF Matches
    <3> QED BY <3>4, <3>5
  <2>2. ASSUME NEW q \in CellsOf(other), NEW type, type # SimpleType, NEW a, cell = CellAt(q, type, a)
        PROVE  other = block
    <3>1. q \in Cells /\ BlockOf(q) = other
      BY InBlock
    <3>2. q = <<q[1], q[2]>>
      BY <3>1 DEF Cells
    <3>3. cell.x = q[1] /\ cell.y = q[2] /\ cell.type # SimpleType
      BY <2>2 DEF CellAt
    <3> QED BY <1>3, <3>1, <3>2, <3>3 DEF Matches
  <2>3. CASE b.types[other] = ComplexType
    <3>1. PICK q \in CellsOf(other) : cell = CellAt(q, ComplexType, b.columns[q][1])
      BY <1>3, <2>3, BlockCellsAre
    <3>2. ComplexType # SimpleType
      BY DEF ComplexType, SimpleType
    <3> QED BY <2>2, <3>1, <3>2
  <2>4. CASE b.types[other] = MultilayerType
    <3>1. cell \in UNION {{CellAt(q, MultilayerType, b.columns[q][i]) :
                             i \in 1 .. Len(b.columns[q])} : q \in CellsOf(other)}
      BY <1>3, <2>4, BlockCellsAre
    <3>2. PICK q \in CellsOf(other) : \E i \in 1 .. Len(b.columns[q]) :
                                        cell = CellAt(q, MultilayerType, b.columns[q][i])
      BY <3>1
    <3>3. MultilayerType # SimpleType
      BY DEF MultilayerType, SimpleType
    <3> QED BY <2>2, <3>2, <3>3
  <2> QED BY <2>1, <2>3, <2>4 DEF Typed, Types3
<1> QED BY <1>0, <1>1, <1>2, <1>3 DEF read

(* The names of the compass, and the steps they are read from.             *)
LEMMA Headings ==
  ASSUME NEW place, place = <<place[1], place[2]>>, place[1] \in Int, place[2] \in Int,
         NEW open \in SUBSET Directions, NEW name \in Compass
  PROVE  Heading(name) \in open <=> \E d \in open : Side(place, d) = Towards(place, name)
<1> DEFINE x == place[1]
           y == place[2]
<1>1. /\ Side(place, 0) = <<x - 1, y>> /\ Side(place, 1) = <<x, y + 1>>
      /\ Side(place, 2) = <<x + 1, y>> /\ Side(place, 3) = <<x, y - 1>>
  BY DEF Side
<1>2. /\ Towards(place, "north") = <<x, y - 1>> /\ Towards(place, "south") = <<x, y + 1>>
      /\ Towards(place, "west") = <<x - 1, y>> /\ Towards(place, "east") = <<x + 1, y>>
  BY DEF Towards
<1>3. /\ Heading("north") = 3 /\ Heading("south") = 1
      /\ Heading("west") = 0 /\ Heading("east") = 2
  BY DEF Heading
<1>4. \A d \in open : d = 0 \/ d = 1 \/ d = 2 \/ d = 3
  BY DEF Directions
<1>5. x - 1 # x /\ x + 1 # x /\ x - 1 # x + 1 /\ y - 1 # y /\ y + 1 # y /\ y - 1 # y + 1
  OBVIOUS
<1> HIDE DEF x, y
<1>6. CASE name = "north"
  BY <1>1, <1>2, <1>3, <1>4, <1>5, <1>6
<1>7. CASE name = "south"
  BY <1>1, <1>2, <1>3, <1>4, <1>5, <1>7
<1>8. CASE name = "west"
  BY <1>1, <1>2, <1>3, <1>4, <1>5, <1>8
<1>9. CASE name = "east"
  BY <1>1, <1>2, <1>3, <1>4, <1>5, <1>9
<1> QED BY <1>6, <1>7, <1>8, <1>9 DEF Compass

LEMMA OpenOfSpan ==
  ASSUME Cleared, NEW place \in Cells, NEW i \in Kept(place), NEW name \in Compass
  PROVE  name \in CellOf(grid[place][i]).open <=>
           \E d \in grid[place][i].open : Side(place, d) = Towards(place, name)
<1>1. place = <<place[1], place[2]>> /\ place[1] \in Int /\ place[2] \in Int
  BY Sizes DEF Cells
<1>2. grid[place][i].open \in SUBSET Directions
  <2>1. place \in Columns
    BY Sizes
  <2> QED BY <2>1, Spans, KeptIs
<1> DEFINE open == grid[place][i].open
<1>3. name \in CellOf(grid[place][i]).open <=> Heading(name) \in open
  BY DEF CellOf
<1> HIDE DEF open
<1>4. Heading(name) \in open <=> \E d \in open : Side(place, d) = Towards(place, name)
  BY <1>1, <1>2, Headings DEF open
<1> QED BY <1>3, <1>4 DEF open

(* How far a cell is from the surface it was made of.                      *)
LEMMA StandsIs ==
  ASSUME Cleared, NEW place \in Cells, NEW i \in Kept(place), NEW cell, cell.z \in Int,
         cell.open = CellOf(grid[place][i]).open,
         \/ cell.z = Quantized(grid[place][i])
         \/ /\ cell.type = SimpleType
            /\ cell.z - Quantized(grid[place][i]) <= 8
            /\ Quantized(grid[place][i]) - cell.z <= 8
  PROVE  Stands(cell, grid[place][i], place)
<1> DEFINE s == Surface(grid[place][i])
           q == Quantized(grid[place][i])
           z == cell.z
           off == 2 * cell.z - s
           most == IF cell.type = SimpleType THEN 32 ELSE 16
<1>1. s \in Int /\ q \in Int
  <2>1. place \in Columns /\ i \in DOMAIN grid[place]
    BY Sizes DEF Kept
  <2> QED BY <2>1, SurfaceIs, CellOfSpan
<1>2. q = Rounded(Truncated(s, 2))
  BY DEF Quantized
<1>3. \A name \in Compass : name \in cell.open <=>
            \E d \in grid[place][i].open : Side(place, d) = Towards(place, name)
  BY OpenOfSpan
<1>4. z \in Int /\ (z = q \/ (cell.type = SimpleType /\ z - q <= 8 /\ q - z <= 8))
  OBVIOUS
<1> HIDE DEF s, q
<1>5. 2 * q - s < 16 /\ s - 2 * q < 16
  BY <1>1, <1>2, RoundedNear
<1>6. off < most /\ -off < most
  <2> HIDE DEF z
  <2>1. CASE z = q
    <3>1. 2 * z - s < 16 /\ -(2 * z - s) < 16
      BY <1>1, <1>5, <2>1
    <3> QED BY <1>1, <1>4, <3>1 DEF z
  <2>2. CASE cell.type = SimpleType /\ z - q <= 8 /\ q - z <= 8
    <3>1. 2 * z - s < 32 /\ -(2 * z - s) < 32
      BY <1>1, <1>4, <1>5, <2>2
    <3> QED BY <2>2, <3>1 DEF z
  <2> QED BY <1>4, <2>1, <2>2
<1> QED BY <1>3, <1>6 DEF Stands, s

(* What is found for a column of a flat block.                             *)
LEMMA FoundFlat ==
  ASSUME Cleared, NEW place \in Cells, Simple(Raw, BlockOf(place)),
         NEW found, found = CellsFor(Converted(Sealed), place)
  PROVE  /\ Kept(place) # {} /\ Cardinality(found) = Cardinality(Kept(place))
         /\ \A i \in Kept(place) : \E cell \in found : Stands(cell, grid[place][i], place)
<1> DEFINE block == BlockOf(place)
           home == Origin(block)
           first == CellAt(home, SimpleType, Sealed.columns[home][1])
           m == Rounded(MiddleHeight(Raw, block))
<1>0. block \in Blocks /\ place \in CellsOf(block) /\ home \in CellsOf(block)
  BY CellsOfBlocks, InBlock
<1>1. Layered(Raw) /\ Eights(Raw) /\ Typed(Sealed) /\ Sealed.types[block] = SimpleType
  BY <1>0, BuiltIsPut, RawEights, SealedIs
<1>2. /\ home \in Cells /\ BlockOf(home) = block
      /\ Raw[home][1].open = Compass
  BY <1>0, SimpleColumns
<1>3. Sealed.columns[home][1].open = Compass /\ Sealed.columns[home][1].z = m
  BY <1>1, <1>2, CompressedIs DEF Sealed
<1>4. Members(BlockCells(Sealed, block)) = {first}
  BY <1>0, <1>1, BlockCellsAre
<1>5. Matches(first, place)
  <2>1. first.x = home[1] /\ first.y = home[2] /\ first.type = SimpleType
    BY DEF CellAt
  <2>2. /\ place[1] - home[1] \in 0 .. BlockSide - 1
        /\ place[2] - home[2] \in 0 .. BlockSide - 1
    BY <1>0, Square
  <2> QED BY <2>1, <2>2 DEF Matches
<1>6. found = {first}
  <2>1. found = {cell \in Members(BlockCells(Sealed, block)) : Matches(cell, place)}
    BY <1>1, CellsForIs
  <2> HIDE DEF first
  <2> QED BY <1>4, <1>5, <2>1
<1>7. /\ Len(Raw[place]) = 1 /\ Kept(place) # {} /\ Raw[place][1].open = Compass
      /\ Raw[place][1] \in Lowest(Raw, block)
  BY <1>0, SimpleColumns DEF Lowest
<1>8. Cardinality(Kept(place)) = 1
  BY <1>7, RawColumn
<1>9. ASSUME NEW i \in Kept(place) PROVE Stands(first, grid[place][i], place)
  <2>1. Packed(CellOf(grid[place][i])) \in Members(Raw[place])
    BY <1>7, RawColumn
  <2>2. Raw[place][1] = Packed(CellOf(grid[place][i]))
    BY <1>7, <2>1, FirstOfOne
  <2>3. Raw[place][1].z = Quantized(grid[place][i]) /\ CellOf(grid[place][i]).open = Compass
    BY <1>7, <2>2, CellOfSpan
  <2>4. m \in Int /\ Raw[place][1].z - m <= 8 /\ m - Raw[place][1].z <= 8
    BY <1>0, <1>1, <1>7, MiddleIs
  <2>5. first.z = m /\ first.open = Compass /\ first.type = SimpleType
    BY <1>3 DEF CellAt
  <2> HIDE DEF first, m
  <2> QED BY <2>3, <2>4, <2>5, StandsIs
<1> HIDE DEF first
<1>10. Cardinality(found) = 1
  BY <1>6, FS_Singleton
<1> QED BY <1>6, <1>7, <1>8, <1>9, <1>10

(* What is found for a column of any other.                                *)
LEMMA FoundTall ==
  ASSUME Cleared, NEW place \in Cells, ~Simple(Raw, BlockOf(place))
  PROVE  \E type : CellsFor(Converted(Sealed), place) = {CellAt(place, type, cell) : cell \in Members(Raw[place])}
<1> DEFINE block == BlockOf(place)
           t == Sealed.types[block]
<1>0. block \in Blocks /\ place \in CellsOf(block)
  BY CellsOfBlocks, InBlock
<1>1. /\ Typed(Sealed) /\ t # SimpleType /\ t \in Types3
      /\ \A q \in CellsOf(block) : Sealed.columns[q] = Raw[q]
      /\ t = MultilayerType <=> Multilayer(Raw, block)
  <2>1. \A q \in CellsOf(block) : q \in Cells /\ BlockOf(q) = block
    BY <1>0, InBlock
  <2> QED BY <1>0, <2>1, SealedIs DEF Typed
<1>2. CellsFor(Converted(Sealed), place) =
        {cell \in Members(BlockCells(Sealed, block)) : Matches(cell, place)}
  BY <1>1, CellsForIs
<1>3. ASSUME NEW q \in CellsOf(block), NEW a
      PROVE  Matches(CellAt(q, t, a), place) <=> q = place
  <2>1. q = <<q[1], q[2]>>
    BY <1>0, InBlock DEF Cells
  <2>2. /\ CellAt(q, t, a).x = q[1] /\ CellAt(q, t, a).y = q[2]
        /\ CellAt(q, t, a).type = t
    BY DEF CellAt
  <2> HIDE DEF t
  <2> QED BY <1>1, <2>1, <2>2 DEF Matches
<1> DEFINE T == {CellAt(place, t, cell) : cell \in Members(Raw[place])}
<1>4. CASE t = ComplexType
  <2>1. Members(BlockCells(Sealed, block)) = {CellAt(q, t, Raw[q][1]) : q \in CellsOf(block)}
    <3>1. Members(BlockCells(Sealed, block)) =
            {CellAt(q, ComplexType, Sealed.columns[q][1]) : q \in CellsOf(block)}
      BY <1>0, <1>1, <1>4, BlockCellsAre
    <3> QED BY <1>1, <1>4, <3>1
  <2>2. Members(Raw[place]) = {Raw[place][1]}
    <3> DEFINE l == Len(Raw[place])
    <3>1. l \in Nat \ {0}
      BY RawColumn
    <3>2. ~(l > 1)
      BY <1>0, <1>1, <1>4 DEF Multilayer, ComplexType, MultilayerType
    <3> HIDE DEF l
    <3>3. l = 1
      BY <3>1, <3>2
    <3> QED BY <3>3, FirstOfOne DEF l
  <2>3. T = {CellAt(place, t, Raw[place][1])}
    BY <2>2
  <2> HIDE DEF t, block, T
  <2> QED BY <1>0, <1>2, <1>3, <2>1, <2>3 DEF T
<1>5. CASE t = MultilayerType
  <2>1. Members(BlockCells(Sealed, block)) =
          UNION {{CellAt(q, t, Raw[q][i]) : i \in 1 .. Len(Raw[q])} : q \in CellsOf(block)}
    <3>1. Members(BlockCells(Sealed, block)) =
            UNION {{CellAt(q, MultilayerType, Sealed.columns[q][i]) :
                      i \in 1 .. Len(Sealed.columns[q])} : q \in CellsOf(block)}
      BY <1>0, <1>1, <1>5, BlockCellsAre
    <3> QED BY <1>1, <1>5, <3>1
  <2>2. T = {CellAt(place, t, Raw[place][i]) : i \in 1 .. Len(Raw[place])}
    BY DEF Members
  <2> HIDE DEF t, block
  <2>3. ASSUME NEW x, x \in Members(BlockCells(Sealed, block)), Matches(x, place) PROVE x \in T
    <3>1. PICK q \in CellsOf(block) : \E i \in 1 .. Len(Raw[q]) : x = CellAt(q, t, Raw[q][i])
      BY <2>1, <2>3
    <3>2. q = place
      BY <1>3, <2>3, <3>1
    <3> QED BY <2>2, <3>1, <3>2
  <2>4. ASSUME NEW x \in T PROVE x \in Members(BlockCells(Sealed, block)) /\ Matches(x, place)
    <3>1. PICK i \in 1 .. Len(Raw[place]) : x = CellAt(place, t, Raw[place][i])
      BY <2>2, <2>4
    <3> HIDE DEF T
    <3>2. Matches(x, place)
      BY <1>0, <1>3, <3>1
    <3>3. x \in Members(BlockCells(Sealed, block))
      BY <1>0, <2>1, <3>1
    <3> QED BY <3>2, <3>3
  <2>5. {cell \in Members(BlockCells(Sealed, block)) : Matches(cell, place)} = T
    <3> HIDE DEF T
    <3> QED BY <2>3, <2>4
  <2> QED BY <1>2, <2>5
<1> QED BY <1>1, <1>4, <1>5 DEF Types3

(* FaithfulToField, of every region: a reader of the L2J finds one cell    *)
(* for each surface that was kept, at its height and open where it is      *)
(* (Builder.cpp:71-84, ExportBuffer.cpp:149-157).                          *)
THEOREM ReadersFindTheField == Spec => []FaithfulToField
<1>1. DataInv => FaithfulToField
  <2> SUFFICES ASSUME DataInv, phase = "done", NEW place \in Columns
               PROVE  LET found == CellsFor(ReadL2J(l2j), place) IN
                      IF Kept(place) = {} THEN Cardinality(found) = 1 /\
                                               \A cell \in found : cell.open = {}
                      ELSE /\ Cardinality(found) = Cardinality(Kept(place))
                           /\ \A i \in Kept(place) :
                                \E cell \in found : Stands(cell, grid[place][i], place)
    BY DEF FaithfulToField
  <2>1. PassInv /\ NoOverflow /\ ~Refused(Sealed) /\ l2j = L2JStream(Sealed)
    BY DEF DataInv
  <2>2. Cleared /\ place \in Cells
    BY <2>1, ClearedIs, Sizes
  <2>3. ReadL2J(l2j) = Converted(Sealed)
    BY <2>1, <2>2, SealedIsWritable, L2JReadsBack
  <2> DEFINE found == CellsFor(ReadL2J(l2j), place)
  <2>4. found = CellsFor(Converted(Sealed), place)
    BY <2>3
  <2>5. CASE Simple(Raw, BlockOf(place))
    <3> HIDE DEF found
    <3>1. /\ Kept(place) # {} /\ Cardinality(found) = Cardinality(Kept(place))
          /\ \A i \in Kept(place) : \E cell \in found : Stands(cell, grid[place][i], place)
      BY <2>2, <2>4, <2>5, FoundFlat
    <3> QED BY <3>1 DEF found
  <2>6. CASE ~Simple(Raw, BlockOf(place))
    <3>1. PICK type : found = {CellAt(place, type, cell) : cell \in Members(Raw[place])}
      BY <2>2, <2>4, <2>6, FoundTall
    <3> HIDE DEF found
    <3>2. CASE Kept(place) = {}
      <4>1. found = {CellAt(place, type, Packed(FakeCell))}
        BY <2>2, <3>1, <3>2, RawColumn
      <4>2. CellAt(place, type, Packed(FakeCell)).open = {}
        BY FakeIs DEF CellAt
      <4>3. Cardinality(found) = 1 /\ \A cell \in found : cell.open = {}
        BY <4>1, <4>2, FS_Singleton
      <4> QED BY <3>2, <4>3 DEF found
    <3>3. CASE Kept(place) # {}
      <4> DEFINE f == [i \in Kept(place) |-> CellAt(place, type, Packed(CellOf(grid[place][i])))]
      <4>1. found = {f[i] : i \in Kept(place)}
        BY <2>2, <3>1, <3>3, RawColumn
      <4>2. \A i \in Kept(place) :
              /\ f[i].z = Quantized(grid[place][i]) /\ f[i].z \in Int
              /\ f[i].open = CellOf(grid[place][i]).open
        BY <2>2, CellOfSpan DEF CellAt
      <4>3. \A i \in Kept(place), j \in Kept(place) : i # j => f[i].z # f[j].z
        BY <2>2, <4>2, HeightsDiffer
      <4>4. f \in [Kept(place) -> found] /\ \A x \in found : \E i \in Kept(place) : f[i] = x
        BY <4>1
      <4>5. ASSUME NEW i \in Kept(place) PROVE Stands(f[i], grid[place][i], place)
        <5> HIDE DEF f
        <5> QED BY <2>2, <4>2, StandsIs
      <4> HIDE DEF f
      <4>6. f \in Bijection(Kept(place), found)
        BY <4>3, <4>4 DEF Bijection, Injection, IsInjective, Surjection
      <4>7. Cardinality(found) = Cardinality(Kept(place))
        BY <2>2, <4>6, KeptIs, FS_Bijection DEF ExistsBijection
      <4>8. \A i \in Kept(place) : \E cell \in found : Stands(cell, grid[place][i], place)
        BY <4>4, <4>5
      <4> QED BY <3>3, <4>7, <4>8 DEF found
    <3> QED BY <3>2, <3>3
  <2> QED BY <2>5, <2>6
<1> QED BY <1>1, DataInvariant, PTL

-----------------------------------------------------------------------------
(* The export of the files.                                                *)

(* Where an export has a staging directory, where it has opened a file,    *)
(* and where it has closed it.                                             *)
Staging == {"open l2j", "write l2j", "open dat", "write dat", "link l2j",
            "link dat", "rollback", "clean done", "clean failed", "clean left"}
L2JOpened == {"write l2j", "open dat", "write dat", "link l2j", "link dat"}
L2JClosed == {"open dat", "write dat", "link l2j", "link dat"}
DatOpened == {"write dat", "link l2j", "link dat"}
DatClosed == {"link l2j", "link dat"}

(* No two exports have one staging directory, one that is not reserved is  *)
(* empty, and what is in it is its export's own.                           *)
StagingIsOwn ==
  /\ \A e \in Exports : pc[e] \in Staging => attempt[e] \in reserved
  /\ \A e, f \in Exports :
       pc[e] \in Staging /\ pc[f] \in Staging /\ attempt[e] = attempt[f] => e = f
  /\ \A n \in Stagings : n \notin reserved =>
       staging[n]["l2j"] = None /\ staging[n]["dat"] = None
  /\ \A e \in Exports : pc[e] \in Staging =>
       /\ staging[attempt[e]]["l2j"] \in {None, e}
       /\ staging[attempt[e]]["dat"] \in {None, e}

OnlyDatsAsked ==
  \A e \in Exports :
    pc[e] \in {"open dat", "write dat", "link dat", "rollback"} => clientDat[e]

(* What an export has opened is in its staging, and whole once closed.     *)
FilesAreWritten ==
  \A e \in Exports :
    /\ pc[e] \in L2JOpened => staging[attempt[e]]["l2j"] = e /\ writer["l2j"][e] = e
    /\ pc[e] \in L2JClosed => whole["l2j"][e]
    /\ pc[e] \in DatOpened /\ clientDat[e] =>
         staging[attempt[e]]["dat"] = e /\ writer["dat"][e] = e
    /\ pc[e] \in DatClosed /\ clientDat[e] => whole["dat"][e]

(* Where an export may be whose L2J is published.                          *)
Linking == {"link dat", "rollback", "clean done", "clean left", "done", "left", "died"}

(* How far the export is whose name stands in the directory, and what an   *)
(* export in the middle of linking has there.                              *)
LinksAreMade ==
  \A e \in Exports :
    /\ output["l2j"] = e => pc[e] \in Linking
    /\ output["dat"] = e => pc[e] \in {"clean done", "done", "died"}
    /\ pc[e] \in {"link dat", "rollback"} => output["l2j"] = e /\ output["dat"] = None
    /\ pc[e] = "clean done" =>
         output["l2j"] = e /\ (clientDat[e] => output["dat"] = e)

ExportInv ==
  /\ TypeOK /\ StagingIsOwn /\ OnlyDatsAsked /\ FilesAreWritten
  /\ LinksAreMade /\ PairIsOfOneBuild

-----------------------------------------------------------------------------

LEMMA DistinctNames ==
  /\ None \notin Exports /\ None # Old /\ Old \notin Exports
  /\ 1 \in Stagings
BY NamesAssumption, AttemptsAssumption DEF NamesAssumption, AttemptsAssumption, Stagings

LEMMA InitHolds == ExportInit => ExportInv
BY DistinctNames
   DEF ExportInit, ExportInv, TypeOK, Places, Ended, StagingIsOwn, OnlyDatsAsked, FilesAreWritten,
       LinksAreMade, PairIsOfOneBuild, Staging, L2JOpened, L2JClosed, DatOpened, DatClosed,
       Made, Empty, Kinds

(* Where the steps of the two files go.                                    *)
LEMMA KindPlaces ==
  /\ Opens["l2j"] = "open l2j" /\ Opens["dat"] = "open dat"
  /\ Writes["l2j"] = "write l2j" /\ Writes["dat"] = "write dat"
BY DEF Opens, Writes

LEMMA OpenGoes ==
  ASSUME NEW e \in Exports, NEW kind \in Kinds, Open(e, kind)
  PROVE  \/ /\ kind = "l2j" /\ pc[e] = "open l2j"
            /\ pc' = [pc EXCEPT ![e] = "write l2j"]
         \/ /\ kind = "dat" /\ pc[e] = "open dat"
            /\ pc' = [pc EXCEPT ![e] = "write dat"]
<1>1. kind = "l2j" \/ kind = "dat"
  BY DEF Kinds
<1> QED
  BY <1>1, KindPlaces DEF Open, Goto

LEMMA WriteGoes ==
  ASSUME NEW e \in Exports, NEW kind \in Kinds, Write(e, kind)
  PROVE  \/ /\ kind = "l2j" /\ pc[e] = "write l2j" /\ clientDat[e]
            /\ pc' = [pc EXCEPT ![e] = "open dat"]
         \/ /\ kind = "l2j" /\ pc[e] = "write l2j" /\ ~clientDat[e]
            /\ pc' = [pc EXCEPT ![e] = "link l2j"]
         \/ /\ kind = "dat" /\ pc[e] = "write dat"
            /\ pc' = [pc EXCEPT ![e] = "link l2j"]
<1>1. kind = "l2j" \/ kind = "dat"
  BY DEF Kinds
<1> QED
  BY <1>1, KindPlaces DEF Write, Written, Goto

LEMMA WriteFailsGoes ==
  ASSUME NEW e \in Exports, NEW kind \in Kinds, WriteFails(e, kind)
  PROVE  /\ pc[e] \in {"open l2j", "write l2j", "open dat", "write dat"}
         /\ pc' = [pc EXCEPT ![e] = "clean failed"]
<1>1. kind = "l2j" \/ kind = "dat"
  BY DEF Kinds
<1> QED
  BY <1>1, KindPlaces DEF WriteFails, Goto

(* What an export opens, closes and links is its own.                      *)
LEMMA OpensOwn ==
  ASSUME TypeOK, StagingIsOwn, NEW e \in Exports, NEW kind \in Kinds, Open(e, kind)
  PROVE  /\ staging' = [staging EXCEPT ![attempt[e]][kind] = e]
         /\ writer' = [writer EXCEPT ![kind][e] = e]
         /\ whole' = [whole EXCEPT ![kind][e] = FALSE]
<1>1. pc[e] \in Staging
  BY OpenGoes DEF Staging
<1>2. Staged(e, kind) \in {None, e}
  BY <1>1 DEF StagingIsOwn, Staged, Kinds
<1> QED
  BY <1>2 DEF Open

LEMMA WritesOwn ==
  ASSUME TypeOK, OnlyDatsAsked, FilesAreWritten, NEW e \in Exports, NEW kind \in Kinds,
         Write(e, kind)
  PROVE  whole' = [whole EXCEPT ![kind][e] = TRUE]
<1>1. Staged(e, kind) = e
  BY WriteGoes DEF Staged, OnlyDatsAsked, FilesAreWritten, L2JOpened, DatOpened
<1> QED
  BY <1>1 DEF Write

LEMMA LinksOwn ==
  ASSUME TypeOK, OnlyDatsAsked, FilesAreWritten, NEW e \in Exports
  PROVE  /\ LinkL2J(e) => /\ output' = [output EXCEPT !["l2j"] = e]
                          /\ writer["l2j"][e] = e /\ whole["l2j"][e]
         /\ LinkDat(e) => /\ output' = [output EXCEPT !["dat"] = e]
                          /\ writer["dat"][e] = e /\ whole["dat"][e]
<1>1. pc[e] = "link l2j" => /\ Staged(e, "l2j") = e
                            /\ writer["l2j"][e] = e /\ whole["l2j"][e]
  BY DEF Staged, FilesAreWritten, L2JOpened, L2JClosed
<1>2. pc[e] = "link dat" => /\ Staged(e, "dat") = e
                            /\ writer["dat"][e] = e /\ whole["dat"][e]
  BY DEF Staged, FilesAreWritten, OnlyDatsAsked, DatOpened, DatClosed
<1> QED
  BY <1>1, <1>2 DEF LinkL2J, LinkDat, Link

(* A step that reserves nothing leaves the stagings to their exports.      *)
LEMMA StagingKept ==
  ASSUME StagingIsOwn, UNCHANGED <<attempt, reserved, staging>>,
         \A f \in Exports : pc'[f] \in Staging => pc[f] \in Staging
  PROVE  StagingIsOwn'
BY DEF StagingIsOwn

LEMMA TypesStep ==
  TypeOK /\ [ExportNext]_exportVars => TypeOK'
<1> SUFFICES ASSUME TypeOK, [ExportNext]_exportVars
             PROVE  TypeOK'
  OBVIOUS
<1> USE DistinctNames
<1>1. ASSUME NEW e \in Exports, Check(e)  PROVE TypeOK'
  BY <1>1 DEF Check, Occupied, Goto, TypeOK, Kinds, Places, Ended
<1>2. ASSUME NEW e \in Exports, Reserve(e)  PROVE TypeOK'
  <2>1. pc' \in [Exports -> Places] /\ attempt[e] \in Stagings
    BY <1>2 DEF Reserve, Goto, TypeOK, Places
  <2> QED
    BY <1>2, <2>1 DEF Reserve, TypeOK
<1>3. ASSUME NEW e \in Exports, NextCandidate(e)  PROVE TypeOK'
  BY <1>3 DEF NextCandidate, Stagings, TypeOK, Kinds, Places, Ended
<1>4. ASSUME NEW e \in Exports, StageFails(e)  PROVE TypeOK'
  BY <1>4 DEF StageFails, Goto, TypeOK, Kinds, Places, Ended
<1>5. ASSUME NEW e \in Exports, NEW kind \in Kinds, Open(e, kind)  PROVE TypeOK'
  <2>1. pc' \in [Exports -> Places] /\ attempt[e] \in Stagings
    BY <1>5, OpenGoes DEF TypeOK, Places
  <2>2. Staged(e, kind) \in Exports \cup {None}
    BY <2>1 DEF Staged, TypeOK
  <2>3. PICK file \in Exports :
          /\ staging' = [staging EXCEPT ![attempt[e]][kind] = file]
          /\ writer' = [writer EXCEPT ![kind][file] = e]
          /\ whole' = [whole EXCEPT ![kind][file] = FALSE]
    BY <1>5, <2>2 DEF Open
  <2>4. staging' \in [Stagings -> [Kinds -> Exports \cup {None}]]
    BY <2>3 DEF TypeOK
  <2>5. writer' \in [Kinds -> [Exports -> Exports \cup {None}]]
    BY <2>3 DEF TypeOK
  <2>6. whole' \in [Kinds -> [Exports -> BOOLEAN]]
    BY <2>3 DEF TypeOK
  <2> QED
    BY <1>5, <2>1, <2>4, <2>5, <2>6 DEF Open, TypeOK
<1>6. ASSUME NEW e \in Exports, NEW kind \in Kinds, Write(e, kind)  PROVE TypeOK'
  BY <1>6 DEF Write, Goto, Staged, Opens, Writes, Written, TypeOK, Kinds, Places, Ended
<1>7. ASSUME NEW e \in Exports, NEW kind \in Kinds, WriteFails(e, kind)  PROVE TypeOK'
  BY <1>7 DEF WriteFails, Goto, Opens, Writes, TypeOK, Kinds, Places, Ended
<1>8. ASSUME NEW e \in Exports, LinkL2J(e)  PROVE TypeOK'
  <2>1. pc' \in [Exports -> Places]
    BY <1>8 DEF LinkL2J, Goto, TypeOK, Places
  <2>2. Staged(e, "l2j") \in Exports \cup {None}
    BY DEF Staged, TypeOK, Kinds
  <2> QED
    BY <1>8, <2>1, <2>2 DEF LinkL2J, Link, TypeOK, Kinds
<1>9. ASSUME NEW e \in Exports, LinkDat(e)  PROVE TypeOK'
  <2>1. pc' \in [Exports -> Places]
    BY <1>9 DEF LinkDat, Goto, TypeOK, Places
  <2>2. Staged(e, "dat") \in Exports \cup {None}
    BY DEF Staged, TypeOK, Kinds
  <2> QED
    BY <1>9, <2>1, <2>2 DEF LinkDat, Link, TypeOK, Kinds
<1>10. ASSUME NEW e \in Exports, LinkL2JFails(e)  PROVE TypeOK'
  BY <1>10 DEF LinkL2JFails, Goto, TypeOK, Kinds, Places, Ended
<1>11. ASSUME NEW e \in Exports, LinkDatFails(e)  PROVE TypeOK'
  BY <1>11 DEF LinkDatFails, Goto, TypeOK, Kinds, Places, Ended
<1>12. ASSUME NEW e \in Exports, Rollback(e)  PROVE TypeOK'
  BY <1>12 DEF Rollback, RolledBack, Goto, TypeOK, Kinds, Places, Ended
<1>13. ASSUME NEW e \in Exports, RollbackFails(e)  PROVE TypeOK'
  BY <1>13 DEF RollbackFails, Goto, TypeOK, Kinds, Places, Ended
<1>14. ASSUME NEW e \in Exports, Clean(e)  PROVE TypeOK'
  <2>1. pc' \in [Exports -> Places]
    BY <1>14 DEF Clean, Cleaned, Goto, TypeOK, Places, Ended
  <2>2. reserved' \subseteq Stagings
    BY <1>14 DEF Clean, TypeOK
  <2>3. staging' \in [Stagings -> [Kinds -> Exports \cup {None}]]
    <3>1. Empty \in [Kinds -> Exports \cup {None}]
      BY DEF Empty
    <3> QED
      BY <1>14, <3>1 DEF Clean, TypeOK
  <2> QED
    BY <1>14, <2>1, <2>2, <2>3 DEF Clean, TypeOK
<1>15. ASSUME NEW e \in Exports, Die(e)  PROVE TypeOK'
  BY <1>15 DEF Die, Active, Goto, TypeOK, Kinds, Places, Ended
<1>16. CASE MoveAside
  BY <1>16 DEF MoveAside, Active, Empty, Ended, TypeOK, Kinds, Places, Ended
<1>17. CASE UNCHANGED exportVars
  BY <1>17 DEF exportVars, TypeOK, Kinds, Places, Ended
<1> QED
  BY <1>1, <1>2, <1>3, <1>4, <1>5, <1>6, <1>7, <1>8, <1>9, <1>10, <1>11, <1>12, <1>13,
     <1>14, <1>15, <1>16, <1>17 DEF ExportNext, Steps

LEMMA StagingStep ==
  TypeOK /\ StagingIsOwn /\ [ExportNext]_exportVars => StagingIsOwn'
<1> SUFFICES ASSUME TypeOK /\ StagingIsOwn, [ExportNext]_exportVars
             PROVE  StagingIsOwn'
  OBVIOUS
<1> USE DistinctNames
<1>1. ASSUME NEW e \in Exports, Check(e)  PROVE StagingIsOwn'
  <2>1. \A f \in Exports : pc'[f] \in Staging => pc[f] \in Staging
    BY <1>1 DEF Check, Occupied, Goto, TypeOK, Staging, Kinds
  <2> QED
    BY <1>1, <2>1, StagingKept DEF Check, Occupied, Goto
<1>2. ASSUME NEW e \in Exports, Reserve(e)  PROVE StagingIsOwn'
  BY <1>2 DEF Reserve, Free, Goto, Empty, TypeOK, StagingIsOwn, Staging, Staged, Kinds
<1>3. ASSUME NEW e \in Exports, NextCandidate(e)  PROVE StagingIsOwn'
  BY <1>3 DEF NextCandidate, TypeOK, StagingIsOwn, Staging
<1>4. ASSUME NEW e \in Exports, StageFails(e)  PROVE StagingIsOwn'
  <2>1. \A f \in Exports : pc'[f] \in Staging => pc[f] \in Staging
    BY <1>4 DEF StageFails, Goto, TypeOK, Staging, Kinds
  <2> QED
    BY <1>4, <2>1, StagingKept DEF StageFails, Goto
<1>5. ASSUME NEW e \in Exports, NEW kind \in Kinds, Open(e, kind)  PROVE StagingIsOwn'
  <2>1. \A f \in Exports : pc'[f] \in Staging => pc[f] \in Staging
    BY <1>5, OpenGoes DEF TypeOK, Staging
  <2>2. pc[e] \in Staging
    BY <1>5, OpenGoes DEF Staging
  <2>3. staging' = [staging EXCEPT ![attempt[e]][kind] = e]
    BY <1>5, OpensOwn
  <2>4. attempt[e] \in reserved /\ attempt' = attempt /\ reserved' = reserved
    BY <1>5, <2>2 DEF Open, StagingIsOwn
  <2>5. \A f \in Exports : pc[f] \in Staging /\ attempt[f] = attempt[e] => f = e
    BY <2>2 DEF StagingIsOwn
  <2> QED
    BY <2>1, <2>3, <2>4, <2>5 DEF TypeOK, StagingIsOwn, Kinds
<1>6. ASSUME NEW e \in Exports, NEW kind \in Kinds, Write(e, kind)  PROVE StagingIsOwn'
  <2>1. \A f \in Exports : pc'[f] \in Staging => pc[f] \in Staging
    BY <1>6, WriteGoes DEF TypeOK, Staging
  <2> QED
    BY <1>6, <2>1, StagingKept DEF Write
<1>7. ASSUME NEW e \in Exports, NEW kind \in Kinds, WriteFails(e, kind)  PROVE StagingIsOwn'
  <2>1. \A f \in Exports : pc'[f] \in Staging => pc[f] \in Staging
    BY <1>7, WriteFailsGoes DEF TypeOK, Staging
  <2> QED
    BY <1>7, <2>1, StagingKept DEF WriteFails
<1>8. ASSUME NEW e \in Exports, LinkL2J(e)  PROVE StagingIsOwn'
  <2>1. \A f \in Exports : pc'[f] \in Staging => pc[f] \in Staging
    BY <1>8 DEF LinkL2J, Link, Linkable, Staged, Goto, TypeOK, Staging, Kinds
  <2> QED
    BY <1>8, <2>1, StagingKept DEF LinkL2J, Link, Linkable, Staged, Goto
<1>9. ASSUME NEW e \in Exports, LinkDat(e)  PROVE StagingIsOwn'
  <2>1. \A f \in Exports : pc'[f] \in Staging => pc[f] \in Staging
    BY <1>9 DEF LinkDat, Link, Linkable, Staged, Goto, TypeOK, Staging, Kinds
  <2> QED
    BY <1>9, <2>1, StagingKept DEF LinkDat, Link, Linkable, Staged, Goto
<1>10. ASSUME NEW e \in Exports, LinkL2JFails(e)  PROVE StagingIsOwn'
  <2>1. \A f \in Exports : pc'[f] \in Staging => pc[f] \in Staging
    BY <1>10 DEF LinkL2JFails, Goto, TypeOK, Staging, Kinds
  <2> QED
    BY <1>10, <2>1, StagingKept DEF LinkL2JFails, Goto
<1>11. ASSUME NEW e \in Exports, LinkDatFails(e)  PROVE StagingIsOwn'
  <2>1. \A f \in Exports : pc'[f] \in Staging => pc[f] \in Staging
    BY <1>11 DEF LinkDatFails, Goto, TypeOK, Staging, Kinds
  <2> QED
    BY <1>11, <2>1, StagingKept DEF LinkDatFails, Goto
<1>12. ASSUME NEW e \in Exports, Rollback(e)  PROVE StagingIsOwn'
  <2>1. \A f \in Exports : pc'[f] \in Staging => pc[f] \in Staging
    BY <1>12 DEF Rollback, RolledBack, Goto, TypeOK, Staging, Kinds
  <2> QED
    BY <1>12, <2>1, StagingKept DEF Rollback, RolledBack, Goto
<1>13. ASSUME NEW e \in Exports, RollbackFails(e)  PROVE StagingIsOwn'
  <2>1. \A f \in Exports : pc'[f] \in Staging => pc[f] \in Staging
    BY <1>13 DEF RollbackFails, Goto, TypeOK, Staging, Kinds
  <2> QED
    BY <1>13, <2>1, StagingKept DEF RollbackFails, Goto
<1>14. ASSUME NEW e \in Exports, Clean(e)  PROVE StagingIsOwn'
  <2>1. \A f \in Exports : pc'[f] \in Staging => pc[f] \in Staging /\ f # e
    BY <1>14 DEF Clean, Cleaned, Goto, TypeOK, Staging
  <2>2. pc[e] \in Staging
    BY <1>14 DEF Clean, Cleaned, Staging
  <2>3. \A f \in Exports : pc'[f] \in Staging => attempt[f] # attempt[e]
    BY <2>1, <2>2 DEF StagingIsOwn
  <2>4. CASE UNCHANGED <<reserved, staging>>
    BY <1>14, <2>1, <2>4, StagingKept DEF Clean
  <2>5. CASE /\ reserved' = reserved \ {attempt[e]}
             /\ staging' = [staging EXCEPT ![attempt[e]] = Empty]
    <3>1. \A n \in Stagings : n # attempt[e] => staging'[n] = staging[n]
      BY <2>5 DEF TypeOK
    <3>2. staging'[attempt[e]]["l2j"] = None /\ staging'[attempt[e]]["dat"] = None
      BY <2>5 DEF TypeOK, Empty, Kinds
    <3>3. attempt' = attempt
      BY <1>14 DEF Clean
    <3> QED
      BY <2>1, <2>3, <2>5, <3>1, <3>2, <3>3 DEF StagingIsOwn, TypeOK
  <2> QED
    BY <1>14, <2>4, <2>5 DEF Clean
<1>15. ASSUME NEW e \in Exports, Die(e)  PROVE StagingIsOwn'
  <2>1. \A f \in Exports : pc'[f] \in Staging => pc[f] \in Staging
    BY <1>15 DEF Die, Active, Goto, TypeOK, Staging, Kinds
  <2> QED
    BY <1>15, <2>1, StagingKept DEF Die, Active, Goto
<1>16. CASE MoveAside
  BY <1>16 DEF MoveAside, Active, Empty, Ended, TypeOK, StagingIsOwn, Staging, Staged, Kinds
<1>17. CASE UNCHANGED exportVars
  BY <1>17 DEF exportVars, TypeOK, StagingIsOwn, Staging, Staged, Kinds
<1> QED
  BY <1>1, <1>2, <1>3, <1>4, <1>5, <1>6, <1>7, <1>8, <1>9, <1>10, <1>11, <1>12, <1>13,
     <1>14, <1>15, <1>16, <1>17 DEF ExportNext, Steps

LEMMA DatsStep ==
  TypeOK /\ OnlyDatsAsked /\ [ExportNext]_exportVars => OnlyDatsAsked'
<1> SUFFICES ASSUME TypeOK /\ OnlyDatsAsked, [ExportNext]_exportVars
             PROVE  OnlyDatsAsked'
  OBVIOUS
<1> USE DistinctNames
<1>1. ASSUME NEW e \in Exports, Check(e)  PROVE OnlyDatsAsked'
  BY <1>1 DEF Check, Occupied, Goto, TypeOK, OnlyDatsAsked, Kinds
<1>2. ASSUME NEW e \in Exports, Reserve(e)  PROVE OnlyDatsAsked'
  BY <1>2 DEF Reserve, Free, Goto, Empty, TypeOK, OnlyDatsAsked, Kinds
<1>3. ASSUME NEW e \in Exports, NextCandidate(e)  PROVE OnlyDatsAsked'
  BY <1>3 DEF NextCandidate, Stagings, TypeOK, OnlyDatsAsked, Kinds
<1>4. ASSUME NEW e \in Exports, StageFails(e)  PROVE OnlyDatsAsked'
  BY <1>4 DEF StageFails, Goto, TypeOK, OnlyDatsAsked, Kinds
<1>5. ASSUME NEW e \in Exports, NEW kind \in Kinds, Open(e, kind)  PROVE OnlyDatsAsked'
  BY <1>5, OpenGoes DEF Open, TypeOK, OnlyDatsAsked
<1>6. ASSUME NEW e \in Exports, NEW kind \in Kinds, Write(e, kind)  PROVE OnlyDatsAsked'
  BY <1>6, WriteGoes DEF Write, TypeOK, OnlyDatsAsked
<1>7. ASSUME NEW e \in Exports, NEW kind \in Kinds, WriteFails(e, kind)  PROVE OnlyDatsAsked'
  BY <1>7, WriteFailsGoes DEF WriteFails, TypeOK, OnlyDatsAsked
<1>8. ASSUME NEW e \in Exports, LinkL2J(e)  PROVE OnlyDatsAsked'
  BY <1>8 DEF LinkL2J, Link, Linkable, Staged, Goto, TypeOK, OnlyDatsAsked, Kinds
<1>9. ASSUME NEW e \in Exports, LinkDat(e)  PROVE OnlyDatsAsked'
  BY <1>9 DEF LinkDat, Link, Linkable, Staged, Goto, TypeOK, OnlyDatsAsked, Kinds
<1>10. ASSUME NEW e \in Exports, LinkL2JFails(e)  PROVE OnlyDatsAsked'
  BY <1>10 DEF LinkL2JFails, Goto, TypeOK, OnlyDatsAsked, Kinds
<1>11. ASSUME NEW e \in Exports, LinkDatFails(e)  PROVE OnlyDatsAsked'
  BY <1>11 DEF LinkDatFails, Goto, TypeOK, OnlyDatsAsked, Kinds
<1>12. ASSUME NEW e \in Exports, Rollback(e)  PROVE OnlyDatsAsked'
  BY <1>12 DEF Rollback, RolledBack, Goto, TypeOK, OnlyDatsAsked, Kinds
<1>13. ASSUME NEW e \in Exports, RollbackFails(e)  PROVE OnlyDatsAsked'
  BY <1>13 DEF RollbackFails, Goto, TypeOK, OnlyDatsAsked, Kinds
<1>14. ASSUME NEW e \in Exports, Clean(e)  PROVE OnlyDatsAsked'
  BY <1>14 DEF Clean, Cleaned, Goto, TypeOK, OnlyDatsAsked, Kinds
<1>15. ASSUME NEW e \in Exports, Die(e)  PROVE OnlyDatsAsked'
  BY <1>15 DEF Die, Active, Goto, TypeOK, OnlyDatsAsked, Kinds
<1>16. CASE MoveAside
  BY <1>16 DEF MoveAside, Active, Empty, Ended, TypeOK, OnlyDatsAsked, Kinds
<1>17. CASE UNCHANGED exportVars
  BY <1>17 DEF exportVars, TypeOK, OnlyDatsAsked, Kinds
<1> QED
  BY <1>1, <1>2, <1>3, <1>4, <1>5, <1>6, <1>7, <1>8, <1>9, <1>10, <1>11, <1>12, <1>13,
     <1>14, <1>15, <1>16, <1>17 DEF ExportNext, Steps

LEMMA FilesStep ==
  TypeOK /\ StagingIsOwn /\ OnlyDatsAsked /\ FilesAreWritten /\ [ExportNext]_exportVars => FilesAreWritten'
<1> SUFFICES ASSUME TypeOK /\ StagingIsOwn /\ OnlyDatsAsked /\ FilesAreWritten, [ExportNext]_exportVars
             PROVE  FilesAreWritten'
  OBVIOUS
<1> USE DistinctNames
<1>1. ASSUME NEW e \in Exports, Check(e)  PROVE FilesAreWritten'
  BY <1>1
     DEF Check, Occupied, Goto, TypeOK, StagingIsOwn, Staging, OnlyDatsAsked,
         FilesAreWritten, L2JOpened, L2JClosed, DatOpened, DatClosed, Staged, Kinds
<1>2. ASSUME NEW e \in Exports, Reserve(e)  PROVE FilesAreWritten'
  BY <1>2
     DEF Reserve, Free, Goto, Empty, TypeOK, StagingIsOwn, Staging, OnlyDatsAsked,
         FilesAreWritten, L2JOpened, L2JClosed, DatOpened, DatClosed, Staged, Kinds
<1>3. ASSUME NEW e \in Exports, NextCandidate(e)  PROVE FilesAreWritten'
  BY <1>3
     DEF NextCandidate, Stagings, TypeOK, StagingIsOwn, Staging, OnlyDatsAsked,
         FilesAreWritten, L2JOpened, L2JClosed, DatOpened, DatClosed, Staged, Kinds
<1>4. ASSUME NEW e \in Exports, StageFails(e)  PROVE FilesAreWritten'
  BY <1>4
     DEF StageFails, Goto, TypeOK, StagingIsOwn, Staging, OnlyDatsAsked, FilesAreWritten,
         L2JOpened, L2JClosed, DatOpened, DatClosed, Staged, Kinds
<1>5. ASSUME NEW e \in Exports, NEW kind \in Kinds, Open(e, kind)  PROVE FilesAreWritten'
  <2>1. /\ staging' = [staging EXCEPT ![attempt[e]][kind] = e]
        /\ writer' = [writer EXCEPT ![kind][e] = e]
        /\ whole' = [whole EXCEPT ![kind][e] = FALSE]
        /\ UNCHANGED <<clientDat, attempt>>
    BY <1>5, OpensOwn DEF Open
  <2>2. pc[e] \in Staging
    BY <1>5, OpenGoes DEF Staging
  <2> SUFFICES ASSUME NEW f \in Exports
               PROVE  /\ pc'[f] \in L2JOpened =>
                           staging'[attempt[f]]["l2j"] = f /\ writer'["l2j"][f] = f
                      /\ pc'[f] \in L2JClosed => whole'["l2j"][f]
                      /\ pc'[f] \in DatOpened /\ clientDat[f] =>
                           staging'[attempt[f]]["dat"] = f /\ writer'["dat"][f] = f
                      /\ pc'[f] \in DatClosed /\ clientDat[f] => whole'["dat"][f]
    BY <2>1 DEF FilesAreWritten
  <2>3. CASE f = e
    <3>1. CASE kind = "l2j"
      BY <1>5, <2>1, <2>3, <3>1, OpenGoes
         DEF TypeOK, L2JOpened, L2JClosed, DatOpened, DatClosed, Kinds
    <3>2. CASE kind = "dat"
      <4>1. pc[e] = "open dat" /\ pc'[e] = "write dat"
        BY <1>5, <3>2, OpenGoes DEF TypeOK
      <4>2. staging[attempt[e]]["l2j"] = e /\ writer["l2j"][e] = e /\ whole["l2j"][e]
        BY <4>1 DEF FilesAreWritten, L2JOpened, L2JClosed
      <4>3. /\ staging'[attempt[e]]["l2j"] = e /\ writer'["l2j"][e] = e /\ whole'["l2j"][e]
            /\ staging'[attempt[e]]["dat"] = e /\ writer'["dat"][e] = e
        BY <2>1, <3>2, <4>2 DEF TypeOK, Kinds
      <4> QED
        BY <2>1, <2>3, <4>1, <4>3 DEF DatClosed
    <3> QED
      BY <3>1, <3>2 DEF Kinds
  <2>4. CASE f # e
    <3>1. pc'[f] = pc[f]
      BY <1>5, <2>4, OpenGoes DEF TypeOK
    <3>2. pc[f] \in Staging => attempt[f] # attempt[e]
      BY <2>2, <2>4 DEF StagingIsOwn
    <3>3. L2JOpened \cup L2JClosed \cup DatOpened \cup DatClosed \subseteq Staging
      BY DEF L2JOpened, L2JClosed, DatOpened, DatClosed, Staging
    <3>4. pc[f] \in Staging => staging'[attempt[f]] = staging[attempt[f]]
      BY <2>1, <3>2 DEF TypeOK
    <3>5. \A k \in Kinds : writer'[k][f] = writer[k][f] /\ whole'[k][f] = whole[k][f]
      BY <2>1, <2>4 DEF TypeOK
    <3> QED
      BY <3>1, <3>3, <3>4, <3>5 DEF FilesAreWritten, Kinds
  <2> QED
    BY <2>3, <2>4
<1>6. ASSUME NEW e \in Exports, NEW kind \in Kinds, Write(e, kind)  PROVE FilesAreWritten'
  <2>1. whole' = [whole EXCEPT ![kind][e] = TRUE]
    BY <1>6, WritesOwn
  <2>2. UNCHANGED <<clientDat, attempt, staging, writer>>
    BY <1>6 DEF Write
  <2>3. \A f \in Exports : f # e => pc'[f] = pc[f]
    BY <1>6, WriteGoes DEF TypeOK
  <2>4. \A k \in Kinds : \A f \in Exports : whole[k][f] => whole'[k][f]
    BY <2>1 DEF TypeOK
  <2>5. whole'[kind][e]
    BY <2>1 DEF TypeOK
  <2>6. /\ pc'[e] \in L2JOpened => pc[e] \in L2JOpened
        /\ pc'[e] \in L2JClosed => pc[e] \in L2JClosed \/ kind = "l2j"
        /\ clientDat[e] /\ pc'[e] \in DatOpened => pc[e] \in DatOpened
        /\ clientDat[e] /\ pc'[e] \in DatClosed => kind = "dat"
    BY <1>6, WriteGoes DEF TypeOK, L2JOpened, L2JClosed, DatOpened, DatClosed
  <2> QED
    BY <2>2, <2>3, <2>4, <2>5, <2>6 DEF FilesAreWritten, Kinds
<1>7. ASSUME NEW e \in Exports, NEW kind \in Kinds, WriteFails(e, kind)  PROVE FilesAreWritten'
  <2>1. UNCHANGED <<clientDat, attempt, staging, writer, whole>>
    BY <1>7 DEF WriteFails
  <2>2. \A f \in Exports : f # e => pc'[f] = pc[f]
    BY <1>7, WriteFailsGoes DEF TypeOK
  <2>3. pc'[e] \notin L2JOpened \cup L2JClosed \cup DatOpened \cup DatClosed
    BY <1>7, WriteFailsGoes DEF TypeOK, L2JOpened, L2JClosed, DatOpened, DatClosed
  <2> QED
    BY <2>1, <2>2, <2>3 DEF FilesAreWritten
<1>8. ASSUME NEW e \in Exports, LinkL2J(e)  PROVE FilesAreWritten'
  BY <1>8
     DEF LinkL2J, Link, Linkable, Staged, Goto, TypeOK, StagingIsOwn, Staging,
         OnlyDatsAsked, FilesAreWritten, L2JOpened, L2JClosed, DatOpened, DatClosed, Staged,
         Kinds
<1>9. ASSUME NEW e \in Exports, LinkDat(e)  PROVE FilesAreWritten'
  BY <1>9
     DEF LinkDat, Link, Linkable, Staged, Goto, TypeOK, StagingIsOwn, Staging,
         OnlyDatsAsked, FilesAreWritten, L2JOpened, L2JClosed, DatOpened, DatClosed, Staged,
         Kinds
<1>10. ASSUME NEW e \in Exports, LinkL2JFails(e)  PROVE FilesAreWritten'
  BY <1>10
     DEF LinkL2JFails, Goto, TypeOK, StagingIsOwn, Staging, OnlyDatsAsked, FilesAreWritten,
         L2JOpened, L2JClosed, DatOpened, DatClosed, Staged, Kinds
<1>11. ASSUME NEW e \in Exports, LinkDatFails(e)  PROVE FilesAreWritten'
  BY <1>11
     DEF LinkDatFails, Goto, TypeOK, StagingIsOwn, Staging, OnlyDatsAsked, FilesAreWritten,
         L2JOpened, L2JClosed, DatOpened, DatClosed, Staged, Kinds
<1>12. ASSUME NEW e \in Exports, Rollback(e)  PROVE FilesAreWritten'
  BY <1>12
     DEF Rollback, RolledBack, Goto, TypeOK, StagingIsOwn, Staging, OnlyDatsAsked,
         FilesAreWritten, L2JOpened, L2JClosed, DatOpened, DatClosed, Staged, Kinds
<1>13. ASSUME NEW e \in Exports, RollbackFails(e)  PROVE FilesAreWritten'
  BY <1>13
     DEF RollbackFails, Goto, TypeOK, StagingIsOwn, Staging, OnlyDatsAsked, FilesAreWritten,
         L2JOpened, L2JClosed, DatOpened, DatClosed, Staged, Kinds
<1>14. ASSUME NEW e \in Exports, Clean(e)  PROVE FilesAreWritten'
  <2>1. pc[e] \in Staging
    BY <1>14 DEF Clean, Cleaned, Staging
  <2>2. \A f \in Exports : f # e /\ pc[f] \in Staging => staging'[attempt[f]] = staging[attempt[f]]
    BY <1>14, <2>1 DEF Clean, StagingIsOwn, TypeOK
  <2>3. \A f \in Exports : f # e => pc'[f] = pc[f]
    BY <1>14 DEF Clean, Goto, TypeOK
  <2>4. pc'[e] \notin L2JOpened \cup L2JClosed \cup DatOpened \cup DatClosed
    BY <1>14 DEF Clean, Cleaned, Goto, TypeOK, L2JOpened, L2JClosed, DatOpened, DatClosed
  <2>5. L2JOpened \cup L2JClosed \cup DatOpened \cup DatClosed \subseteq Staging
    BY DEF L2JOpened, L2JClosed, DatOpened, DatClosed, Staging
  <2>6. UNCHANGED <<clientDat, attempt, writer, whole>>
    BY <1>14 DEF Clean
  <2> QED
    BY <2>2, <2>3, <2>4, <2>5, <2>6 DEF FilesAreWritten
<1>15. ASSUME NEW e \in Exports, Die(e)  PROVE FilesAreWritten'
  BY <1>15
     DEF Die, Active, Goto, TypeOK, StagingIsOwn, Staging, OnlyDatsAsked, FilesAreWritten,
         L2JOpened, L2JClosed, DatOpened, DatClosed, Staged, Kinds
<1>16. CASE MoveAside
  BY <1>16
     DEF MoveAside, Active, Empty, Ended, TypeOK, StagingIsOwn, Staging, OnlyDatsAsked,
         FilesAreWritten, L2JOpened, L2JClosed, DatOpened, DatClosed, Staged, Kinds
<1>17. CASE UNCHANGED exportVars
  BY <1>17
     DEF exportVars, TypeOK, StagingIsOwn, Staging, OnlyDatsAsked, FilesAreWritten, L2JOpened,
         L2JClosed, DatOpened, DatClosed, Staged, Kinds
<1> QED
  BY <1>1, <1>2, <1>3, <1>4, <1>5, <1>6, <1>7, <1>8, <1>9, <1>10, <1>11, <1>12, <1>13,
     <1>14, <1>15, <1>16, <1>17 DEF ExportNext, Steps

LEMMA LinksStep ==
  ExportInv /\ [ExportNext]_exportVars => LinksAreMade'
<1> SUFFICES ASSUME ExportInv, [ExportNext]_exportVars
             PROVE  LinksAreMade'
  OBVIOUS
<1> USE DistinctNames
<1>1. ASSUME NEW e \in Exports, Check(e)  PROVE LinksAreMade'
  BY <1>1
     DEF Check, Occupied, Goto, ExportInv, TypeOK, LinksAreMade, Linking, PairIsOfOneBuild,
         Kinds
<1>2. ASSUME NEW e \in Exports, Reserve(e)  PROVE LinksAreMade'
  BY <1>2
     DEF Reserve, Free, Goto, Empty, ExportInv, TypeOK, LinksAreMade, Linking,
         PairIsOfOneBuild, Kinds
<1>3. ASSUME NEW e \in Exports, NextCandidate(e)  PROVE LinksAreMade'
  BY <1>3
     DEF NextCandidate, Stagings, ExportInv, TypeOK, LinksAreMade, Linking,
         PairIsOfOneBuild, Kinds
<1>4. ASSUME NEW e \in Exports, StageFails(e)  PROVE LinksAreMade'
  BY <1>4
     DEF StageFails, Goto, ExportInv, TypeOK, LinksAreMade, Linking, PairIsOfOneBuild, Kinds
<1>5. ASSUME NEW e \in Exports, NEW kind \in Kinds, Open(e, kind)  PROVE LinksAreMade'
  <2>1. UNCHANGED <<clientDat, output>>
    BY <1>5 DEF Open
  <2>2. pc[e] \notin Linking
    BY <1>5, OpenGoes DEF Linking
  <2>3. \A k \in Kinds : output[k] # e
    BY <2>2 DEF ExportInv, LinksAreMade, Linking, Kinds
  <2>4. pc'[e] \notin Linking
    BY <1>5, OpenGoes DEF ExportInv, TypeOK, Linking
  <2>5. \A f \in Exports : f # e => pc'[f] = pc[f]
    BY <1>5, OpenGoes DEF ExportInv, TypeOK
  <2> QED
    BY <2>1, <2>3, <2>4, <2>5 DEF ExportInv, LinksAreMade, Linking, Kinds
<1>6. ASSUME NEW e \in Exports, NEW kind \in Kinds, Write(e, kind)  PROVE LinksAreMade'
  <2>1. UNCHANGED <<clientDat, output>>
    BY <1>6 DEF Write
  <2>2. pc[e] \notin Linking
    BY <1>6, WriteGoes DEF Linking
  <2>3. \A k \in Kinds : output[k] # e
    BY <2>2 DEF ExportInv, LinksAreMade, Linking, Kinds
  <2>4. pc'[e] \notin Linking
    BY <1>6, WriteGoes DEF ExportInv, TypeOK, Linking
  <2>5. \A f \in Exports : f # e => pc'[f] = pc[f]
    BY <1>6, WriteGoes DEF ExportInv, TypeOK
  <2> QED
    BY <2>1, <2>3, <2>4, <2>5 DEF ExportInv, LinksAreMade, Linking, Kinds
<1>7. ASSUME NEW e \in Exports, NEW kind \in Kinds, WriteFails(e, kind)  PROVE LinksAreMade'
  <2>1. UNCHANGED <<clientDat, output>>
    BY <1>7 DEF WriteFails
  <2>2. pc[e] \notin Linking
    BY <1>7, WriteFailsGoes DEF Linking
  <2>3. \A k \in Kinds : output[k] # e
    BY <2>2 DEF ExportInv, LinksAreMade, Linking, Kinds
  <2>4. pc'[e] \notin Linking
    BY <1>7, WriteFailsGoes DEF ExportInv, TypeOK, Linking
  <2>5. \A f \in Exports : f # e => pc'[f] = pc[f]
    BY <1>7, WriteFailsGoes DEF ExportInv, TypeOK
  <2> QED
    BY <2>1, <2>3, <2>4, <2>5 DEF ExportInv, LinksAreMade, Linking, Kinds
<1>8. ASSUME NEW e \in Exports, LinkL2J(e)  PROVE LinksAreMade'
  <2>1. output' = [output EXCEPT !["l2j"] = e]
    BY <1>8, LinksOwn DEF ExportInv
  <2>2. /\ pc[e] = "link l2j" /\ output["l2j"] = None /\ clientDat' = clientDat
        /\ pc' = [pc EXCEPT ![e] = IF clientDat[e] THEN "link dat" ELSE "clean done"]
    BY <1>8 DEF LinkL2J, Link, Linkable, Goto
  <2>3. output["dat"] = None
    BY <2>2 DEF ExportInv, PairIsOfOneBuild
  <2>4. output'["l2j"] = e /\ output'["dat"] = None
    BY <2>1, <2>3 DEF ExportInv, TypeOK, Kinds
  <2>5. pc'[e] = (IF clientDat[e] THEN "link dat" ELSE "clean done")
    BY <2>2 DEF ExportInv, TypeOK
  <2>6. \A f \in Exports : f # e => pc'[f] = pc[f]
    BY <2>2 DEF ExportInv, TypeOK
  <2>7. \A f \in Exports : f # e => pc[f] \notin {"link dat", "rollback", "clean done"}
    BY <2>2 DEF ExportInv, LinksAreMade, Linking
  <2>8. e \in Exports /\ None \notin Exports /\ Kinds = {"l2j", "dat"}
    BY DEF Kinds
  <2> DEFINE Good(f) ==
        /\ output'["l2j"] = f => pc'[f] \in Linking
        /\ output'["dat"] = f => pc'[f] \in {"clean done", "done", "died"}
        /\ pc'[f] \in {"link dat", "rollback"} => output'["l2j"] = f /\ output'["dat"] = None
        /\ pc'[f] = "clean done" =>
             output'["l2j"] = f /\ (clientDat'[f] => output'["dat"] = f)
  <2>9. Good(e)
    <3>1. CASE clientDat[e]
      <4>1. pc'[e] = "link dat"
        BY <2>5, <3>1
      <4> QED
        BY <2>4, <2>8, <4>1 DEF Linking
    <3>2. CASE ~clientDat[e]
      <4>1. pc'[e] = "clean done" /\ ~clientDat'[e]
        BY <2>2, <2>5, <3>2
      <4> QED
        BY <2>4, <2>8, <4>1 DEF Linking
    <3> QED
      BY <3>1, <3>2
  <2>10. ASSUME NEW f \in Exports, f # e PROVE Good(f)
    BY <2>4, <2>6, <2>7, <2>8, <2>10
  <2> QED
    BY <2>9, <2>10 DEF LinksAreMade
<1>9. ASSUME NEW e \in Exports, LinkDat(e)  PROVE LinksAreMade'
  <2>1. output' = [output EXCEPT !["dat"] = e]
    BY <1>9, LinksOwn DEF ExportInv
  <2>2. pc[e] = "link dat" /\ pc' = [pc EXCEPT ![e] = "clean done"] /\ clientDat' = clientDat
    BY <1>9 DEF LinkDat, Link, Goto
  <2>3. output["l2j"] = e
    BY <2>2 DEF ExportInv, LinksAreMade, Linking
  <2>4. output'["l2j"] = e /\ output'["dat"] = e
    BY <2>1, <2>3 DEF ExportInv, TypeOK, Kinds
  <2> QED
    BY <2>2, <2>3, <2>4 DEF ExportInv, TypeOK, LinksAreMade, Linking
<1>10. ASSUME NEW e \in Exports, LinkL2JFails(e)  PROVE LinksAreMade'
  BY <1>10
     DEF LinkL2JFails, Goto, ExportInv, TypeOK, LinksAreMade, Linking, PairIsOfOneBuild,
         Kinds
<1>11. ASSUME NEW e \in Exports, LinkDatFails(e)  PROVE LinksAreMade'
  BY <1>11
     DEF LinkDatFails, Goto, ExportInv, TypeOK, LinksAreMade, Linking, PairIsOfOneBuild,
         Kinds
<1>12. ASSUME NEW e \in Exports, Rollback(e)  PROVE LinksAreMade'
  BY <1>12
     DEF Rollback, RolledBack, Goto, ExportInv, TypeOK, LinksAreMade, Linking,
         PairIsOfOneBuild, Kinds
<1>13. ASSUME NEW e \in Exports, RollbackFails(e)  PROVE LinksAreMade'
  BY <1>13
     DEF RollbackFails, Goto, ExportInv, TypeOK, LinksAreMade, Linking, PairIsOfOneBuild,
         Kinds
<1>14. ASSUME NEW e \in Exports, Clean(e)  PROVE LinksAreMade'
  BY <1>14
     DEF Clean, Cleaned, Goto, ExportInv, TypeOK, LinksAreMade, Linking, PairIsOfOneBuild,
         Kinds
<1>15. ASSUME NEW e \in Exports, Die(e)  PROVE LinksAreMade'
  BY <1>15
     DEF Die, Active, Goto, ExportInv, TypeOK, LinksAreMade, Linking, PairIsOfOneBuild,
         Kinds
<1>16. CASE MoveAside
  BY <1>16
     DEF MoveAside, Active, Empty, Ended, ExportInv, TypeOK, LinksAreMade, Linking,
         PairIsOfOneBuild, Kinds
<1>17. CASE UNCHANGED exportVars
  BY <1>17 DEF exportVars, ExportInv, TypeOK, LinksAreMade, Linking, PairIsOfOneBuild, Kinds
<1> QED
  BY <1>1, <1>2, <1>3, <1>4, <1>5, <1>6, <1>7, <1>8, <1>9, <1>10, <1>11, <1>12, <1>13,
     <1>14, <1>15, <1>16, <1>17 DEF ExportNext, Steps

LEMMA PairStep ==
  ExportInv /\ [ExportNext]_exportVars => PairIsOfOneBuild'
<1> SUFFICES ASSUME ExportInv, [ExportNext]_exportVars
             PROVE  PairIsOfOneBuild'
  OBVIOUS
<1> USE DistinctNames
<1>1. ASSUME NEW e \in Exports, Check(e)  PROVE PairIsOfOneBuild'
  BY <1>1
     DEF Check, Occupied, Goto, ExportInv, TypeOK, LinksAreMade, Linking, PairIsOfOneBuild,
         Made, Kinds
<1>2. ASSUME NEW e \in Exports, Reserve(e)  PROVE PairIsOfOneBuild'
  BY <1>2
     DEF Reserve, Free, Goto, Empty, ExportInv, TypeOK, LinksAreMade, Linking,
         PairIsOfOneBuild, Made, Kinds
<1>3. ASSUME NEW e \in Exports, NextCandidate(e)  PROVE PairIsOfOneBuild'
  BY <1>3
     DEF NextCandidate, Stagings, ExportInv, TypeOK, LinksAreMade, Linking,
         PairIsOfOneBuild, Made, Kinds
<1>4. ASSUME NEW e \in Exports, StageFails(e)  PROVE PairIsOfOneBuild'
  BY <1>4
     DEF StageFails, Goto, ExportInv, TypeOK, LinksAreMade, Linking, PairIsOfOneBuild, Made,
         Kinds
<1>5. ASSUME NEW e \in Exports, NEW kind \in Kinds, Open(e, kind)  PROVE PairIsOfOneBuild'
  <2>1. /\ writer' = [writer EXCEPT ![kind][e] = e]
        /\ whole' = [whole EXCEPT ![kind][e] = FALSE] /\ output' = output
    BY <1>5, OpensOwn DEF ExportInv, Open
  <2>2. \A k \in Kinds : output[k] # e
    BY <1>5, OpenGoes DEF ExportInv, LinksAreMade, Linking, Kinds
  <2> QED
    BY <2>1, <2>2 DEF ExportInv, TypeOK, PairIsOfOneBuild, Made
<1>6. ASSUME NEW e \in Exports, NEW kind \in Kinds, Write(e, kind)  PROVE PairIsOfOneBuild'
  <2>1. whole' = [whole EXCEPT ![kind][e] = TRUE] /\ output' = output /\ writer' = writer
    BY <1>6, WritesOwn DEF ExportInv, Write
  <2> QED
    BY <2>1 DEF ExportInv, TypeOK, PairIsOfOneBuild, Made
<1>7. ASSUME NEW e \in Exports, NEW kind \in Kinds, WriteFails(e, kind)  PROVE PairIsOfOneBuild'
  BY <1>7
     DEF WriteFails, Goto, Opens, Writes, ExportInv, TypeOK, LinksAreMade, Linking,
         PairIsOfOneBuild, Made, Kinds
<1>8. ASSUME NEW e \in Exports, LinkL2J(e)  PROVE PairIsOfOneBuild'
  <2>1. /\ output' = [output EXCEPT !["l2j"] = e]
        /\ writer["l2j"][e] = e /\ whole["l2j"][e]
    BY <1>8, LinksOwn DEF ExportInv
  <2>2. output["l2j"] = None /\ writer' = writer /\ whole' = whole
    BY <1>8 DEF LinkL2J, Link, Linkable
  <2>3. output["dat"] = None
    BY <2>2 DEF ExportInv, PairIsOfOneBuild
  <2>4. output'["l2j"] = e /\ output'["dat"] = None
    BY <2>1, <2>3 DEF ExportInv, TypeOK, Kinds
  <2> QED
    BY <2>1, <2>2, <2>4 DEF PairIsOfOneBuild, Made, Kinds
<1>9. ASSUME NEW e \in Exports, LinkDat(e)  PROVE PairIsOfOneBuild'
  <2>1. /\ output' = [output EXCEPT !["dat"] = e]
        /\ writer["dat"][e] = e /\ whole["dat"][e]
    BY <1>9, LinksOwn DEF ExportInv
  <2>2. pc[e] = "link dat" /\ writer' = writer /\ whole' = whole
    BY <1>9 DEF LinkDat, Link
  <2>3. output["l2j"] = e
    BY <2>2 DEF ExportInv, LinksAreMade, Linking
  <2>4. output'["l2j"] = e /\ output'["dat"] = e
    BY <2>1, <2>3 DEF ExportInv, TypeOK, Kinds
  <2>5. writer["l2j"][e] = e /\ whole["l2j"][e]
    BY <2>3 DEF ExportInv, PairIsOfOneBuild, Made, Kinds
  <2> QED
    BY <2>1, <2>2, <2>4, <2>5 DEF PairIsOfOneBuild, Made, Kinds
<1>10. ASSUME NEW e \in Exports, LinkL2JFails(e)  PROVE PairIsOfOneBuild'
  BY <1>10
     DEF LinkL2JFails, Goto, ExportInv, TypeOK, LinksAreMade, Linking, PairIsOfOneBuild,
         Made, Kinds
<1>11. ASSUME NEW e \in Exports, LinkDatFails(e)  PROVE PairIsOfOneBuild'
  BY <1>11
     DEF LinkDatFails, Goto, ExportInv, TypeOK, LinksAreMade, Linking, PairIsOfOneBuild,
         Made, Kinds
<1>12. ASSUME NEW e \in Exports, Rollback(e)  PROVE PairIsOfOneBuild'
  BY <1>12
     DEF Rollback, RolledBack, Goto, ExportInv, TypeOK, LinksAreMade, Linking,
         PairIsOfOneBuild, Made, Kinds
<1>13. ASSUME NEW e \in Exports, RollbackFails(e)  PROVE PairIsOfOneBuild'
  BY <1>13
     DEF RollbackFails, Goto, ExportInv, TypeOK, LinksAreMade, Linking, PairIsOfOneBuild,
         Made, Kinds
<1>14. ASSUME NEW e \in Exports, Clean(e)  PROVE PairIsOfOneBuild'
  BY <1>14
     DEF Clean, Cleaned, Goto, ExportInv, TypeOK, LinksAreMade, Linking, PairIsOfOneBuild,
         Made, Kinds
<1>15. ASSUME NEW e \in Exports, Die(e)  PROVE PairIsOfOneBuild'
  BY <1>15
     DEF Die, Active, Goto, ExportInv, TypeOK, LinksAreMade, Linking, PairIsOfOneBuild,
         Made, Kinds
<1>16. CASE MoveAside
  BY <1>16
     DEF MoveAside, Active, Empty, Ended, ExportInv, TypeOK, LinksAreMade, Linking,
         PairIsOfOneBuild, Made, Kinds
<1>17. CASE UNCHANGED exportVars
  BY <1>17 DEF exportVars, ExportInv, TypeOK, LinksAreMade, Linking, PairIsOfOneBuild, Made, Kinds
<1> QED
  BY <1>1, <1>2, <1>3, <1>4, <1>5, <1>6, <1>7, <1>8, <1>9, <1>10, <1>11, <1>12, <1>13,
     <1>14, <1>15, <1>16, <1>17 DEF ExportNext, Steps

(* The invariant, for any number of exports on one directory, each of      *)
(* which may fail or die at any step.                                      *)
THEOREM ExportInvariant == ExportSpec => []ExportInv
<1>1. ExportInv /\ [ExportNext]_exportVars => ExportInv'
  <2>1. ExportInv => /\ TypeOK /\ StagingIsOwn /\ OnlyDatsAsked
                     /\ FilesAreWritten
    BY DEF ExportInv
  <2> QED
    BY <2>1, TypesStep, StagingStep, DatsStep, FilesStep, LinksStep, PairStep DEF ExportInv
<1> QED
  BY InitHolds, <1>1, PTL DEF ExportSpec

(* A client DAT stands beside the L2J of its own build, and what stands    *)
(* under a name is whole (Exporter.cpp:107-133).                           *)
THEOREM PairsAreOfOneBuild == ExportSpec => []PairIsOfOneBuild
<1>1. ExportInv => PairIsOfOneBuild
  BY DEF ExportInv
<1> QED
  BY <1>1, ExportInvariant, PTL

(* An export that returned published all it was asked for; one that threw  *)
(* left nothing, unless withdrawing failed too (Exporter.cpp:127-135).     *)
THEOREM ExportsAreAllOrNothing == ExportSpec => []AllOrNothing
<1>1. ExportInv => AllOrNothing
  BY DEF ExportInv, LinksAreMade, Linking, AllOrNothing, Kinds
<1> QED
  BY <1>1, ExportInvariant, PTL

(* Published files keep their bytes and their names, but for the user and  *)
(* for the export that withdraws its own (Exporter.cpp:127-135).           *)
THEOREM NothingGetsOverwritten == ExportSpec => NothingIsOverwritten
<1> DEFINE Keeps ==
      \A kind \in Kinds : output[kind] # None =>
        /\ output'[kind] # output[kind] =>
             /\ output'[kind] = None
             /\ \/ \A e \in Exports : ~Active(e)
                \/ \E e \in Exports : output[kind] = e /\ pc[e] = "rollback"
        /\ Made(kind) =>
             /\ writer'[kind][output[kind]] = writer[kind][output[kind]]
             /\ whole'[kind][output[kind]] = whole[kind][output[kind]]
<1>1. ExportInv /\ [ExportNext]_exportVars => Keeps
  <2> SUFFICES ASSUME ExportInv, [ExportNext]_exportVars, NEW name \in Kinds, output[name] # None
               PROVE  /\ output'[name] # output[name] =>
                           /\ output'[name] = None
                           /\ \/ \A e \in Exports : ~Active(e)
                              \/ \E e \in Exports : output[name] = e /\ pc[e] = "rollback"
                      /\ Made(name) =>
                           /\ writer'[name][output[name]] = writer[name][output[name]]
                           /\ whole'[name][output[name]] = whole[name][output[name]]
    OBVIOUS
  <2> USE DistinctNames
  <2>1. ASSUME NEW e \in Exports, NEW kind \in Kinds, Open(e, kind)
        PROVE  /\ output' = output
               /\ Made(name) => /\ writer'[name][output[name]] = writer[name][output[name]]
                                /\ whole'[name][output[name]] = whole[name][output[name]]
    <3>1. /\ writer' = [writer EXCEPT ![kind][e] = e]
          /\ whole' = [whole EXCEPT ![kind][e] = FALSE] /\ output' = output
      BY <2>1, OpensOwn DEF ExportInv, Open
    <3>2. output[name] # e
      BY <2>1, OpenGoes DEF ExportInv, LinksAreMade, Linking, Kinds
    <3> QED
      BY <3>1, <3>2 DEF ExportInv, TypeOK, Made
  <2>2. ASSUME NEW e \in Exports, NEW kind \in Kinds, Write(e, kind)
        PROVE  /\ output' = output
               /\ Made(name) => /\ writer'[name][output[name]] = writer[name][output[name]]
                                /\ whole'[name][output[name]] = whole[name][output[name]]
    <3>1. /\ whole' = [whole EXCEPT ![kind][e] = TRUE]
          /\ output' = output /\ writer' = writer
      BY <2>2, WritesOwn DEF ExportInv, Write
    <3>2. output[name] # e
      BY <2>2, WriteGoes DEF ExportInv, LinksAreMade, Linking, Kinds
    <3> QED
      BY <3>1, <3>2 DEF ExportInv, TypeOK, Made
  <2>3. ASSUME NEW e \in Exports, LinkL2J(e) \/ LinkDat(e)
        PROVE  output'[name] = output[name] /\ UNCHANGED <<writer, whole>>
    BY <2>3 DEF LinkL2J, LinkDat, Link, Linkable, ExportInv, TypeOK, Kinds
  <2>4. ASSUME NEW e \in Exports, Rollback(e)
        PROVE  /\ UNCHANGED <<writer, whole>>
               /\ output'[name] # output[name] =>
                    output'[name] = None /\ output[name] = e /\ pc[e] = "rollback"
    BY <2>4 DEF Rollback, RolledBack, ExportInv, TypeOK, LinksAreMade, Linking, Kinds
  <2>5. CASE MoveAside
    BY <2>5 DEF MoveAside, Empty, Kinds
  <2>6. CASE UNCHANGED <<writer, whole, output>>
    BY <2>6
  <2> QED
    BY <2>1, <2>2, <2>3, <2>4, <2>5, <2>6
       DEF ExportNext, Steps, Check, Reserve, NextCandidate, StageFails, WriteFails,
           LinkL2JFails, LinkDatFails, RollbackFails, Clean, Die, exportVars
<1>2. Keeps => [\A kind \in Kinds : output[kind] # None =>
        /\ output'[kind] # output[kind] =>
             /\ output'[kind] = None
             /\ \/ \A e \in Exports : ~Active(e)
                \/ \E e \in Exports : output[kind] = e /\ pc[e] = "rollback"
        /\ Made(kind) =>
             /\ writer'[kind][output[kind]] = writer[kind][output[kind]]
             /\ whole'[kind][output[kind]] = whole[kind][output[kind]]]_exportVars
  OBVIOUS
<1> QED
  BY <1>1, <1>2, ExportInvariant, PTL DEF ExportSpec, NothingIsOverwritten
=============================================================================
