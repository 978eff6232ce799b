---------------------------- MODULE GeodataFormat ----------------------------
(***************************************************************************)
(* How the cells of a region are kept and written: the export buffer       *)
(* (geodata/src/ExportBuffer.cpp), its compression into blocks             *)
(* (Compressor.cpp), the server's L2J stream and its reader                *)
(* (L2JSerializer.cpp) and the client's PTS stream (PtsSerializer.cpp).    *)
(*                                                                         *)
(* A stream is the sequence of the numbers written to it, each one or two  *)
(* bytes wide; a reader that lost its place reads a number as something    *)
(* it is not.  Directions are sets of names where the code has four bits.  *)
(***************************************************************************)
EXTENDS Integers, Sequences, FiniteSets, SequencesExt

CONSTANTS
  BlocksX, BlocksY,   (* blocks of a region: 256 each way                    *)
  BlockSide,          (* cells of a side of a block: 8                       *)
  MaxLayers           (* cells of one column: 64                             *)

BlocksAssumption == {BlocksX, BlocksY, BlockSide, MaxLayers} \subseteq Nat \ {0}
ASSUME BlocksAssumption

Blocks == (0 .. BlocksX - 1) \X (0 .. BlocksY - 1)
Cells == (0 .. BlocksX * BlockSide - 1) \X (0 .. BlocksY * BlockSide - 1)
BlockArea == BlockSide * BlockSide

Compass == {"north", "south", "west", "east"}
Bit(name) == CASE name = "north" -> 8 [] name = "south" -> 4
               [] name = "west" -> 2 [] name = "east" -> 1
Nswe(open) == LET bit(name) == IF name \in open THEN Bit(name) ELSE 0
              IN bit("north") + bit("south") + bit("west") + bit("east")
OpenOf(word) == {name \in Compass : (word \div Bit(name)) % 2 = 1}

(* A fold over a sequence, by the place it has come to.                    *)
Through(Take(_, _), start, pieces) ==
  LET after[n \in 0 .. Len(pieces)] ==
        IF n = 0 THEN start ELSE Take(after[n - 1], pieces[n])
  IN after[Len(pieces)]

Unsigned(z) == z % 65536
Signed(word) == IF word < 32768 THEN word ELSE word - 65536

(* Division towards zero, as in C.                                         *)
Truncated(n, d) == IF n >= 0 THEN n \div d ELSE -((-n) \div d)
(* Mutant of Rounded: heights are kept to the unit.                        *)
NotRounded(z) == z

Rounded(z) == Truncated(z, 8) * 8

SimpleType == 0
ComplexType == 1
MultilayerType == 2

(* The order both streams go through a region: block after block, column   *)
(* after column of a block, y before x.                                    *)
BlockSeq == [n \in 1 .. BlocksX * BlocksY |->
               << (n - 1) \div BlocksY, ((n - 1) % BlocksY) >>]
CellSeq(block) == [n \in 1 .. BlockArea |->
                     << (block[1] * BlockSide) + ((n - 1) \div BlockSide),
                        (block[2] * BlockSide) + ((n - 1) % BlockSide) >>]
CellsOf(block) == {CellSeq(block)[n] : n \in 1 .. BlockArea}
Origin(block) == CellSeq(block)[1]

(* ExportBuffer::reset: the cells of a column from the lowest up, their    *)
(* heights rounded.                                                        *)
Sorted(cells) == CHOOSE column \in [1 .. Cardinality(cells) -> cells] :
                   \A i, j \in DOMAIN column : i < j => column[i].z < column[j].z
Packed(cell) == [cell EXCEPT !.z = Rounded(@)]
Buffered(cells) ==
  [place \in Cells |->
     LET column == Sorted(cells[place])
     IN [i \in DOMAIN column |-> Packed(column[i])]]
TooManyLayers(cells) == \E place \in Cells : Cardinality(cells[place]) > MaxLayers

(* Compressor::compress, with SIMPLE_BLOCK_MAX_HEIGHT_DIFFERENCE = 16.     *)
Lowest(columns, block) == {columns[place][1] : place \in CellsOf(block)}
Multilayer(columns, block) ==
  \E place \in CellsOf(block) : Len(columns[place]) > 1
Simple(columns, block) ==
  /\ ~Multilayer(columns, block)
  /\ \A cell \in Lowest(columns, block) : cell.open = Compass
  /\ \A a, b \in Lowest(columns, block) : a.z - b.z <= 16

TypeOf(columns, block) ==
  IF Multilayer(columns, block) THEN MultilayerType
  ELSE IF Simple(columns, block) THEN SimpleType ELSE ComplexType

MiddleHeight(columns, block) ==
  LET zs == {cell.z : cell \in Lowest(columns, block)}
      min == CHOOSE z \in zs : \A other \in zs : z <= other
      max == CHOOSE z \in zs : \A other \in zs : z >= other
  IN min + (max - min) \div 2

(* A simple block keeps its height in its first cell.                      *)
Compressed(columns) ==
  [types |-> [block \in Blocks |-> TypeOf(columns, block)],
   columns |->
     [place \in Cells |->
        LET block == << place[1] \div BlockSide, place[2] \div BlockSide >>
        IN IF place = Origin(block) /\ Simple(columns, block)
             THEN [columns[place] EXCEPT ![1].z =
                     Rounded(MiddleHeight(columns, block))]
             ELSE columns[place]]]

CellAt(place, type, cell) ==
  [x |-> place[1], y |-> place[2], type |-> type, z |-> cell.z, open |-> cell.open]

(* ExportBuffer::convert_to_geodata: the cells the preview shows.          *)
BlockCells(buffer, block) ==
  LET type == buffer.types[block]
      column(place) == buffer.columns[place]
      first(place) == CellAt(place, type, column(place)[1])
      all(place) == [i \in DOMAIN column(place) |->
                       CellAt(place, type, column(place)[i])]
      places == CellSeq(block)
  IN CASE type = SimpleType -> << first(Origin(block)) >>
       [] type = ComplexType -> [n \in DOMAIN places |-> first(places[n])]
       [] type = MultilayerType ->
            FlattenSeq([n \in DOMAIN places |-> all(places[n])])
Converted(buffer) ==
  FlattenSeq([n \in DOMAIN BlockSeq |-> BlockCells(buffer, BlockSeq[n])])

(* A height of a complex or multilayer block has thirteen bits.            *)
OutOfRange(cell) == cell.z < -16384 \/ cell.z > 16376
(* Mutant of Refused: the lower end of the range is not looked at.         *)
RefusedAbove(buffer) ==
  \E block \in Blocks :
    /\ buffer.types[block] # SimpleType
    /\ \E n \in DOMAIN BlockCells(buffer, block) :
         BlockCells(buffer, block)[n].z > 16376

Refused(buffer) ==
  \E block \in Blocks :
    /\ buffer.types[block] # SimpleType
    /\ \E n \in DOMAIN BlockCells(buffer, block) :
         OutOfRange(BlockCells(buffer, block)[n])

(* (z << 1) | nswe: the direction bits are free only in a multiple of 8.   *)
L2JWord(z, open) == Unsigned((2 * z) - ((2 * z) % 16)
                             + Nswe(open \cup OpenOf((2 * z) % 16)))
L2JBlock(buffer, block) ==
  LET type == buffer.types[block]
      column(place) == buffer.columns[place]
      word(cell) == L2JWord(cell.z, cell.open)
      places == CellSeq(block)
  IN CASE type = SimpleType -> << type, Unsigned(column(Origin(block))[1].z) >>
       [] type = ComplexType ->
            << type >> \o [n \in DOMAIN places |-> word(column(places[n])[1])]
       [] type = MultilayerType ->
            << type >> \o FlattenSeq([n \in DOMAIN places |->
              << Len(column(places[n])) >> \o
              [i \in DOMAIN column(places[n]) |-> word(column(places[n])[i])]])
L2JStream(buffer) ==
  FlattenSeq([n \in DOMAIN BlockSeq |-> L2JBlock(buffer, BlockSeq[n])])

(* ((z << 1) & 0xfff0) | nswe.                                             *)
PtsWord(z, open) == Unsigned((2 * z) - ((2 * z) % 16) + Nswe(open))

Layers(buffer, block) ==
  Through(LAMBDA sum, place : sum + Len(buffer.columns[place]), 0, CellSeq(block))

(* A multilayer block of as many cells as a complex one is written as one. *)
PtsType(buffer, block) ==
  IF buffer.types[block] = MultilayerType /\ Layers(buffer, block) = BlockArea
    THEN ComplexType ELSE buffer.types[block]
PtsBlock(buffer, block) ==
  LET type == PtsType(buffer, block)
      column(place) == buffer.columns[place]
      word(cell) == PtsWord(cell.z, cell.open)
      places == CellSeq(block)
      height == Unsigned(column(Origin(block))[1].z)
  IN CASE type = SimpleType -> << 0, height, height >>
       [] type = ComplexType ->
            << BlockArea >> \o [n \in DOMAIN places |-> word(column(places[n])[1])]
       [] type = MultilayerType ->
            << Layers(buffer, block) >> \o FlattenSeq([n \in DOMAIN places |->
              << Len(column(places[n])) >> \o
              [i \in DOMAIN column(places[n]) |-> word(column(places[n])[i])]])

(* The counters of the header: cells that are not flat, blocks that have   *)
(* one word per column, flat blocks.                                       *)
PtsHeader(buffer) ==
  LET flat == {b \in Blocks : PtsType(buffer, b) = SimpleType}
      complex == {b \in Blocks : PtsType(buffer, b) = ComplexType}
      cells == Through(LAMBDA sum, b : sum + IF b \in flat THEN 0
                                             ELSE Layers(buffer, b), 0, BlockSeq)
  IN << cells, Cardinality(flat) + Cardinality(complex), Cardinality(flat) >>
PtsStream(buffer) ==
  PtsHeader(buffer) \o
  FlattenSeq([n \in DOMAIN BlockSeq |-> PtsBlock(buffer, BlockSeq[n])])

(* Reading.  A number past the end of a stream reads as zero.              *)
At(stream, i) == IF i \in DOMAIN stream THEN stream[i] ELSE 0
HeightOf(word) == Signed(word - (word % 16)) \div 2
ReadCell(word, place, type) ==
  CellAt(place, type, [z |-> HeightOf(word), open |-> OpenOf(word % 16)])

(* One column of a multilayer block: a count, then its cells.              *)
ReadColumn(stream, reading, place) ==
  LET count == At(stream, reading.at)
  IN [at |-> reading.at + 1 + count,
      cells |-> reading.cells \o
        [i \in 1 .. count |->
           ReadCell(At(stream, reading.at + i), place, MultilayerType)]]
ReadMultilayer(stream, reading, block) ==
  Through(LAMBDA r, place : ReadColumn(stream, r, place), reading, CellSeq(block))

ReadComplex(stream, reading, block) ==
  [at |-> reading.at + BlockArea,
   cells |-> reading.cells \o
     [n \in 1 .. BlockArea |->
        ReadCell(At(stream, reading.at + n - 1), CellSeq(block)[n], ComplexType)]]

(* A simple block reads as one cell, open every way.                       *)
ReadSimple(stream, reading, block, width) ==
  [at |-> reading.at + width,
   cells |-> Append(reading.cells,
     CellAt(Origin(block), SimpleType,
            [z |-> Signed(At(stream, reading.at)), open |-> Compass]))]

(* L2JSerializer::deserialize.                                             *)
ReadL2JBlock(stream, reading, block) ==
  LET type == At(stream, reading.at)
      body == [reading EXCEPT !.at = @ + 1]
  IN CASE type = SimpleType -> ReadSimple(stream, body, block, 1)
       [] type = ComplexType -> ReadComplex(stream, body, block)
       [] OTHER -> ReadMultilayer(stream, body, block)
ReadL2J(stream) ==
  Through(LAMBDA r, block : ReadL2JBlock(stream, r, block),
          [at |-> 1, cells |-> << >>], BlockSeq).cells

(* The client's reader of a PTS stream, which is not in the repository: a  *)
(* block is flat, has one word for each column, or gives each column's     *)
(* count.                                                                  *)
ReadPtsBlock(stream, reading, block) ==
  LET type == At(stream, reading.at)
      body == [reading EXCEPT !.at = @ + 1]
  IN CASE type = 0 -> ReadSimple(stream, body, block, 2)
       [] type = BlockArea -> ReadComplex(stream, body, block)
       [] OTHER -> ReadMultilayer(stream, body, block)
ReadPts(stream) ==
  Through(LAMBDA r, block : ReadPtsBlock(stream, r, block),
          [at |-> 4, cells |-> << >>], BlockSeq).cells
=============================================================================
