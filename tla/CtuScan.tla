------------------------------- MODULE CtuScan -------------------------------
(***************************************************************************)
(* The coding tree units (CTUs) of a picture: its tiles, the order in      *)
(* which CTUs are coded (TComPicSym) and the substream that holds each of  *)
(* them (TComPic).  An address is in raster scan (rs) or in tile scan      *)
(* (ts), the order of coding.                                              *)
(*                                                                         *)
(* A picture p is a record of its width and height in CTUs and of the      *)
(* right ends of the tile columns and the bottom ends of the tile rows.    *)
(***************************************************************************)
EXTENDS Integers, Sequences

(* tile_uniform_spacing: the ends of n columns or rows. *)
UniformEnds(total, n) == [i \in 1..n |-> (i * total) \div n]

(* xInitTiles() asserts that no tile is narrower or lower than a CTU.       *)
AreEnds(ends, total) ==
  /\ ends \in Seq(1..total) /\ Len(ends) > 0 /\ ends[Len(ends)] = total
  /\ \A i, j \in DOMAIN ends : i < j => ends[i] < ends[j]

NumCtus(p) == p.width * p.height
NumTileColumns(p) == Len(p.columnEnds)
NumTiles(p) == Len(p.columnEnds) * Len(p.rowEnds)

Begin(ends, i) == IF i = 1 THEN 0 ELSE ends[i - 1]

(* The tile with index t, and the address of its first CTU. *)
Tile(p, t) ==
  LET column == (t % NumTileColumns(p)) + 1
      row    == (t \div NumTileColumns(p)) + 1
  IN [x |-> Begin(p.columnEnds, column), y |-> Begin(p.rowEnds, row),
      width  |-> p.columnEnds[column] - Begin(p.columnEnds, column),
      height |-> p.rowEnds[row] - Begin(p.rowEnds, row)]

FirstCtuRsAddr(p, t) == Tile(p, t).y * p.width + Tile(p, t).x

TileIdxMap(p, rs) ==
  LET Holding(ends, pos) ==
        CHOOSE i \in DOMAIN ends : pos < ends[i] /\ \A j \in 1..i - 1 : ends[j] <= pos
  IN (Holding(p.rowEnds, rs \div p.width) - 1) * NumTileColumns(p)
       + Holding(p.columnEnds, rs % p.width) - 1

(* xCalculateNextCtuRSAddr() *)
NextCtuRsAddr(p, rs) ==
  LET t         == TileIdxMap(p, rs)
      tile      == Tile(p, t)
      inLastColumn == rs % p.width = tile.x + tile.width - 1
      inLastRow    == rs \div p.width = tile.y + tile.height - 1
  IN IF ~inLastColumn THEN rs + 1
     ELSE IF ~inLastRow THEN rs + p.width - tile.width + 1
     ELSE IF t + 1 = NumTiles(p) THEN NumCtus(p)
     ELSE FirstCtuRsAddr(p, t + 1)

CtuTsToRsAddrMap(p) ==
  LET map[ts \in 0..NumCtus(p)] == IF ts = 0 THEN 0 ELSE NextCtuRsAddr(p, map[ts - 1])
  IN map

(* getSubstreamForCtuAddr(): one substream for each row of a tile with     *)
(* wavefronts, for each tile otherwise.                                    *)
SubstreamForCtuAddr(p, wavefronts, rs) ==
  LET t    == TileIdxMap(p, rs)
      tile == Tile(p, t)
      startingSubstreamForTile ==
        tile.y * NumTileColumns(p) + tile.height * (t % NumTileColumns(p))
  IN IF ~(wavefronts /\ p.height > 1) /\ NumTiles(p) = 1 THEN 0
     ELSE IF wavefronts THEN startingSubstreamForTile + (rs \div p.width) - tile.y
     ELSE t
=============================================================================
