------------------------------- MODULE Headers -------------------------------
(***************************************************************************)
(* The headers an instance of Params writes and what the parser makes of   *)
(* them: PBU, frame and tile headers of src/oapv_vlc.c, behind the checks  *)
(* enc_frm_prepare (src/oapv.c) makes of the image and before those the    *)
(* parser makes of the stream.                                             *)
(*                                                                         *)
(* A header is a sequence of fields: n values of w bits each, of which v   *)
(* is the first or stands for all.  A field keeps the low bits of what is  *)
(* put into it.  n is 1 except for the matrix of a component and for the   *)
(* list of tile sizes.                                                     *)
(***************************************************************************)
EXTENDS Params

CONSTANTS Formats, \* colour format and depth of the images offered: [cs, depth]
          Groups   \* the group ids a caller passes, 0 to OAPV_MAX_GROUP_ID

Run(v, w, n) == [v |-> IF w > 30 THEN v ELSE v % 2^w, w |-> w, n |-> n]
F(v, w)      == Run(v, w, 1)

\* The parser reads the fields it expects; they are named by their widths.
Layout(s) == [k \in DOMAIN s |-> <<s[k].w, s[k].n>>]
One(ws)   == [k \in DOMAIN ws |-> <<ws[k], 1>>]

Malformed == [malformed |-> TRUE]

----------------------------------------------------------------------------
(* Which images an instance codes                                          *)

\* color_format_to_chroma_format_idc and get_num_comp
Cfi(cs) == CASE cs = "400" -> 0 [] cs = "420" -> 1 [] cs \in {"422", "P2"} -> 2
             [] cs = "444" -> 3 [] cs = "4444" -> 4
NumComp(cfi) == IF cfi = 0 THEN 1 ELSE IF cfi = 4 THEN 4 ELSE 3

\* enc_profile_spec: chroma formats and depths of each profile.
Chroma(profile) ==
  CASE profile \in {33, 43, 44, 54} -> {2}   [] profile \in {55, 65, 66, 76} -> 2..3
    [] profile \in {77, 87, 88, 98} -> 2..4  [] profile \in {99, 109} -> {0}
    [] profile = 140 -> {3}                  [] profile = 144 -> 3..4
Depths(profile) ==
  CASE profile \in {44, 54, 66, 76, 88, 98} -> 10..12
    [] profile \in {140, 144} -> {16}
    [] OTHER -> {10}

MaxQuant(depth) == 63 + 6 * (depth - 10)

\* The depth the samples are coded with.
Companded(p, f)  == p.profile \in {140, 144} /\ f.depth = 16
CodedDepth(p, f) == IF Companded(p, f) THEN 12 ELSE f.depth

QpFits(p, f) == p.qp \in 0..MaxQuant(CodedDepth(p, f)) \cup {AUTO_QP}

\* enc_frm_prepare, for an image of the size of the picture whose planes and
\* buffers are large enough.
Prepared(p, f) ==
  /\ ~(f.cs = "422" /\ p.w % 2 = 1)
  /\ Cfi(f.cs) \in Chroma(p.profile) /\ f.depth \in Depths(p.profile)
  /\ QpFits(p, f)

----------------------------------------------------------------------------
(* Writing                                                                 *)

\* oapve_set_frame_header, with the colour description of which Params has
\* the primaries; sizes tells whether the tile sizes go into the header.
FrameHeader(p, f, sizes) ==
  [profile |-> p.profile, level |-> p.level, band |-> p.band, w |-> p.w, h |-> p.h,
   cfi |-> Cfi(f.cs), depth |-> CodedDepth(p, f), companding |-> Companded(p, f),
   colour |-> p.colour, matrix |-> p.matrix, tw |-> p.tw \div MB, th |-> p.th \div MB,
   sizes |-> sizes]

Bit(b) == IF b THEN 1 ELSE 0

\* oapve_vlc_frame_info; nobody sets capture_time_distance.
WrittenInfo(h) ==
  << F(h.profile, 8), F(h.level, 8), F(h.band, 3), F(0, 5), F(h.w, 24), F(h.h, 24),
     F(h.cfi, 4), F(h.depth - 8, 4), F(0, 8), F(Bit(h.companding), 1), F(0, 7) >>

\* enc_vlc_quantization_matrix, 1 standing for each element of the matrices,
\* and enc_vlc_tile_info for a frame of n tiles.
Matrices(h) == [c \in 1..NumComp(h.cfi) |-> Run(1, 8, 64)]
TileInfo(h, n) == << F(h.tw, 20), F(h.th, 20), F(Bit(h.sizes), 1) >>
                    \o (IF h.sizes THEN << Run(1, 32, n) >> ELSE << >>)

\* oapve_vlc_frame_header; described tells whether the colour is.
WrittenFrame(h, described, n) ==
  WrittenInfo(h) \o << F(0, 8), F(Bit(described), 1) >>
    \o (IF described THEN << F(h.colour, 8), F(2, 8), F(2, 8), F(0, 1) >> ELSE << >>)
    \o << F(Bit(h.matrix), 1) >> \o (IF h.matrix THEN Matrices(h) ELSE << >>)
    \o TileInfo(h, n) \o << F(0, 8) >>

TileQpUnclipped(p, f, qp) == qp

\* oapve_set_tile_header with the QP of the first component; the QP of a
\* component stays in range whatever its offset.
TileQp(p, f, qp) == Max({0, Min({MaxQuant(CodedDepth(p, f)), qp})})

\* oapve_vlc_tile_header, written once more by enc_tile when the sizes of the
\* components' data are known: here `size' bytes each.
WrittenTile(p, f, index, qp, size) ==
  LET nc == NumComp(Cfi(f.cs))
  IN  << F(5 + 5 * nc, 16), F(index, 16) >> \o [c \in 1..nc |-> F(size, 32)]
        \o [c \in 1..nc |-> F(TileQp(p, f, qp + IF c = 2 THEN p.offset ELSE 0), 8)]
        \o << F(0, 8) >>

\* What enc_tile hands on as the size of the tile.
TileSize(f, size) == 5 + (5 + size) * NumComp(Cfi(f.cs))

\* oapve_vlc_pbu_header
WrittenPbu(type, group) == << F(type, 8), F(group, 16), F(0, 8) >>

----------------------------------------------------------------------------
(* Reading                                                                 *)

\* oapvd_vlc_pbu_header
ReadPbu(s) ==
  IF /\ Layout(s) = One(<<8, 16, 8>>)
     /\ s[1].v \in {1, 2} \cup 25..27 \cup 65..67
     /\ s[2].v <= 65534 /\ s[3].v = 0
  THEN [type |-> s[1].v, group |-> s[2].v] ELSE Malformed

\* oapvd_vlc_frame_info
InfoWidths == <<8, 8, 3, 5, 24, 24, 4, 4, 8, 1, 7>>
InfoReads(s) ==
  /\ Layout(SubSeq(s, 1, 11)) = One(InfoWidths)
  /\ \A k \in {4, 11} : s[k].v = 0                      \* reserved
  /\ s[5].v > 0 /\ s[6].v > 0
  /\ s[7].v \in {0, 2, 3, 4} /\ s[8].v \in 2..8
  /\ s[1].v \notin {140, 144} => s[10].v = 0
  /\ s[7].v = 2 => s[5].v % 2 = 0

\* oapv_validate_tile_topology
Topology(profile, cols, rows) ==
  /\ cols >= 1 /\ rows >= 1
  /\ ~Unconstrained(profile) => cols <= MAX_TILES /\ rows <= MAX_TILES
  /\ Unconstrained(profile) => cols <= 2147483647 \div rows      \* INT_MAX

\* dec_vlc_q_matrix: m matrices are read from the field at k on.
MatricesRead(s, k, m) == \A c \in k..k + m - 1 : s[c].v > 0

\* dec_vlc_tile_info, the fields of which begin at k: columns and rows.
Tiling(s, k) == << RoundUp(Aligned(s[5].v), s[k].v * MB),
                   RoundUp(Aligned(s[6].v), s[k + 1].v * MB) >>

TileInfoReads(s, k) ==
  /\ s[k].v > 0 /\ s[k + 1].v > 0
  /\ Topology(s[1].v, Tiling(s, k)[1], Tiling(s, k)[2])
  /\ s[k + 2].v = 1 => s[k + 3].v > 0

\* oapvd_vlc_frame_header.  Which fields are there depends on the flags read
\* before them: d fields describe the colour, m are matrices, t is where the
\* tiles begin.
ReadFrame(s) ==
  LET d == IF s[13].v = 1 THEN 4 ELSE 0
      m == IF s[14 + d].v = 1 THEN NumComp(s[7].v) ELSE 0
      t == 15 + d + m
  IN  IF /\ InfoReads(s) /\ TileInfoReads(s, t) /\ MatricesRead(s, 15 + d, m)
         /\ Layout(SubSeq(s, 12, Len(s))) =
              One(<<8, 1>> \o (IF d = 4 THEN <<8, 8, 8, 1>> ELSE << >>) \o <<1>>)
                \o [c \in 1..m |-> <<8, 64>>] \o One(<<20, 20, 1>>)
                \o [k \in 1..s[t + 2].v |-> <<32, Tiling(s, t)[1] * Tiling(s, t)[2]>>] \o One(<<8>>)
         /\ s[12].v = 0 /\ s[Len(s)].v = 0                  \* reserved
      THEN [profile |-> s[1].v, level |-> s[2].v, band |-> s[3].v, w |-> s[5].v, h |-> s[6].v,
            cfi |-> s[7].v, depth |-> s[8].v + 8, companding |-> s[10].v = 1,
            colour |-> IF d = 4 THEN s[14].v ELSE 2, matrix |-> m > 0,
            tw |-> s[t].v, th |-> s[t + 1].v, sizes |-> s[t + 2].v = 1]
      ELSE Malformed

\* oapvd_vlc_tile_header of a tile of `size' bytes in a frame of nc components
\* coded with `depth' bits; oapv_validate_payload_bounds sums up the parts.
TileReads(s, nc, size, depth) ==
  /\ Layout(s) = One(<<16, 16>> \o [c \in 1..nc |-> 32] \o [c \in 1..nc |-> 8] \o <<8>>)
  /\ s[1].v = 5 + 5 * nc /\ s[Len(s)].v = 0
  /\ s[1].v + FoldSet(LAMBDA c, x : x + s[2 + c].v, 0, 1..nc) <= size
  /\ \A c \in 1..nc : s[2 + nc + c].v \in 0..MaxQuant(depth)

----------------------------------------------------------------------------
(* Properties                                                              *)

\* The QP of a tile under rate control is within the range of the depth.
TileQps(p, f) == IF p.rc = "CQP" THEN {p.qp} ELSE {0, MaxQuant(CodedDepth(p, f))}

\* The parser takes neither an odd width in 4:2:2 nor a tile of 2^20
\* macroblocks, which the fields of 20 bits cannot hold; the encoder takes
\* the first as an interleaved image and the second in the widest pictures.
Readable(p, f) == /\ Cfi(f.cs) = 2 => p.w % 2 = 0
                  /\ p.tw \div MB < 2^20 /\ p.th \div MB < 2^20

\* The kinds of frames, and metadata.
PbusReadBack ==
  \A type \in {1, 2, 25, 26, 27, 66}, group \in Groups :
    ReadPbu(WrittenPbu(type, group)) = [type |-> type, group |-> group]

\* Whatever options an instance was made from and however it was configured,
\* an image it accepts is coded under headers that the parser accepts and
\* reads as they were meant: format, depth and companding, tile grid and
\* limits, flags and what depends on them, a QP in the range of the depth for
\* each component.  The checks of the two sides are written apart from one
\* another, and every field that one of them skips shifts all that follow.
HeadersReadBack ==
  enc # NoEncoder =>
    /\ PbusReadBack
    /\ \A f \in {g \in Formats : Prepared(enc, g) /\ Readable(enc, g)} :
         /\ \A sizes \in BOOLEAN :
              LET h == FrameHeader(enc, f, sizes)
              IN  ReadFrame(WrittenFrame(h, enc.described, NumTiles(enc))) = h
         /\ \A qp \in TileQps(enc, f), size \in {1, 40000} :
              TileReads(WrittenTile(enc, f, NumTiles(enc) - 1, qp, size), NumComp(Cfi(f.cs)),
                        TileSize(f, size), CodedDepth(enc, f))

\* "a width that does not match the image or an odd width for 4:2:2": an image
\* of an odd width in 4:2:2 is refused.
OddWidthRefused ==
  enc # NoEncoder /\ enc.w % 2 = 1 =>
    \A f \in Formats : Cfi(f.cs) = 2 => ~Prepared(enc, f)
=============================================================================
