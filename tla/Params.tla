------------------------------- MODULE Params -------------------------------
(***************************************************************************)
(* The coding parameters of the encoder: src/oapv_param.c with the part of *)
(* oapve_create and oapve_config (src/oapv.c) that reads and writes them.  *)
(* An application fills one record, by name and value string or member by  *)
(* member; oapve_create copies it, settles what was left to it (tile size, *)
(* rate control, level, band, bitrate, threads) and refuses what the       *)
(* tables do not admit; afterwards oapve_config changes single members of  *)
(* the copy.                                                               *)
(*                                                                         *)
(* A value string is a record of what the conversions of the C library     *)
(* make of it: `kind' tells which of them accept it to its end.  Sizes are *)
(* in samples, sample rates in macroblocks (256 samples), so that they fit *)
(* 32 bits; the tables are those of the source.                            *)
(***************************************************************************)
EXTENDS Integers, Sequences, FiniteSetsExt, TLC

CONSTANTS Values,    \* the value strings given to each option: name -> set
          Pictures,  \* sizes and frame rates an application starts from
          Edits,     \* the values given to oapve_config: id -> set
          Cores,     \* oapv_get_num_cpu_cores
          Threads,   \* cdesc->threads; 0 is OAPV_CDESC_THREADS_AUTO
          MaxParses, \* bound: options set by name
          NoEncoder  \* there is no instance

VARIABLES param,     \* the application's oapve_param_t
          enc,       \* ctx->cdesc.param[0] of the instance, or NoEncoder
          grid,      \* ctx->w, ctx->h and ctx->threads
          ret,       \* what the last call returned
          parses,    \* number of options set
          edited,    \* history: has oapve_config changed the instance?
          family     \* history: the bitrate is that of a family, and still is

vars == <<param, enc, grid, ret, parses, edited, family>>

MB == 16
AUTO_LEVEL == 0   \* OAPVE_PARAM_LEVEL_IDC_AUTO
AUTO_BAND == 4    \* OAPVE_PARAM_BAND_IDC_AUTO
AUTO_QP == 255    \* OAPVE_PARAM_QP_AUTO
MAX_TILES == 20   \* OAPV_MAX_TILE_COLS and OAPV_MAX_TILE_ROWS
IntMax == 2147483647
MaxSide == 16384  \* bound: pictures whose family bitrate is asked for

\* oapve_param_default; the picture is not part of it.
Default ==
  [profile |-> 33, level |-> AUTO_LEVEL, band |-> AUTO_BAND, w |-> 0, h |-> 0,
   num |-> 0, den |-> 0, rc |-> "CQP", qp |-> AUTO_QP, offset |-> 0, bitrate |-> 0,
   matrix |-> FALSE, tw |-> 16 * MB, th |-> 16 * MB, preset |-> 2,
   colour |-> 2, described |-> FALSE]

----------------------------------------------------------------------------
(* One option by name: oapve_param_parse                                   *)

\* The profiles of oapv_param_opts_profile.
Profiles == "422-10" :> 33 @@ "422-12" :> 44 @@ "444-10" :> 55 @@ "444-12" :> 66 @@
            "4444-10" :> 77 @@ "4444-12" :> 88 @@ "400-10" :> 99 @@
            "444-16C12" :> 140 @@ "4444-16C12" :> 144 @@
            "422-10-UNCONST" :> 43 @@ "422-12-UNCONST" :> 54 @@ "444-10-UNCONST" :> 65 @@
            "444-12-UNCONST" :> 76 @@ "4444-10-UNCONST" :> 87 @@
            "4444-12-UNCONST" :> 98 @@ "400-10-UNCONST" :> 109
Presets == [fastest |-> 0, fast |-> 1, medium |-> 2, slow |-> 3, placebo |-> 4]
Colours == [bt709 |-> 1, bt2020 |-> 9]

\* What an oapve_param_t can hold, as far as it matters here.
Parameters ==
  [profile : {33} \cup {Profiles[x] : x \in DOMAIN Profiles}, level : Int, band : Int,
   w : Int, h : Int, num : Int, den : Int, rc : {"CQP", "ABR"}, qp : Int, offset : Int,
   bitrate : Int, matrix : BOOLEAN, tw : Int, th : Int, preset : Int, colour : Int,
   described : BOOLEAN]

\* The conversions of the C library make integers of integers; oapve_config
\* knows the members it may change.
ParamsAssumption ==
  /\ Cores \in Nat \ {0} /\ Threads \subseteq Int
  /\ \A pic \in Pictures : {pic.w, pic.h, pic.num, pic.den} \subseteq Int
  /\ \A name \in DOMAIN Values : \A v \in Values[name] :
       v.kind \in {"int", "real", "frac", "rate"} => v.a \in Int /\ v.b \in Int
  /\ DOMAIN Edits \subseteq {"qp", "fps_num", "fps_den", "bps"}
  /\ \A id \in DOMAIN Edits : Edits[id] \subseteq Int
  /\ NoEncoder \notin Parameters

\* OAPV_PROFILE_IS_UNCONST
Unconstrained(profile) == profile \in {43, 54, 65, 76, 87, 98, 109}

\* strtol and strtof of a whole string; Tenths is a real number times ten.
IsInt(v)  == v.kind = "int"
IsReal(v) == v.kind \in {"int", "real"}
Tenths(v) == IF v.kind = "int" THEN 10 * v.a ELSE v.a

\* kbps_str_to_int: a number with K, M or G behind it, or a plain integer.
Kbps(v) ==
  IF v.kind = "int" THEN v.a
  ELSE IF v.kind = "rate" /\ v.a >= 0 /\ v.a <= IntMax \div v.b THEN v.a * v.b
  ELSE -1

\* get_q_matrix: at least 64 numbers from 1 to 255 (b tells the worst one).
IsMatrix(v) == v.kind = "list" /\ v.a >= 64 /\ v.b \in 1..255

\* fps as a fraction, in ten-thousandths, or whole.
Rate(v) == IF v.kind = "frac" THEN <<v.a, v.b>>
           ELSE IF v.kind = "real" THEN <<1000 * v.a, 10000>> ELSE <<v.a, 1>>

TileSide(v) == IsInt(v) /\ v.a >= MB /\ v.a % MB = 0

Accepted(name, v) ==
  CASE name = "profile" -> v.kind = "word" /\ v.a \in DOMAIN Profiles
    [] name = "level" -> \/ v.kind = "auto"
                         \/ IsReal(v) /\ \E k \in 1..7 : Tenths(v) \in {10 * k, 10 * k + 1}
    [] name = "band" -> v.kind = "auto" \/ (IsInt(v) /\ v.a \in 0..3)
    [] name = "preset" -> v.kind = "word" /\ v.a \in DOMAIN Presets
    [] name \in {"width", "height"} -> IsInt(v) /\ v.a > 0
    [] name = "fps" -> \/ v.kind = "frac" /\ v.a > 0 /\ v.b > 0
                       \/ v.kind = "real" /\ v.a > 0 /\ v.a <= IntMax \div 1000
                       \/ IsInt(v) /\ v.a > 0
    [] name = "qp" -> v.kind = "auto" \/ (IsInt(v) /\ v.a \in 0..75)
    [] name = "qp-offset" -> IsInt(v)
    [] name = "bitrate" -> Kbps(v) > 0
    [] name = "q-matrix" -> IsMatrix(v)
    [] name \in {"tile-w", "tile-h"} -> TileSide(v)
    [] name = "color" -> v.kind = "word" /\ v.a \in DOMAIN Colours
    [] OTHER -> FALSE

\* qp and bitrate decide the rate control as well: the last one wins.
Assigned(p, name, v) ==
  CASE name = "profile" -> [p EXCEPT !.profile = Profiles[v.a]]
    [] name = "level" -> [p EXCEPT !.level = IF v.kind = "auto" THEN AUTO_LEVEL ELSE 3 * Tenths(v)]
    [] name = "band" -> [p EXCEPT !.band = IF v.kind = "auto" THEN AUTO_BAND ELSE v.a]
    [] name = "preset" -> [p EXCEPT !.preset = Presets[v.a]]
    [] name = "width" -> [p EXCEPT !.w = v.a]
    [] name = "height" -> [p EXCEPT !.h = v.a]
    [] name = "fps" -> [p EXCEPT !.num = Rate(v)[1], !.den = Rate(v)[2]]
    [] name = "qp" -> IF v.kind = "auto" THEN [p EXCEPT !.qp = AUTO_QP, !.rc = "ABR"]
                      ELSE [p EXCEPT !.qp = v.a, !.rc = "CQP"]
    [] name = "qp-offset" -> [p EXCEPT !.offset = v.a]
    [] name = "bitrate" -> [p EXCEPT !.bitrate = Kbps(v), !.rc = "ABR"]
    [] name = "q-matrix" -> [p EXCEPT !.matrix = TRUE]
    [] name = "tile-w" -> [p EXCEPT !.tw = v.a]
    [] name = "tile-h" -> [p EXCEPT !.th = v.a]
    [] name = "color" -> [p EXCEPT !.colour = Colours[v.a], !.described = TRUE]

\* A value that is refused leaves the record alone, except a bitrate, which
\* is assigned before it is looked at.
Refused(p, name, v) ==
  IF name = "bitrate" /\ v.kind # "empty" THEN [p EXCEPT !.bitrate = Kbps(v)] ELSE p

----------------------------------------------------------------------------
(* The tables of levels and bands                                          *)

Level == 1..14
Band  == 0..3

\* OAPV_LEVEL_TO_LEVEL_IDC of the levels 1, 1.1, 2, ... 7.1.
Idc(i) == 30 * (1 + (i - 1) \div 2) + 3 * ((i - 1) % 2)

\* max_coded_data_rate in kbit/s, max_luma_sample_rate in macroblocks/s.
MaxCoded == <<
  <<     8000,    11000,     15000,     23000>>, <<    16000,    21000,     30000,     45000>>,
  <<    39000,    54000,     76000,    114000>>, <<    78000,   108000,    152000,    227000>>,
  <<   114000,   159000,    222000,    333000>>, <<   227000,   317000,    444000,    666000>>,
  <<   455000,   637000,    892000,   1338000>>, <<   910000,  1274000,   1784000,   2675000>>,
  <<  1820000,  2548000,   3567000,   5350000>>, <<  3639000,  5095000,   7133000,  10699000>>,
  <<  7278000, 10189000,  14265000,  21397000>>, << 14556000, 20378000,  28529000,  42793000>>,
  << 29111000, 40756000,  57058000,  85586000>>, << 58222000, 81511000, 114115000, 171172000>> >>
MaxLuma == << 11880, 23760, 61200, 122400, 261120, 522240, 1036800, 2073600, 4147200, 8294400,
              18662400, 33177600, 66355200, 132710400 >>

CodedRate(i, b) == MaxCoded[i][b + 1]

\* What a step returns, with the parameters as it leaves them; the steps run
\* up to the first that fails.
Fine(p) == [p |-> p, ret |-> "OK"]
Err(p, e) == [p |-> p, ret |-> e]
Then(r, Step(_)) == IF r.ret = "OK" THEN Step(r.p) ELSE r

\* The frame rate; a decimal one is kept in ten-thousandths.
Fps(p) == IF p.den = 10000 THEN <<p.num \div 1000, 10>> ELSE <<p.num, p.den>>

RoundUp(a, b) == (a + b - 1) \div b
Aligned(a)    == RoundUp(a, MB) * MB

\* luma_sample_rate <= max_luma_sample_rate[i], the rate rounded down to a
\* whole sample; an unset frame rate counts as 0.
LumaFits(p, i) ==
  p.den > 0 =>
    LET x   == RoundUp(p.w, MB) * RoundUp(p.h, MB) * Fps(p)[1]
        den == Fps(p)[2]
    IN  x \div den < MaxLuma[i] \/ (x \div den = MaxLuma[i] /\ 256 * (x % den) < den)

\* Where the loops over the levels begin: at the first that admits the
\* picture, or where min_level_idx was initialised when none does.
FirstLevel(p) ==
  IF \E i \in Level : LumaFits(p, i) THEN Min({i \in Level : LumaFits(p, i)}) ELSE 1

----------------------------------------------------------------------------
(* oapve_param_update, on the copy in the instance                         *)

Bands(p) == IF p.band = AUTO_BAND THEN Band ELSE {p.band}

Admits(p, i, b) == p.bitrate <= CodedRate(i, b)

\* enc_update_param_level_band from level first on: the level and the band the
\* search ends with, << >> when the automatic choice finds none.
SearchedBandFirst(p, first) ==
  LET b0 == Min({b \in Bands(p) : \E i \in first..14 : Admits(p, i, b)} \cup {AUTO_BAND})
  IN  IF p.bitrate <= 0 THEN <<first, IF p.band = AUTO_BAND THEN 2 ELSE p.band>>
      ELSE IF b0 \in Band THEN <<Min({i \in first..14 : Admits(p, i, b0)}), b0>>
      ELSE IF p.band = AUTO_BAND THEN << >> ELSE <<first, p.band>>
SearchedAtFirst(p, first) ==
  LET bands == {b \in Bands(p) : Admits(p, first, b)}
  IN  IF p.bitrate <= 0 THEN <<first, IF p.band = AUTO_BAND THEN 2 ELSE p.band>>
      ELSE IF bands # {} THEN <<first, Min(bands)>>
      ELSE IF p.band = AUTO_BAND THEN << >> ELSE <<first, p.band>>
Searched(p, first) ==
  LET levels == {i \in first..14 : \E b \in Bands(p) : Admits(p, i, b)}
  IN  IF p.bitrate <= 0 THEN <<first, IF p.band = AUTO_BAND THEN 2 ELSE p.band>>
      ELSE IF levels # {}
      THEN <<Min(levels), Min({b \in Bands(p) : Admits(p, Min(levels), b)})>>
      ELSE IF p.band = AUTO_BAND THEN << >> ELSE <<first, p.band>>

Chosen(p, s) ==
  IF s = << >> \/ (p.level # AUTO_LEVEL /\ p.level < Idc(s[1])) THEN Err(p, "INVALID_LEVEL")
  ELSE Fine([p EXCEPT !.band = s[2], !.level = IF @ = AUTO_LEVEL THEN Idc(s[1]) ELSE @])

LevelBand(p) ==
  IF (p.rc # "CQP" \/ p.level = AUTO_LEVEL) /\ ~(p.num > 0 /\ p.den > 0) THEN Err(p, "INVALID_FPS")
  ELSE IF p.band \notin Band \cup {AUTO_BAND} THEN Err(p, "INVALID_BAND")
  ELSE Chosen(p, Searched(p, FirstLevel(p)))

\* enc_update_param_bitrate: rate control without a target gets the maximum.
Bitrate(p) ==
  IF ~\E i \in Level : Idc(i) = p.level THEN Err(p, "INVALID_LEVEL")
  ELSE LET most == CodedRate(CHOOSE i \in Level : Idc(i) = p.level, p.band)
       IN  IF p.bitrate = 0 /\ p.rc = "ABR" THEN Fine([p EXCEPT !.bitrate = most])
           ELSE IF p.bitrate > most THEN Err(p, "INVALID_LEVEL") ELSE Fine(p)

\* enc_update_param_tile, one direction: the side t of a tile in a picture of
\* n samples, at least `least' in the profiles that have limits.
FewerLoose(n, t) == IF RoundUp(n, t) > MAX_TILES THEN RoundUp(n, MAX_TILES) ELSE t
Fewer(n, t) == IF RoundUp(n, t) > MAX_TILES THEN Aligned(RoundUp(n, MAX_TILES)) ELSE t
Side(n, t, least, free) ==
  LET clamped == Min({t, Aligned(n)})
  IN  IF free THEN clamped ELSE Fewer(Aligned(n), Max({clamped, least}))

SizeOk(n) == n > 0 /\ n < 16777216

Tiles(p) ==
  LET free == Unconstrained(p.profile)
  IN  IF ~SizeOk(p.w) THEN Err(p, "INVALID_WIDTH")
      ELSE IF ~SizeOk(p.h) THEN Err(p, "INVALID_HEIGHT")
      ELSE IF ~(p.tw % MB = 0 /\ p.th % MB = 0 /\ p.tw >= MB /\ p.th >= MB) THEN Err(p, "INVALID_ARGUMENT")
      ELSE IF ~free /\ ~(p.tw >= 256 /\ p.th >= 128) THEN Err(p, "INVALID_ARGUMENT")
      ELSE Fine([p EXCEPT !.tw = Side(p.w, @, 256, free), !.th = Side(p.h, @, 128, free)])

NumTiles(p) == RoundUp(Aligned(p.w), p.tw) * RoundUp(Aligned(p.h), p.th)

\* "the encoder chooses the QP only under rate control"
Controlled(p) == IF p.rc = "CQP" /\ p.qp = AUTO_QP THEN [p EXCEPT !.rc = "ABR"] ELSE p

UpdatedLate(p) == LET r == Then(Then(Tiles(p), LevelBand), Bitrate)
                  IN  [r EXCEPT !.p = Controlled(r.p)]
Updated(p) == Then(Then(Then(Tiles(p), LAMBDA q : Fine(Controlled(q))), LevelBand),
                   Bitrate)

NumThreads(t, p) == IF t = 0 THEN Min({32, Cores, NumTiles(p)}) ELSE t

----------------------------------------------------------------------------
(* oapve_family_bitrate                                                    *)

\* A x B / C rounded down, for factors whose product exceeds 32 bits.
MulDiv(a, b, c) == (a \div c) * b + ((a % c) * b) \div c

\* family_info: macroblocks (of 256 samples) and Mbit/s at 30 frames a second.
Family == << <<0, 38>>, <<2025, 72>>, <<3600, 98>>, <<8100, 198>>, <<8640, 211>>, <<32400, 796>> >>

\* get_key_bitrate for m macroblocks, in kbit/s.
Key(m) ==
  IF \E k \in 1..6 : m < Family[k][1]
  THEN LET hi == Family[Min({k \in 1..6 : m < Family[k][1]})]
           lo == Family[Min({k \in 1..6 : m < Family[k][1]}) - 1]
       IN  1000 * lo[2] + MulDiv((hi[2] - lo[2]) * (m - lo[1]), 1000, hi[1] - lo[1])
  ELSE MulDiv(m, 1990, 81)   \* 796000 / 32400

\* 1/1.4^2, 1/1.4, 1 and 1.5
Ratio == [f \in {"422-LQ", "422-SQ", "422-HQ", "444-UQ"} |->
            CASE f = "422-LQ" -> <<25, 49>> [] f = "422-SQ" -> <<5, 7>>
              [] f = "422-HQ" -> <<1, 1>> [] f = "444-UQ" -> <<3, 2>>]

FamilyKbps(f, p) ==
  MulDiv(MulDiv(Key(MulDiv(p.w, p.h, 256)), Ratio[f][1], Ratio[f][2]), Fps(p)[1], 30 * Fps(p)[2])

----------------------------------------------------------------------------
(* The calls                                                               *)

Init ==
  /\ \E pic \in Pictures :
       param = [Default EXCEPT !.w = pic.w, !.h = pic.h, !.num = pic.num, !.den = pic.den]
  /\ enc = NoEncoder /\ grid = << >>
  /\ ret = "OK" /\ parses = 0 /\ edited = FALSE /\ family = FALSE

\* oapve_param_parse
Parse(name, v) ==
  /\ enc = NoEncoder /\ parses < MaxParses
  /\ param' = IF Accepted(name, v) THEN Assigned(param, name, v) ELSE Refused(param, name, v)
  /\ ret' = IF Accepted(name, v) THEN "OK" ELSE "INVALID"
  /\ parses' = parses + 1 /\ family' = FALSE
  /\ UNCHANGED <<enc, grid, edited>>

\* The application takes the bitrate of a family for the picture it has, as
\* the encoder application does for --family.
SetFamily(f) ==
  /\ enc = NoEncoder /\ param.w \in 1..MaxSide /\ param.h \in 1..MaxSide /\ param.num > 0 /\ param.den > 0
  /\ param' = Assigned(param, "bitrate", [kind |-> "int", a |-> FamilyKbps(f, param)])
  /\ family' = TRUE /\ ret' = "OK"
  /\ UNCHANGED <<enc, grid, parses, edited>>

\* oapve_create: the caller's record is copied first, and stays as it is for
\* as long as there is an instance.
Create(t) ==
  /\ enc = NoEncoder
  /\ LET r == Updated(param)
     IN  IF t \notin 0..32 THEN ret' = "INVALID_ARGUMENT" /\ UNCHANGED <<enc, grid>>
         ELSE IF r.ret # "OK" THEN ret' = r.ret /\ UNCHANGED <<enc, grid>>
         ELSE /\ enc' = r.p /\ ret' = "OK"
              /\ grid' = [w |-> Aligned(r.p.w), h |-> Aligned(r.p.h), threads |-> NumThreads(t, r.p)]
  /\ edited' = FALSE
  /\ UNCHANGED <<param, parses, family>>

\* enc_profile_max_qp: the coded bit depth is capped to 12.
MaxQp(profile) == IF profile \in {44, 66, 88, 140, 144, 54, 76, 98} THEN 75 ELSE 63

\* oapve_config: one member of the copy; nothing that oapve_create derived
\* from it is derived again.
Config(id, v) ==
  /\ enc # NoEncoder /\ ~edited
  /\ IF IF id = "qp" THEN v \in 0..MaxQp(enc.profile) ELSE v > 0
     THEN /\ enc' = CASE id = "qp" -> [enc EXCEPT !.qp = v]
                      [] id = "fps_num" -> [enc EXCEPT !.num = v]
                      [] id = "fps_den" -> [enc EXCEPT !.den = v]
                      [] id = "bps" -> [enc EXCEPT !.bitrate = v]
          /\ ret' = "OK" /\ edited' = TRUE
     ELSE ret' = "INVALID" /\ UNCHANGED <<enc, edited>>
  /\ UNCHANGED <<param, grid, parses, family>>

Delete == /\ enc # NoEncoder
          /\ enc' = NoEncoder /\ grid' = << >> /\ ret' = "OK" /\ edited' = FALSE
          /\ UNCHANGED <<param, parses, family>>

Next == \/ \E name \in DOMAIN Values : \E v \in Values[name] : Parse(name, v)
        \/ \E f \in DOMAIN Ratio : SetFamily(f)
        \/ \E t \in Threads : Create(t)
        \/ \E id \in DOMAIN Edits : \E v \in Edits[id] : Config(id, v)
        \/ Delete

Spec == Init /\ [][Next]_vars

----------------------------------------------------------------------------
(* Properties                                                              *)

\* What an instance has just been created with.
Fresh == enc # NoEncoder /\ ~edited

\* Can any level carry the picture?
Carried(p) == \E i \in Level : LumaFits(p, i)

\* Whatever tile size was asked for, and however wide or high the picture,
\* the tiles of an instance are whole macroblocks, and outside the
\* unconstrained profiles they are no smaller than the minimum and no more
\* than 20 in a row or a column: what the clamp, the minimum and the limit,
\* applied one after the other, must still satisfy together, and what the
\* tile arrays are sized for.
TileGrid ==
  enc # NoEncoder =>
    /\ enc.tw % MB = 0 /\ enc.th % MB = 0 /\ enc.tw > 0 /\ enc.th > 0
    /\ grid.threads \in 1..32
    /\ ~Unconstrained(enc.profile) =>
         /\ enc.tw >= 256 /\ enc.th >= 128
         /\ RoundUp(grid.w, enc.tw) <= MAX_TILES /\ RoundUp(grid.h, enc.th) <= MAX_TILES

\* An instance under rate control has a frame rate and a target its level and
\* band allow, whichever of qp, bitrate, level and band were left to it and in
\* whichever order they were set, and an instance with a fixed QP has one.  A
\* refused bitrate must not have been ignored: it stays in the record.
RateControlHasTarget ==
  Fresh /\ param.bitrate >= 0 =>
    /\ enc.band \in Band
    /\ \E i \in Level : /\ Idc(i) = enc.level
                        /\ enc.bitrate <= CodedRate(i, enc.band)
    /\ enc.rc = "ABR" => enc.bitrate > 0 /\ enc.num > 0 /\ enc.den > 0
    /\ enc.rc = "CQP" => enc.qp # AUTO_QP

\* Left to the encoder, the level is the lowest one that admits the picture
\* and, with some band that was not ruled out, the bitrate; the band is the
\* lowest one that does at that level; and only when there is none is an
\* automatic level refused.
Suffices(p, i, b) == LumaFits(p, i) /\ (p.bitrate > 0 => Admits(p, i, b))

LowestLevel ==
  enc # NoEncoder /\ ~edited /\ param.level = AUTO_LEVEL /\ Carried(param) =>
    \E i \in Level :
      /\ Idc(i) = enc.level /\ Suffices(param, i, enc.band)
      /\ \A j \in 1..(i - 1), b \in Bands(param) : ~Suffices(param, j, b)
      /\ param.bitrate > 0 => \A b \in Bands(param) : b < enc.band => ~Admits(param, i, b)

\* The bitrate of every APV family is one the encoder accepts for the picture
\* it was computed for: the table of families, interpolated and scaled by the
\* frame rate, stays below what the levels that carry the picture allow.
FamilyFits ==
  family /\ param.level = AUTO_LEVEL /\ param.band = AUTO_BAND /\ Carried(param) =>
    ret # "INVALID_LEVEL"

\* "including the levels and bands constraints of Section 9.4 (luma sample
\* rate and coded data rate)": an instance never carries a level that its
\* picture exceeds.
LevelAdmitsPicture ==
  Fresh => \E i \in Level : Idc(i) = enc.level /\ LumaFits(enc, i)
=============================================================================
