------------------------------ MODULE MCInputs ------------------------------
(***************************************************************************)
(* Inputs for TLC.                                                         *)
(*                                                                         *)
(* The pictures reach from one macroblock to one that no level carries,    *)
(* and cross the limits of the tile grid in both directions (5200 samples  *)
(* are 21 columns of 256) and of the header's fields (2^24 - 1 samples).   *)
(* The values of an option are one or two it takes, its special value and  *)
(* one it refuses.                                                         *)
(*                                                                         *)
(* A container holds two groups and three payloads: user defined ones with *)
(* two uuids, one of them with two contents, an empty one of an unknown    *)
(* type and a mastering display of a wrong size, in three groups and one   *)
(* that is out of range.                                                   *)
(***************************************************************************)
EXTENDS Inputs, TLC

Pic(w, h, n, d) == [w |-> w, h |-> h, num |-> n, den |-> d]
MCPictures ==
  { Pic(15, 16, 30, 1), Pic(1920, 1080, 30000, 1001), Pic(1920, 1080, 0, 0),
    Pic(3840, 2160, 60, 1), Pic(5200, 2580, 30, 1), Pic(64, 65520, 30, 1),
    Pic(16384, 16384, 120, 1), Pic(16384, 16384, 240, 1), Pic(16777215, 16, 1, 1),
    Pic(16777216, 16, 1, 1) }

Val(kind, a, b) == [kind |-> kind, a |-> a, b |-> b]
Auto  == Val("auto", 0, 0)
I(a)  == Val("int", a, 0)
Word(x) == Val("word", x, 0)

MCValues ==
  [ profile |-> {Word(x) : x \in {"422-10-UNCONST", "422-12", "4444-16C12", "none"}},
    level |-> {Auto, I(1), Val("real", 41, 0), Val("real", 42, 0)},
    band |-> {I(0), I(3), I(4)},
    width |-> {I(4096), I(0)},
    height |-> {I(128)},
    fps |-> {Val("real", 239, 0), Val("frac", 60, 0)},
    qp |-> {Auto, I(62), I(76)},
    bitrate |-> {I(150000), Val("rate", 40, 1000000), Val("rate", 3000, 1000000), I(-5)},
    preset |-> {Word("slow")} ] @@
  "tile-w" :> {I(16), I(264), I(16777216)} @@ "tile-h" :> {I(112), I(4096)} @@
  "q-matrix" :> {Val("list", 63, 1), Val("list", 64, 1)} @@ "qp-offset" :> {I(3)} @@
  "color" :> {Word("bt2020")} @@ "colour" :> {Val("empty", 0, 0)}

MCEdits == [qp |-> {0, 64, 76}, fps_num |-> {0, 240}, fps_den |-> {1}, bps |-> {0, 1000000}]

Img(cs, depth) == [cs |-> cs, depth |-> depth]
MCFormats == {Img("400", 10), Img("422", 10), Img("422", 12), Img("P2", 10), Img("444", 10),
            Img("444", 16), Img("4444", 16)}

Pld(type, size, uuid, tag) ==
  [type |-> type, size |-> size, uuid |-> uuid, lead |-> 255, pure |-> TRUE, tag |-> tag]

Short  == Pld("MDCV", 23, 0, 1)
User1  == Pld("USER", 254, 1, 1)
User1b == Pld("USER", 255, 1, 2)
User2  == Pld("USER", 510, 2, 1)
Empty  == Pld("OTHER", 0, 0, 1)

MCPayloads == {Short, User1, User1b, User2, Empty}

\* One payload, or several of which a later one is refused or replaces one.
MCBatches ==
  {<< <<0, p>> >> : p \in {User1, User2}}
  \cup {<< <<2, Empty>> >>, << <<3, Empty>> >>,
        << <<0, User2>>, <<1, User1>>, <<0, User1b>> >>,
        << <<2, Empty>>, <<0, Short>>, <<0, User2>> >>}

ASSUME InputsAssumption
=============================================================================
