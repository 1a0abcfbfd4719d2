------------------------------- MODULE MCApps -------------------------------
(***************************************************************************)
(* Apps for TLC: command lines, video files and bitstream files.           *)
(***************************************************************************)
EXTENDS Apps, FiniteSets

\* Width 3, the most there is, is odd.
MCNames == [in |-> "in", apv |-> "apv", yuv |-> "yuv", y4m |-> "y4m", txt |-> "txt"]
MCFiles == [c \in {"my.cfg"} |->
            <<[key |-> "seek", word |-> [dash |-> 0, text |-> "1", int |-> 1]],
              [key |-> "none", word |-> [dash |-> 0, text |-> "1", int |-> 1]]>>]

----------------------------------------------------------------------------
(* Command lines.                                                          *)

Long(k)  == <<[dash |-> 2, text |-> k, int |-> NaN]>>
Short(k) == <<[dash |-> 1, text |-> k, int |-> NaN]>>
Word(w)  == <<[dash |-> 0, text |-> w, int |-> NaN]>>
Num(n)   == <<[dash |-> IF n < 0 THEN 1 ELSE 0, text |-> "n", int |-> n]>>

In == Short("i") \o Word("in")
Raw == In \o Long("csp") \o Num(2) \o Short("w") \o Word("w") \o Short("z") \o Word("30")

EncLines ==
  { <<>>, Long("help"), Short("h"), Word("in"), Long("output") \o Word("apv"),
    In \o Long("config") \o Word("my.cfg"), In \o Long("config") \o Word("none"),
    In \o Long("seek") \o Word("x"), In \o Short("o"), Short("i") \o Word("lost"),
    In \o Short("x"),
    Raw, Raw \o Short("o") \o Word("apv") \o Long("max") \o Num(1),
    Raw \o Short("o") \o Word("apv") \o Long("seek") \o Num(1)
        \o Long("mdcv") \o Word("ok"),
    Raw \o Short("o") \o Word("apv") \o Long("seek") \o Num(1) \o Long("max") \o Num(1),
    Raw \o Short("o") \o Word("apv") \o Short("r") \o Word("y4m") \o Long("hash")
        \o Long("cll") \o Word("ok") \o Long("mdcv") \o Word("ok"),
    Raw \o Short("o") \o Word("apv") \o Long("cll") \o Word("bad"),
    Raw \o Short("r") \o Word("yuv") \o Short("d") \o Num(8) \o Short("o") \o Word("apv"),
    Raw \o Short("r") \o Word("y4m") \o Long("profile") \o Word("422-12")
        \o Short("d") \o Num(12) \o Short("o") \o Word("apv"),
    Raw \o Short("r") \o Word("txt"), Raw \o Long("hash"),
    Raw \o Short("d") \o Num(9), Raw \o Short("d") \o Num(-1),
    Raw \o Short("m") \o Word("x"), Raw \o Long("profile") \o Word("none"),
    In \o Short("o") \o Word("apv"), In \o Short("r") \o Word("y4m") \o Long("hash"),
    In \o Long("profile") \o Word("444-10") \o Short("o") \o Word("apv")
       \o Short("r") \o Word("y4m") \o Long("hash"),
    In \o Long("csp") \o Num(5) \o Short("w") \o Word("w") \o Short("z") \o Word("30")
       \o Short("r") \o Word("y4m") \o Short("o") \o Word("apv"),
    In \o Long("csp") \o Num(3) \o Short("w") \o Word("w") \o Short("z") \o Word("30")
       \o Short("r") \o Word("y4m") \o Short("o") \o Word("apv") \o Short("d") \o Num(16)
       \o Long("profile") \o Word("444-16c12") }

Video(y4m, tag, w, pics, tail) ==
  [y4m |-> y4m, hdr |-> [w |-> w, fps |-> w # 3, tag |-> tag], pics |-> pics, tail |-> tail]

Videos ==
  { Video(FALSE, <<"absent", 0>>, 2, 3, "clean"), Video(FALSE, <<"absent", 0>>, 2, 2, "torn"),
    Video(FALSE, <<"absent", 0>>, 1, 1, "clean"), Video(FALSE, <<"absent", 0>>, 4, 1, "clean"),
    Video(FALSE, <<"absent", 0>>, 2, 0, "clean"),
    Video(TRUE, <<"YCBCR422", 10>>, 2, 2, "clean"), Video(TRUE, <<"YCBCR422", 8>>, 2, 2, "lost"),
    Video(TRUE, <<"YCBCR444", 10>>, 2, 1, "torn"), Video(TRUE, <<"YCBCR420", 8>>, 2, 1, "clean"),
    Video(TRUE, <<"absent", 0>>, 2, 1, "clean"), Video(TRUE, <<"other", 0>>, 2, 1, "clean"),
    Video(TRUE, <<"long", 0>>, 2, 1, "clean"), Video(TRUE, <<"YCBCR422", 10>>, 3, 1, "clean") }

DecIn == In \o Short("o")

DecLines ==
  { <<>>, Long("help"), Short("h"), Short("o") \o Word("yuv"), Short("i") \o Word("lost"),
    In \o Short("o") \o Word("txt"), In \o Long("api") \o Num(2),
    In \o Long("cyclic") \o Num(1), In \o Short("m") \o Word("x"),
    In \o Long("hash") \o Long("csp") \o Num(1) }

MCAfterEnc ==
  { In \o Long("hash"), DecIn \o Word("y4m") \o Long("hash"),
    DecIn \o Word("yuv") \o Short("d") \o Num(8),
    DecIn \o Word("y4m") \o Short("d") \o Num(12) \o Long("max") \o Num(1),
    DecIn \o Word("yuv") \o Long("csp") \o Num(1),
    DecIn \o Word("y4m") \o Long("csp") \o Num(1),
    DecIn \o Word("yuv") \o Long("plain"),
    DecIn \o Word("y4m") \o Long("api") \o Num(1),
    DecIn \o Word("yuv") \o Long("api") \o Num(1) \o Short("d") \o Num(12),
    DecIn \o Word("yuv") \o Long("api") \o Num(1) \o Long("cyclic") \o Num(2),
    DecIn \o Word("yuv") \o Long("api") \o Num(1) \o Long("cyclic") \o Num(1)
      \o Short("d") \o Num(8) }

----------------------------------------------------------------------------
(* Files from elsewhere: frames of two sizes, two formats and three depths *)
(* in units of one or two frames, well formed or broken in one place.      *)

Frame(w, format, depth, comp, good) ==
  [w |-> w, cf |-> format, depth |-> depth, comp |-> comp, cols |-> 2, n |-> 3 + w, good |-> good]

A == Frame(1, "YCBCR422", 10, FALSE, "good")
B == Frame(2, "YCBCR422", 10, FALSE, "good")
C == Frame(1, "YCBCR422", 12, FALSE, "good")
F == Frame(1, "YCBCR444", 10, FALSE, "good")
G == Frame(1, "YCBCR444", 12, TRUE, "good")

Pbu(type, gid, frm, list, hash) ==
  [type |-> type, gid |-> gid, frm |-> frm, list |-> list, hash |-> hash]
Prim(f)    == Pbu("primary", 1, f, <<>>, 0)
Aux(f)     == Pbu("aux", 2, f, <<>>, 0)
Info(list) == Pbu("info", 0, A, list, 0)
Meta(g, h) == Pbu("meta", g, A, <<>>, h)
Odd(type)  == Pbu(type, 0, A, <<>>, 0)

Au(pbus) == [size |-> "good", sig |-> TRUE, short |-> FALSE, pbus |-> pbus]

GoodUnits ==
  { Au(<<Prim(f)>>) : f \in {A, B, C, F, G} } \cup
  { Au(<<Prim(A), Aux(A), Meta(2, 2), Meta(1, -1)>>),
    Au(<<Info(<<B, A>>), Prim(B), Aux(A), Meta(1, 1)>>),
    Au(<<Info(<<C>>), Prim(A)>>),
    Au(<<Prim(A), Meta(1, 0), Odd("filler")>>) }

BrokenUnits ==
  { [Au(<<Prim(A)>>) EXCEPT !.size = z] : z \in {"cut", "zero", "large"} } \cup
  { [Au(<<Prim(A)>>) EXCEPT !.short = TRUE], [Au(<<Prim(A)>>) EXCEPT !.sig = FALSE],
    Au(<<>>), Au(<<Odd("bad")>>), Au(<<Meta(1, 1)>>),
    Au(<<Prim([A EXCEPT !.good = "header"])>>), Au(<<Prim([A EXCEPT !.good = "tiles"])>>),
    Au(<<Prim([A EXCEPT !.w = 4])>>),
    Au(<<Info(<<A>>), Prim(A), Aux(A)>>), Au(<<Info(<<B>>), Prim(A)>>),
    Au(<<Prim(A), Aux(A), Aux(A)>>) }

Streams ==
  {<<>>} \cup {<<u>> : u \in GoodUnits \cup BrokenUnits}
    \cup {<<u, v>> : u \in GoodUnits, v \in GoodUnits \cup BrokenUnits}
    \cup {<<Au(<<Prim(A)>>), u, Au(<<Prim(A)>>)>> : u \in GoodUnits}

----------------------------------------------------------------------------
MCEncRuns == EncLines \X Videos
MCDecRuns == (AfterEnc \X Streams) \cup (DecLines \X {<<>>, <<Au(<<Prim(A)>>)>>})

ASSUME AppsAssumption
=============================================================================
