------------------------------- MODULE AppIO -------------------------------
(***************************************************************************)
(* Images and video files of the command-line programs (oapv_app_util.h    *)
(* and oapv_app_y4m.h), as operators on values.                            *)
(*                                                                         *)
(* An image is [w, cf, depth, shape, pic]: its size, the format and depth  *)
(* of its label (cs), the samples of its planes as they were last copied,  *)
(* and what it shows.  A picture shown is [of, tiles, bits]: which one, at *)
(* which place which of its tiles when only some were decoded, and how     *)
(* many bits its samples span, whatever the label says.                    *)
(***************************************************************************)
EXTENDS Integers, Sequences

CONSTANTS MaxW,      \* IMGB_MAX_W; one number stands for width and height
          Ext        \* file name -> the last letters of the name

Planes ==    \* samples of each plane, in a frame of four luma samples
  [YCBCR400 |-> <<4>>,       YCBCR420 |-> <<4, 1, 1>>,
   YCBCR422 |-> <<4, 2, 2>>, YCBCR444 |-> <<4, 4, 4>>,
   YCBCR4444 |-> <<4, 4, 4, 4>>, PLANAR2 |-> <<4, 4>>]

\* color_format_to_chroma_format_idc
Idc == [YCBCR400 |-> 0, YCBCR420 |-> 1, YCBCR422 |-> 2, YCBCR444 |-> 3,
        YCBCR4444 |-> 4, PLANAR2 |-> 2]

ByteDepth(depth) == (depth + 7) \div 8

Whole(of, bits) == [of |-> of, tiles |-> {}, bits |-> bits]

Blank == Whole(0, 0)

\* What a pointer is that points to no image.
NoImage == [w |-> 0, cf |-> "UNKNOWN", depth |-> 0, shape |-> <<>>, pic |-> Blank]

InRange(w) == w \in 1..MaxW

\* imgb_create; that an allocation fails is the caller's alternative.
ImgbCreate(w, cf, depth) ==
  IF InRange(w) /\ cf \in DOMAIN Planes /\ ByteDepth(depth) > 0
  THEN [w |-> w, cf |-> cf, depth |-> depth, shape |-> Planes[cf], pic |-> Blank]
  ELSE NoImage

----------------------------------------------------------------------------
(* Copying from one image to another, which says nothing when it refuses.  *)

\* Both buffers hold the samples the source has; the destination's planes
\* are those it was created with.
CpyIsValid(dst, src) ==
  /\ Len(Planes[dst.cf]) = Len(src.shape)
  /\ \A p \in DOMAIN src.shape :
       /\ src.shape[p] <= Planes[src.cf][p]
       /\ src.shape[p] <= Planes[dst.cf][p]

\* Wrong: samples are not shifted to the other depth.
CopiedAsIs(dst, src) ==
  IF CpyIsValid(dst, src)
  THEN [dst EXCEPT !.pic = src.pic, !.shape = src.shape] ELSE dst

ImgbCpy(dst, src) ==
  IF /\ CpyIsValid(dst, src)
     /\ dst.depth \in 8..16 /\ src.depth \in 8..16
     /\ dst.depth = src.depth => dst.cf = src.cf
  THEN [dst EXCEPT !.pic = [src.pic EXCEPT !.bits = @ + (dst.depth - src.depth)],
                   !.shape = src.shape]
  ELSE dst

\* oapv_imgb_t.cs of P210 holds its ten bits in the upper part of a word.
Fills(img) == img.pic.bits = (IF img.cf = "PLANAR2" THEN 16 ELSE img.depth)

----------------------------------------------------------------------------
(* Video files.  One to read is [y4m, hdr, pics, tail]: whether it starts  *)
(* with YUV4MPEG, the fields of that header, how many whole pictures it    *)
(* has, and whether it ends there, in the middle of a picture, or where a  *)
(* frame marker should be.  One written is [heads, pics]: the stream       *)
(* headers, each with the number of pictures before it, and the pictures.  *)

Readable(depth) == depth = 8 \/ depth \in 10..16

\* The pos-th picture (from 0) as imgb_read leaves it in img; Torn stands
\* for the lines that were read before the end.
Torn == -1

\* Wrong: the last picture is missed.
BeforeLast(file, img, pos) == pos + 1 < file.pics /\ Readable(img.depth)

HasPicture(file, img, pos) == pos < file.pics /\ Readable(img.depth)

ImgbRead(file, img, pos) ==
  IF HasPicture(file, img, pos) THEN [img EXCEPT !.pic = Whole(pos + 1, img.depth)]
  ELSE IF file.tail = "torn" /\ Readable(img.depth)
  THEN [img EXCEPT !.pic = Whole(Torn, img.depth)]
  ELSE img

\* imgb_write
Writable(img) ==
  \/ img.depth = 8 /\ img.cf # "PLANAR2"
  \/ img.depth \in 10..16

Y4mFormats ==    \* formats and depths that have a tag in either direction
  {<<"YCBCR420", 8>>, <<"YCBCR420", 10>>, <<"YCBCR400", 8>>, <<"YCBCR400", 10>>}
    \cup {"YCBCR422", "YCBCR444"} \X {8, 10, 12}

\* What y4m_header_parser makes of a header: refused, or one of several
\* results, because a header without a colour tag is compared through an
\* array nobody has written.
HeaderParses(hdr) == InRange(hdr.w) /\ hdr.fps /\ hdr.tag # <<"long", 0>>

HeaderFormats(hdr) ==
  CASE hdr.tag = <<"absent", 0>> -> Y4mFormats \cup {<<"UNKNOWN", -1>>}
    [] hdr.tag \in Y4mFormats    -> {hdr.tag}
    [] OTHER                     -> {<<"UNKNOWN", -1>>}

Empty == [heads |-> <<>>, pics |-> <<>>]

\* Writing one picture: the stream header before the first one, a frame
\* marker, the samples.  "first" says no picture was written before.
HeaderFits(img, y4m, first) ==
  (y4m /\ first) => <<img.cf, img.depth>> \in Y4mFormats

Headed(file, img, y4m, first) ==
  IF y4m /\ first
  THEN [file EXCEPT !.heads = Append(@, [before |-> Len(file.pics), w |-> img.w,
                                         cf |-> img.cf, depth |-> img.depth])]
  ELSE file

WriteImg(file, img, y4m, first) ==
  LET headed == Headed(file, img, y4m, first)
  IN  IF Writable(img) THEN [headed EXCEPT !.pics = Append(@, img)] ELSE headed

WriteFits(img, y4m, first) == HeaderFits(img, y4m, first) /\ Writable(img)

\* check_file_name_type, from the extension of the name
NameType(name) ==
  CASE Ext[name] = "yuv" -> 0
    [] Ext[name] = "y4m" -> 1
    [] OTHER             -> -1
=============================================================================
