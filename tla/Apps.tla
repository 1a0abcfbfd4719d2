-------------------------------- MODULE Apps --------------------------------
(***************************************************************************)
(* AppEnc and AppDec.  A behaviour is a run of the encoder program on a    *)
(* video file, after which the decoder program may be run on what it has   *)
(* written; or a run of the decoder program on a file from elsewhere.  One *)
(* process after the other owns the variables they have in common, and     *)
(* what the other one keeps is out of use and stays as it is.              *)
(***************************************************************************)
EXTENDS Integers, Sequences

CONSTANTS NoFile, NaN, NoKey, MaxW, MaxFrames, Ext, Configs,
          EncRuns,    \* the encoder's command lines, each with a video file
          DecRuns,    \* the decoder's, each with a bitstream file
          AfterEnc    \* the command lines for what the encoder has written

VARIABLES prog,                                        \* "enc" or "dec"
          cmd, pc, status, arg, held, nimg, imgs, mid, au_cnt, pos,
          video, cf, state, au_skip, coded, rec,       \* of the encoder
          stream, imgb_w, num_frms, frm_cnt, at, out, verdicts, quiet

E == INSTANCE AppEnc WITH ret <- status, out <- coded
D == INSTANCE AppDec WITH ret <- status

IsSeq(s) == Len(s) \in Nat /\ s = [n \in 1..Len(s) |-> s[n]]

\* What a frame header, or an AU_INFO, tells of a frame.
FrameOk(frm) ==
  /\ frm.cf \in DOMAIN D!Planes \ {"PLANAR2"}
  /\ frm.depth \in 10..16 /\ frm.comp \in BOOLEAN

PbuOk(pbu) ==
  /\ IsSeq(pbu.list) /\ \A k \in DOMAIN pbu.list : FrameOk(pbu.list[k])
  /\ D!IsFrame(pbu) => FrameOk(pbu.frm)

UnitsOk(units) ==
  /\ IsSeq(units)
  /\ \A n \in DOMAIN units :
       IsSeq(units[n].pbus) /\ \A j \in DOMAIN units[n].pbus : PbuOk(units[n].pbus[j])

AppsAssumption ==
  /\ NoFile # <<>> /\ MaxFrames \in Nat \ {0}
  /\ \A r \in EncRuns :
       /\ r[2].pics \in Nat
       /\ LET p == E!Parse(E!Table, r[1]) IN p.ok => p.opts.seek.val \in Int
  /\ \A r \in DecRuns : UnitsOk(r[2])

----------------------------------------------------------------------------
\* What the encoder has written, as the decoder will find it.
FrameOf(unit) ==
  [w |-> unit.w, cf |-> IF unit.cf = "PLANAR2" THEN "YCBCR422" ELSE unit.cf,
   depth |-> IF unit.depth = 16 THEN 12 ELSE unit.depth, comp |-> unit.depth = 16,
   cols |-> 1, n |-> 1, good |-> "good"]

UnitOf(unit) ==
  LET pbu(type, hash) == <<[type |-> type, gid |-> 1, frm |-> FrameOf(unit),
                            list |-> <<>>, hash |-> hash]>>
      hashed == IF "hash" \in unit.meta THEN pbu("meta", 1) ELSE <<>>
      others == IF unit.meta \subseteq {"hash"} THEN <<>> ELSE pbu("meta", -1)
  IN  [size |-> "good", sig |-> TRUE, short |-> FALSE,
       pbus |-> pbu("primary", 0) \o hashed \o others]

encVars == <<video, cf, state, au_skip, coded, rec>>
decVars == <<stream, imgb_w, num_frms, frm_cnt, at, out, verdicts, quiet>>
appsVars == <<prog, cmd, pc, status, arg, held, nimg, imgs, mid, au_cnt, pos,
              encVars, decVars>>

Idle(v) == v = "idle"

InitEnc ==
  /\ prog = "enc" /\ E!Init
  /\ \E r \in EncRuns : cmd = r[1] /\ video = r[2]
  /\ Idle(stream) /\ Idle(imgb_w) /\ Idle(num_frms) /\ Idle(frm_cnt)
  /\ Idle(at) /\ Idle(out) /\ Idle(verdicts) /\ Idle(quiet)

InitDec ==
  /\ prog = "dec" /\ D!Init
  /\ \E r \in DecRuns : cmd = r[1] /\ stream = r[2]
  /\ Idle(video) /\ Idle(cf) /\ Idle(state) /\ Idle(au_skip)
  /\ Idle(coded) /\ Idle(rec)

AppsInit == InitEnc \/ InitDec

Enc(action) == prog = "enc" /\ action /\ UNCHANGED <<prog, decVars>>
Dec(action) == prog = "dec" /\ action /\ UNCHANGED <<prog, encVars>>

\* The decoder program is started on the encoder's output.
Handover ==
  /\ prog = "enc" /\ pc = "exit" /\ status = 0 /\ coded # NoFile
  /\ prog' = "dec"
  /\ cmd' \in AfterEnc
  /\ stream' = [n \in DOMAIN coded |-> UnitOf(coded[n])]
  /\ pc' = "start" /\ status' = 0 /\ arg' = <<>> /\ held' = {}
  /\ nimg' = 0 /\ imgs' = [i \in D!Slots |-> D!NoImage] /\ imgb_w' = D!NoImage
  /\ num_frms' = 0 /\ frm_cnt' = [i \in D!Slots |-> 0] /\ au_cnt' = 0
  /\ mid' = {} /\ pos' = 0 /\ at' = 0
  /\ out' = NoFile /\ verdicts' = {} /\ quiet' = ""
  /\ UNCHANGED encVars

AppsNext ==
  \/ Enc(E!Help) \/ Enc(E!ParseArgs) \/ Enc(E!Open) \/ Enc(E!FromHeader)
  \/ Enc(E!HeaderRefused) \/ Enc(E!FromOptions) \/ Enc(E!Update) \/ Enc(E!Outputs)
  \/ Enc(E!Create) \/ Enc(E!Images) \/ Enc(E!Summary) \/ Enc(E!Read) \/ Enc(E!Encode)
  \/ Enc(E!EncodeFails) \/ Enc(E!Skip) \/ Enc(E!SkipEnds) \/ Enc(E!Stop) \/ Enc(E!Cleanup)
  \/ Handover
  \/ Dec(D!Help) \/ Dec(D!ParseArgs) \/ Dec(D!OpenFiles) \/ Dec(D!Create) \/ Dec(D!LoopEnds)
  \/ Dec(D!EndOfFile) \/ Dec(D!ReadUnit) \/ Dec(D!Info) \/ Dec(D!Decode) \/ Dec(D!DecodeFails)
  \/ Dec(D!Payloads) \/ Dec(D!Write) \/ Dec(D!UnitDone)
  \/ Dec(D!NoUnit) \/ Dec(D!BeginUnit) \/ Dec(D!PbuFails) \/ Dec(D!TakeImage)
  \/ Dec(D!DecodeFrame) \/ Dec(D!FrameFails) \/ Dec(D!ShowFrame) \/ Dec(D!OtherPbu)
  \/ Dec(D!UnitEnds) \/ Dec(D!Cleanup) \/ Dec(D!Exit)

AppsSpec == AppsInit /\ [][AppsNext]_appsVars

----------------------------------------------------------------------------
\* The units written are the pictures read, in their order.
CodedInOrder == prog = "enc" => E!CodedInOrder

\* The pictures written are those of the bitstream, in their order.
WrittenIsDecoded == prog = "dec" => D!WrittenIsDecoded

\* Status 0 means that everything asked for was coded or decoded.
SuccessIsWhole == IF prog = "enc" THEN E!SuccessIsWhole ELSE D!SuccessIsWhole

\* Nothing is still allocated at the exit, but for images API set 0 loses.
EverythingReleased == IF prog = "enc" THEN E!EverythingReleased ELSE D!EverythingReleased

\* The pictures written span the bits their label says.
LabelsAreTrue == IF prog = "enc" THEN E!LabelsAreTrue ELSE D!LabelsAreTrue

\* What is said of a picture's hash is about the hash of its own unit.
VerdictIsThisUnits == prog = "dec" => D!VerdictIsThisUnits

\* The first picture coded is the one behind those to be skipped.
SeekSkipsExactly == prog = "enc" => E!SeekSkipsExactly

\* Without companding a picture labelled 12 bits has 12 of them.
CompandingOffIs12Bit == prog = "dec" => D!CompandingOffIs12Bit
=============================================================================
