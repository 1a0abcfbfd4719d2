------------------------------- MODULE Inputs -------------------------------
(***************************************************************************)
(* What an application hands to an encoder.  In a behaviour it either sets *)
(* parameters, creates an instance and configures it (Params, with the     *)
(* headers the instance writes), or it fills a metadata container          *)
(* (Metadata); what the other one keeps is out of use and stays as it is.  *)
(***************************************************************************)
EXTENDS Integers

CONSTANTS Values, Pictures, Edits, Cores, Threads, MaxParses, NoEncoder,  \* of Params
          Formats, Groups,                                                \* of Headers
          GroupIds, MaxGroupId, Payloads, Batches,                        \* of Metadata
          MaxMetas, MaxPlds, Cells

VARIABLES use,                                             \* "params" or "metadata"
          param, enc, grid, ret, parses, edited, family,   \* of Params
          md_arr, num, heap, todo, alive, res              \* of Metadata

P == INSTANCE Headers
M == INSTANCE Metadata

InputsAssumption == P!ParamsAssumption /\ M!MetaAssumption

----------------------------------------------------------------------------
parameters == <<param, enc, grid, ret, parses, edited, family>>
container  == <<md_arr, num, heap, todo, alive, res>>

inputsVars == <<use, parameters, container>>

Unused(v) == v = "unused"

InputsInit ==
  \/ /\ use = "params" /\ P!Init
     /\ Unused(md_arr) /\ Unused(num) /\ Unused(heap)
     /\ Unused(todo) /\ Unused(alive) /\ Unused(res)
  \/ /\ use = "metadata" /\ M!Init
     /\ Unused(param) /\ Unused(enc) /\ Unused(grid) /\ Unused(ret)
     /\ Unused(parses) /\ Unused(edited) /\ Unused(family)

Sets(A)  == use = "params" /\ A /\ UNCHANGED <<use, container>>
Fills(A) == use = "metadata" /\ A /\ UNCHANGED <<use, parameters>>

InputsNext ==
  \/ \E name \in DOMAIN Values : \E v \in Values[name] : Sets(P!Parse(name, v))
  \/ \E f \in DOMAIN P!Ratio : Sets(P!SetFamily(f))
  \/ \E t \in Threads : Sets(P!Create(t))
  \/ \E id \in DOMAIN Edits : \E v \in Edits[id] : Sets(P!Config(id, v))
  \/ Sets(P!Delete)
  \/ \E b \in Batches : Fills(M!Submit(b))
  \/ Fills(M!SetNext)
  \/ \E n \in M!Name : Fills(M!Rem(n[1], n[2], n[3]))
  \/ Fills(M!RemAll)
  \/ Fills(M!Delete)
  \/ Fills(M!Ended)

InputsSpec == InputsInit /\ [][InputsNext]_inputsVars

----------------------------------------------------------------------------
\* The tiles of an instance are whole macroblocks within the profile's limits.
TileGrid == use = "params" => P!TileGrid

\* An instance under rate control has a frame rate and a target.
RateControlHasTarget == use = "params" => P!RateControlHasTarget

\* An automatic level is the lowest that admits picture and bitrate.
LowestLevel == use = "params" => P!LowestLevel

\* The encoder takes the bitrate of every family.
FamilyFits == use = "params" => P!FamilyFits

\* The parser reads the headers of every image an instance accepts.
HeadersReadBack == use = "params" => P!HeadersReadBack

\* An instance never carries a level that its picture exceeds.
LevelAdmitsPicture == use = "params" => P!LevelAdmitsPicture

\* An image of an odd width in 4:2:2 is refused.
OddWidthRefused == use = "params" => P!OddWidthRefused

\* Every block of the heap that is in use is in the container, once, and so
\* is each group and each kind of payload, no more of them than a reader takes.
ContainerIsSound == use = "metadata" => M!NothingLeaks /\ M!OneOfAKind

\* What a container holds is what a parser gets back from its PBUs.
ContainerReadsBack == use = "metadata" => M!ReadsBack

\* The container is a map; while parameters are set it rests, empty.
NothingStored == [n \in M!Name |-> M!Nothing]

Map == INSTANCE MetaMap
         WITH Value <- {[found |-> TRUE, bytes |-> b] : b \in {{}} \cup {{p} : p \in Payloads}},
              Nothing <- M!Nothing, Name <- M!Name,
              res <- IF use = "metadata" THEN res ELSE "OK",
              map <- IF use = "metadata" THEN [n \in M!Name |-> M!Get(n)] ELSE NothingStored

ImplementsMetaMap == Map!Spec
=============================================================================
