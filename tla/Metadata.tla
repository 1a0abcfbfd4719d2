------------------------------ MODULE Metadata ------------------------------
(***************************************************************************)
(* The metadata container of src/oapv_metadata.c: an array of groups, each *)
(* with a list of payloads.  A payload is a list node and, unless it is    *)
(* empty, a copy of the caller's bytes, both from the heap, and either     *)
(* allocation may fail.  A set replaces the payload of the same kind; two  *)
(* user defined payloads are of the same kind when their first 16 bytes    *)
(* are.  A group that becomes empty is closed up.                          *)
(*                                                                         *)
(* oapvm_set_all and the reader of a metadata PBU (oapvd_vlc_metadata) set *)
(* one payload after the other and stop at the first that is refused.      *)
(***************************************************************************)
EXTENDS Integers, FiniteSets, FiniteSetsExt, SequencesExt

CONSTANTS GroupIds,   \* the group ids a caller may pass
          MaxGroupId, \* OAPV_MAX_GROUP_ID
          Payloads,   \* the payloads a caller may pass
          Batches,    \* the sequences of (group id, payload) it may pass
          MaxMetas,   \* OAPV_MAX_NUM_METAS
          MaxPlds,    \* OAPV_MAX_NUM_META_PAYLOADS
          Cells       \* number of heap blocks

\* A payload: its type and size; the uuid its first 16 bytes are, when it is
\* user defined; its first byte; whether all its bytes are 0xFF; and a tag
\* that stands for everything else.
Types == {"FILLER", "T35", "MDCV", "CLL", "USER", "OTHER"}

MetaAssumption ==
  /\ GroupIds \subseteq Int /\ MaxGroupId \in Nat
  /\ MaxMetas \in Nat \ {0} /\ MaxPlds \in Nat \ {0}
  /\ Cells \in Nat
  /\ \A p \in Payloads : /\ p.type \in Types /\ p.size \in Nat
                         /\ p.type # "USER" => p.uuid = 0
  /\ \A b \in Batches : b \in Seq(GroupIds \X Payloads)

Cell == 1..Cells
NULL == 0
\* What a block of the heap is used for, and the bytes it was given.
FREE == [use |-> "none", of |-> {}]
NODE == [use |-> "node", of |-> {}]
Bytes(p) == [use |-> "bytes", of |-> {p}]

VARIABLES md_arr,    \* ctx->md_arr: group id, mdp_num and list of each group
          num,       \* ctx->num
          heap,      \* what each block of the heap holds
          todo,      \* the payloads still to set
          alive,     \* has the container not been deleted?
          res        \* what the last operation returned

vars == <<md_arr, num, heap, todo, alive, res>>

Slot == 0..(MaxMetas - 1)
NoGroup == [group_id |-> 0, mdp_num |-> 0, list |-> << >>]

TypeOK ==
  /\ num \in 0..MaxMetas
  /\ \A s \in Slot : /\ md_arr[s].group_id \in 0..MaxGroupId
                     /\ md_arr[s].mdp_num \in 0..MaxPlds
                     /\ \A n \in Range(md_arr[s].list) :
                          /\ n.type \in Types /\ n.size \in Nat
                          /\ n.data \in Cell \cup {NULL} /\ n.cell \in Cell
  /\ \A c \in Cell : heap[c] \in {FREE, NODE} \cup {Bytes(p) : p \in Payloads}
  /\ todo \in Seq(GroupIds \X Payloads) /\ alive \in BOOLEAN
  /\ res \in {"OK", "INVALID", "OOM", "MAX", "NOT_FOUND"}

Init == /\ md_arr = [s \in Slot |-> NoGroup]
        /\ num = 0
        /\ heap = [c \in Cell |-> FREE]
        /\ todo = << >>
        /\ alive = TRUE
        /\ res = "OK"

----------------------------------------------------------------------------
(* Lookups                                                                 *)

\* meta_verify_mdp_data
Verified(p) ==
  CASE p.type = "T35"    -> p.size > 0 /\ (p.lead = 255 => p.size > 1)
    [] p.type = "MDCV"   -> p.size = 24
    [] p.type = "CLL"    -> p.size = 4
    [] p.type = "USER"   -> p.size >= 16
    [] p.type = "FILLER" -> p.pure
    [] OTHER             -> TRUE

\* The first of the places where something is, and NULL if there is none.
First(at, none) == IF at = {} THEN none ELSE Min(at)

\* meta_find_md: the slot of a group.
Group(g) == First({s \in 0..(num - 1) : md_arr[s].group_id = g}, -1)

\* meta_mdp_find_ud, meta_mdp_find_non_ud: where in list l a payload is.
Uuid(n) == {p.uuid : p \in heap[n.data].of}

FindAnyUser(l, type, uuid) == First({k \in DOMAIN l : l[k].type = type}, 0)

Is(n, type, uuid) == /\ n.type = type
                     /\ type = "USER" => n.size >= 16 /\ Uuid(n) = {uuid}

Find(l, type, uuid) == First({k \in DOMAIN l : Is(l[k], type, uuid)}, 0)

\* meta_get_num_mdp: the sums over the first groups of array a.
Sums(a) == LET sum[s \in 0..MaxMetas] ==
                 IF s = 0 THEN 0 ELSE sum[s - 1] + a[s - 1].mdp_num
           IN  sum

Total == Sums(md_arr)[num]

----------------------------------------------------------------------------
(* oapvm_set                                                               *)

\* An allocation that does not fail returns a free block of the heap: one
\* for bytes from one end of it, one for a node from the other.
Vacant(h) == {c \in Cell : h[c] = FREE}
ForBytes(h) == Min(Vacant(h))
ForNode(h) == Max(Vacant(h))

\* The payload's bytes are copied first; none are for an empty payload.
Data(p) == IF p.size > 0 THEN ForBytes(heap) ELSE NULL
Copied(p) == IF p.size > 0 THEN [heap EXCEPT ![Data(p)] = Bytes(p)] ELSE heap

Freed(h, cs) == [c \in Cell |-> IF c \in cs THEN FREE ELSE h[c]]

\* The ERR label gives the copy back.
CopyKept(p) == Copied(p)
Undone(p) == Freed(Copied(p), {Data(p)})

Refused(r) == /\ res' = r /\ todo' = << >>
              /\ UNCHANGED <<md_arr, num, alive>>

Valid(g, p) == Verified(p) /\ g \in 0..MaxGroupId

SetInvalid(g, p) == ~Valid(g, p) /\ Refused("INVALID") /\ UNCHANGED heap

SetNoCopy(g, p) ==
  Valid(g, p) /\ p.size > 0 /\ Refused("OOM") /\ UNCHANGED heap

HasCopy(g, p) == Valid(g, p) /\ (p.size > 0 => Vacant(heap) # {})

\* What a set finds when it looks for the payload it is to replace.
At(g, p) == IF Group(g) = -1 THEN 0 ELSE Find(md_arr[Group(g)].list, p.type, p.uuid)

Full(g, p) == \/ Group(g) = -1 /\ num >= MaxMetas
              \/ At(g, p) = 0 /\ Total >= MaxPlds

SetFull(g, p) ==
  HasCopy(g, p) /\ Full(g, p) /\ Refused("MAX") /\ heap' = Undone(p)

\* There is no memory for the list node.
SetNoNode(g, p) ==
  /\ HasCopy(g, p) /\ ~Full(g, p) /\ At(g, p) = 0
  /\ Refused("OOM") /\ heap' = Undone(p)

Stored == res' = "OK" /\ todo' = Tail(todo) /\ UNCHANGED alive

\* A new payload goes to the head of its group's list, which is opened if
\* there is none yet.
SetAdds(g, p) ==
  /\ HasCopy(g, p) /\ ~Full(g, p) /\ At(g, p) = 0 /\ Vacant(Copied(p)) # {}
  /\ LET s    == IF Group(g) = -1 THEN num ELSE Group(g)
         old  == IF Group(g) = -1 THEN [NoGroup EXCEPT !.group_id = g] ELSE md_arr[s]
         node == [type |-> p.type, size |-> p.size, data |-> Data(p),
                  cell |-> ForNode(Copied(p))]
     IN  /\ num' = IF Group(g) = -1 THEN num + 1 ELSE num
         /\ md_arr' = [md_arr EXCEPT ![s] = [group_id |-> g,
                                             mdp_num |-> old.mdp_num + 1,
                                             list |-> <<node>> \o old.list]]
         /\ heap' = [Copied(p) EXCEPT ![node.cell] = NODE]
  /\ Stored

\* The bytes of the payload that is replaced are given back.
OldFreed(h, c) == Freed(h, {c})

SetReplaces(g, p) ==
  /\ HasCopy(g, p) /\ ~Full(g, p) /\ At(g, p) # 0
  /\ LET s == Group(g)
         k == At(g, p)
     IN  /\ heap' = OldFreed(Copied(p), md_arr[s].list[k].data)
         /\ md_arr' = [md_arr EXCEPT ![s].list[k] = [@ EXCEPT !.size = p.size, !.data = Data(p)]]
  /\ UNCHANGED num
  /\ Stored

Set(g, p) == \/ SetInvalid(g, p) \/ SetNoCopy(g, p) \/ SetFull(g, p)
             \/ SetNoNode(g, p) \/ SetAdds(g, p) \/ SetReplaces(g, p)

Idle == alive /\ todo = << >>

\* A call of oapvm_set, of oapvm_set_all, or a metadata PBU is read.
Submit(b) == Idle /\ todo' = b /\ UNCHANGED <<md_arr, num, heap, alive, res>>

SetNext == /\ alive /\ todo # << >>
           /\ Set(Head(todo)[1], Head(todo)[2])

----------------------------------------------------------------------------
(* oapvm_rem, oapvm_rem_all and oapvm_delete                               *)

\* memmove over slot s, and the last slot cleared.
SlotLeft(a, s) == a

ClosedUp(a, s) == [k \in Slot |-> IF k = num - 1 THEN NoGroup
                                  ELSE IF k >= s /\ k < num - 1 THEN a[k + 1]
                                  ELSE a[k]]

\* The names a payload may be asked for by.
Name == {<<g, p.type, p.uuid>> : g \in GroupIds, p \in Payloads}

Rem(g, type, uuid) ==
  /\ Idle
  /\ LET s == Group(g)
         k == IF s = -1 THEN 0 ELSE Find(md_arr[s].list, type, uuid)
     IN  IF k = 0 THEN res' = "NOT_FOUND" /\ UNCHANGED <<md_arr, num, heap>>
         ELSE LET n    == md_arr[s].list[k]
                  left == [md_arr EXCEPT ![s].list = RemoveAt(@, k),
                                         ![s].mdp_num = @ - 1]
              IN  /\ heap' = Freed(heap, {n.data, n.cell})
                  /\ IF left[s].mdp_num = 0
                     THEN num' = num - 1 /\ md_arr' = ClosedUp(left, s)
                     ELSE UNCHANGED num /\ md_arr' = left
                  /\ res' = "OK"
  /\ UNCHANGED <<todo, alive>>

\* meta_free_md over the groups: what the lists from slot 0 to num - 1 hold.
Listed == UNION {Range(md_arr[s].list) : s \in 0..(num - 1)}
Blocks == ({n.data : n \in Listed} \cup {n.cell : n \in Listed}) \ {NULL}

RemAll == /\ Idle
          /\ heap' = Freed(heap, Blocks)
          /\ md_arr' = [s \in Slot |-> IF s < num THEN NoGroup ELSE md_arr[s]]
          /\ num' = 0
          /\ UNCHANGED <<todo, alive, res>>

\* The container itself goes too; what the array held is out of reach.
Delete == /\ Idle
          /\ heap' = Freed(heap, Blocks)
          /\ md_arr' = [s \in Slot |-> NoGroup] /\ num' = 0
          /\ alive' = FALSE
          /\ UNCHANGED <<todo, res>>

\* The handle is not used again.
Ended == ~alive /\ UNCHANGED vars

Next == \/ \E b \in Batches : Submit(b)
        \/ SetNext
        \/ \E n \in Name : Rem(n[1], n[2], n[3])
        \/ RemAll \/ Delete \/ Ended

Spec == Init /\ [][Next]_vars

----------------------------------------------------------------------------
(* The PBU of a group: oapve_vlc_metadata and oapvd_vlc_metadata           *)

\* A byte b of the stream, and the bytes of a payload as one item.
Byte(b) == [v |-> b, n |-> 1, of |-> {}]
Blob(n) == [v |-> -1, n |-> n.size, of |-> heap[n.data].of]

\* OAPV_METADATA_*; OTHER stands for a type of two bytes.
Idc(type) == CASE type = "T35" -> 4 [] type = "MDCV" -> 5 [] type = "CLL" -> 6
               [] type = "FILLER" -> 10 [] type = "USER" -> 170 [] type = "OTHER" -> 255

NumberAbove(x) ==
  LET k == (x - 1) \div 255
  IN  IF x = 0 THEN <<Byte(0)>> ELSE [j \in 1..k |-> Byte(255)] \o <<Byte(x - 255 * k)>>

\* A number is as many bytes of 255 as fit, and the rest.
Number(x) == [k \in 1..(x \div 255) |-> Byte(255)] \o <<Byte(x % 255)>>

Written(l) ==
  FlattenSeq([k \in DOMAIN l |->
    Number(Idc(l[k].type)) \o Number(l[k].size)
      \o (IF l[k].size > 0 THEN <<Blob(l[k])>> ELSE << >>)])

\* A number is read from the item at k on; Ends is the item it ends at.
Ends(s, k) == LET at == {j \in k..Len(s) : s[j].v # 255}
              IN  IF at = {} THEN Len(s) + 1 ELSE Min(at)
Sum255(s, k, last) == 255 * (last - k) + s[last].v

Broken == << <<-1, -1, {}>> >>

\* The payloads from the item at k on; a payload has as many bytes as its
\* size says, or what follows is taken for something else.
Parsed(s) ==
  LET from[k \in 1..(Len(s) + 2)] ==
        LET t == Ends(s, k)
            z == Ends(s, t + 1)
            size == Sum255(s, t + 1, z)
        IN  IF k = Len(s) + 1 THEN << >>
            ELSE IF k > Len(s) \/ t >= Len(s) \/ z > Len(s) THEN Broken
            ELSE IF size = 0 THEN << <<Sum255(s, k, t), 0, {}>> >> \o from[z + 1]
            ELSE IF z = Len(s) THEN Broken
            ELSE IF s[z + 1].n # size THEN Broken
            ELSE << <<Sum255(s, k, t), size, s[z + 1].of>> >> \o from[z + 2]
  IN  from[1]

----------------------------------------------------------------------------
(* Properties                                                              *)

\* The places of the container's payloads, and the blocks each one has.
Place == UNION {{s} \X DOMAIN md_arr[s].list : s \in 0..(num - 1)}
PayloadAt(x) == md_arr[x[1]].list[x[2]]
Has(x) == {PayloadAt(x).data, PayloadAt(x).cell} \ {NULL}

\* Every block of the heap that is in use is in the container, once: nothing
\* leaks on any error path, nothing is freed twice or used after it was
\* freed, and a deleted container leaves nothing behind.
NothingLeaks ==
  /\ TypeOK
  /\ {c \in Cell : heap[c] # FREE} = Blocks
  /\ \A n \in Listed : /\ heap[n.cell] = NODE
                         /\ n.data # NULL => heap[n.data].use = "bytes"
  /\ \A x, y \in Place : Has(x) \cap Has(y) # {} => x = y

\* What a container holds fits a reader, and can be asked for: no group is
\* there twice or empty (it would become an empty PBU), no payload of a kind
\* twice in a group (one could not be found, and a reader would keep one of
\* them), the counts are true, and there are no more payloads than a reader
\* has room for.
OneOfAKind ==
  /\ \A s, t \in 0..(num - 1) : md_arr[s].group_id = md_arr[t].group_id => s = t
  /\ \A s \in 0..(num - 1) :
       LET l == md_arr[s].list
       IN  /\ l # << >> /\ md_arr[s].mdp_num = Len(l)
           /\ \A j, k \in DOMAIN l : j # k /\ l[j].type = l[k].type =>
                l[j].type = "USER" /\ Uuid(l[j]) # Uuid(l[k])
  /\ Total <= MaxPlds

\* What a container holds can be written, and a parser gets it back: each
\* group's PBU, with types and sizes below, at and above the 255 that one byte
\* can say, is read as the payloads it was written from.
ReadsBack ==
  \A s \in 0..(num - 1) :
    LET l == md_arr[s].list
    IN  Parsed(Written(l)) =
          [k \in DOMAIN l |->
             <<Idc(l[k].type), l[k].size, IF l[k].size = 0 THEN {} ELSE heap[l[k].data].of>>]

----------------------------------------------------------------------------
(* oapvm_get                                                               *)

Nothing == [found |-> FALSE, bytes |-> {}]

\* What oapvm_get finds: the bytes, of which an empty payload has none.
Get(name) ==
  LET s == Group(name[1])
      k == IF s = -1 THEN 0 ELSE Find(md_arr[s].list, name[2], name[3])
  IN  IF k = 0 THEN Nothing
      ELSE [found |-> TRUE,
            bytes |-> UNION {heap[c].of : c \in {md_arr[s].list[k].data} \ {NULL}}]
=============================================================================
