------------------------------- MODULE Words -------------------------------
(***************************************************************************)
(* The two words that threads update together and that hold several fields *)
(* each, bit by bit: a link (ManPtr: two bits of metadata at the top, the  *)
(* address, the tag in the low bits) and the header of an object (ObjMeta: *)
(* color, type id, root count).  The other modules use records; this one   *)
(* shows which packed updates keep the fields apart and lose none, with a  *)
(* word of W bits.                                                         *)
(***************************************************************************)
EXTENDS Naturals, Bitwise

CONSTANTS
  Threads,
  W,              \* usize::BITS
  AlignBits,      \* log2 of the alignment of a ManObj; AlignBits + 2 < W
  TypeIdBits,     \* TYPE_ID_BITS
  TagOps,         \* which of "and", "or", "xor" the program uses on tags
  MaxRoots        \* bound on the root count, which fits its bits

WordMax == 2^W - 1
Color == {0, 1}

AndNot(x, mask) == x & (WordMax - mask)

-----------------------------------------------------------------------------
(* ManPtr.                                                                  *)

META_BITS == 3 * 2^(W - 2)
LOW_BITS == 2^AlignBits - 1
ADDR_BITS == AndNot(AndNot(WordMax, META_BITS), LOW_BITS)

\* PtrMeta: Rooted is 0b00, Unrooted(C0) is 0b10, Unrooted(C1) is 0b11.
Rooted == 2
PtrMeta == {Rooted} \cup Color
MetaCode(x) == IF x = Rooted THEN 0 ELSE 2 + x

Meta(p) ==
  IF p & 2^(W - 1) = 0 THEN Rooted
  ELSE IF p & 2^(W - 2) = 0 THEN 0 ELSE 1
AsPtr(p) == p & ADDR_BITS
Tag(p) == p & LOW_BITS

\* Mutant: the bits of the old color stay.
WithMetaOr(p, x) == (MetaCode(x) * 2^(W - 2)) | p

WithMeta(p, x) == (MetaCode(x) * 2^(W - 2)) | AndNot(p, META_BITS)
WithTag(p, tag) == AndNot(p, LOW_BITS) | (tag & LOW_BITS)

\* The null pointer, and the address that has every bit of an address.
Addresses == {0, ADDR_BITS}
Tags == 0..LOW_BITS

-----------------------------------------------------------------------------
(* ObjMeta.                                                                 *)

TYPE_ID_SHIFT == W - 1 - TypeIdBits
ROOT_COUNT_MASK == 2^TYPE_ID_SHIFT - 1
TYPE_ID_MASK == (2^TypeIdBits - 1) * 2^TYPE_ID_SHIFT

NewHeader(color, count, typeId) ==
  (color * 2^(W - 1)) | (typeId * 2^TYPE_ID_SHIFT) | (count & ROOT_COUNT_MASK)
TypeId(h) == (h & TYPE_ID_MASK) \div 2^TYPE_ID_SHIFT
MarkedColor(h) == h \div 2^(W - 1)

WithMarked(h, color) == AndNot(h, 2^(W - 1)) | (color * 2^(W - 1))
RootCount(h) == h & ROOT_COUNT_MASK

TypeIds == 0..(2^TypeIdBits - 1)

-----------------------------------------------------------------------------

VARIABLES
  link, header,   \* the two words
  w,              \* w[t]: the word t has loaded, and what it will make of it
  fields,         \* history: what the fields ought to be
  wanted          \* history: what the fields of the link ought to be after t's CAS

vars == <<link, header, w, fields, wanted>>

None == [pc |-> "idle", old |-> 0, new |-> 0]

NoLink == [addr |-> 0, tag |-> 0, meta |-> Rooted]

\* A null link, rooted or not, and the header of a new object.
Init ==
  /\ \E color \in Color, id \in TypeIds, meta \in PtrMeta :
       /\ header = NewHeader(color, 1, id)
       /\ link = WithMeta(0, meta)
       /\ fields = [addr |-> 0, tag |-> 0, meta |-> meta,
                    color |-> color, type |-> id, count |-> 1]
  /\ wanted = [t \in Threads |-> NoLink]
  /\ w = [t \in Threads |-> None]

-----------------------------------------------------------------------------
(* Operations on the link.                                                  *)

LoadLink(t, new, addr, tag, meta) ==
  /\ w[t].pc = "idle"
  /\ w' = [w EXCEPT ![t] = [pc |-> "link", old |-> link, new |-> new]]
  /\ wanted' = [wanted EXCEPT ![t] = [addr |-> addr, tag |-> tag, meta |-> meta]]
  /\ UNCHANGED <<link, header, fields>>

\* internal_cmpxchg_rooted and internal_cmpxchg_unrooted_once: the new pointer takes
\* on the metadata of the old one.
LoadForExchange(t) ==
  \E a \in Addresses, tag \in Tags :
    LoadLink(t, WithMeta(WithTag(a, tag), Meta(link)), a, tag, fields.meta)

\* AtomicSharedOption::shade.
LoadForShade(t) ==
  /\ Meta(link) # Rooted
  /\ \E black \in Color \ {Meta(link)} :
       LoadLink(t, WithMeta(link, black), fields.addr, fields.tag, black)

\* The compare-exchange of either; the loop that follows a failure loads again.
CasLink(t) ==
  /\ w[t].pc = "link"
  /\ IF link = w[t].old
       THEN /\ link' = w[t].new
            /\ fields' = [fields EXCEPT !.addr = wanted[t].addr, !.tag = wanted[t].tag,
                                        !.meta = wanted[t].meta]
       ELSE UNCHANGED <<link, fields>>
  /\ w' = [w EXCEPT ![t] = None]
  /\ wanted' = [wanted EXCEPT ![t] = NoLink]
  /\ UNCHANGED header

\* fetch_tag_and, fetch_tag_or, fetch_tag_xor on the whole word; the fields are what
\* they ought to become, "Only the tag bits are affected".
Combine(op, x, y) == CASE op = "and" -> x & y [] op = "or" -> x | y [] op = "xor" -> x ^^ y

FetchTag(t, op, tag) ==
  /\ w[t].pc = "idle"
  /\ link' = Combine(op, link, tag & LOW_BITS)
  /\ fields' = [fields EXCEPT !.tag = Combine(op, @, tag)]
  /\ UNCHANGED <<header, w, wanted>>

-----------------------------------------------------------------------------
(* Operations on the header.                                                *)

IncrementRootCount(t) ==
  /\ w[t].pc = "idle"
  /\ fields.count < MaxRoots
  /\ header' = (header + 1) % 2^W
  /\ fields' = [fields EXCEPT !.count = @ + 1]
  /\ UNCHANGED <<link, w, wanted>>

\* debug_assert!(prev > 0): who decrements has a counted reference.
DecrementRootCount(t) ==
  /\ w[t].pc = "idle"
  /\ fields.count > 0
  /\ header' = (header + 2^W - 1) % 2^W
  /\ fields' = [fields EXCEPT !.count = @ - 1]
  /\ UNCHANGED <<link, w, wanted>>

LoadHeader(t) ==
  /\ w[t].pc = "idle"
  /\ \E black \in Color :
       /\ MarkedColor(header) # black
       /\ w' = [w EXCEPT ![t] = [pc |-> "header", old |-> header, new |-> WithMarked(header, black)]]
  /\ UNCHANGED <<link, header, fields, wanted>>

\* Mutant: the marked header is written back with a store.
MarkStore(t) ==
  /\ w[t].pc = "header"
  /\ w' = [w EXCEPT ![t] = None]
  /\ header' = w[t].new
  /\ fields' = [fields EXCEPT !.color = MarkedColor(w[t].new)]
  /\ UNCHANGED <<link, wanted>>

\* AtomicObjMeta::mark; after a failure it starts from the current word.
Mark(t) ==
  /\ w[t].pc = "header"
  /\ IF header = w[t].old
       THEN /\ header' = w[t].new
            /\ fields' = [fields EXCEPT !.color = MarkedColor(w[t].new)]
       ELSE UNCHANGED <<header, fields>>
  /\ w' = [w EXCEPT ![t] = None]
  /\ UNCHANGED <<link, wanted>>

-----------------------------------------------------------------------------

Next ==
  \E t \in Threads :
    \/ LoadForExchange(t) \/ LoadForShade(t) \/ CasLink(t)
    \/ \E op \in TagOps, tag \in Tags : FetchTag(t, op, tag)
    \/ IncrementRootCount(t) \/ DecrementRootCount(t) \/ LoadHeader(t) \/ Mark(t)

Spec == Init /\ [][Next]_vars

\* However the threads interleave, the link decodes to the address, the tag and the
\* color that its last exchange, shading (AtomicSharedOption::shade), fetch_tag_or and
\* fetch_tag_xor gave it: a CAS that prepares its word from an older one and the tag
\* operations in between lose nothing and spill into no other field.
LinkDecodes ==
  /\ AsPtr(link) = fields.addr
  /\ Tag(link) = fields.tag
  /\ Meta(link) = fields.meta

\* The link points to the object that the last exchange stored in it, whatever tag
\* operations followed: "Only the tag bits are affected; the pointed-to address is
\* unchanged" (the doc of fetch_tag_and, pointers.rs:1638).
TagKeepsAddress == AsPtr(link) = fields.addr

\* However marking, root counting and decrements interleave, the header decodes to
\* its type, the count of its roots and the color it was marked with.
HeaderDecodes ==
  /\ TypeId(header) = fields.type
  /\ RootCount(header) = fields.count
  /\ MarkedColor(header) = fields.color
=============================================================================
