--------------------------- MODULE DecoderDatabase ---------------------------
(* The page of lmrstudio that shows the known decoders                       *)
(* (decoderdatabaseview.cpp): a box for the vendor filters the box for the   *)
(* decoder, whose definitions a tree shows with their variables.             *)
EXTENDS DecoderInfo

CONSTANT None

VARIABLES
    vendorBox,      \* the vendor chosen, or "" for any
    decoderBox,     \* the decoder chosen, or None
    shownTree       \* DecoderInfoModel::m_decoders

vars == <<vendorBox, decoderBox, shownTree>>

\* VendorListModel offers the vendors of all decoders, DecoderTypeModel only decoders
\* with variables of their own.
VendorIds == {""} \cup {id[1] : id \in KnownDecoderIds({})}

\* vendorFilter(): no vendor of the database ends like another one.
Filtered(vendor) == {id \in KnownDecoderIds({"NoAliases"}) : vendor \in {"", id[1]}}

Shown(id) == IF id = None THEN <<>> ELSE ChainOf(id)

Init ==
    /\ vendorBox = "" /\ decoderBox \in Filtered("")
    /\ shownTree = Shown(decoderBox)

\* The box keeps its decoder or, as Qt has it, moves on to another one or to none.
OnCurrentVendorChanged(vendor) ==
    /\ vendor # vendorBox /\ vendorBox' = vendor
    /\ decoderBox' \in IF decoderBox \in Filtered(vendor) THEN {decoderBox}
                       ELSE Filtered(vendor) \cup {None}
    /\ shownTree' = Shown(decoderBox')

OnCurrentDecoderChanged(id) ==
    /\ id \in Filtered(vendorBox) \ {decoderBox} /\ decoderBox' = id
    /\ shownTree' = Shown(id)
    /\ UNCHANGED vendorBox

Next ==
    \/ \E vendor \in VendorIds : OnCurrentVendorChanged(vendor)
    \/ \E id \in KnownDecoderIds({}) : OnCurrentDecoderChanged(id)
-----------------------------------------------------------------------------
(* DecoderInfoModel as a tree: an index is a row and what internalId() says  *)
(* of the node and its parent.                                               *)
Root == [row |-> -1, type |-> "Root", parentRow |-> 0]

IndexOf(row, parent) ==
    CASE parent.type = "Root"    -> [row |-> row, type |-> "Decoder", parentRow |-> -1]
      [] parent.type = "Decoder" -> [row |-> row, type |-> "Variable", parentRow |-> parent.row]

ParentOf(index) ==
    IF index.type = "Variable"
    THEN [row |-> index.parentRow, type |-> "Decoder", parentRow |-> -1] ELSE Root

RowCount(index) ==
    CASE index.type = "Root"     -> Len(shownTree)
      [] index.type = "Decoder"  -> Len(VariableIds(shownTree[index.row + 1], {"NoParent"}))
      [] index.type = "Variable" -> 0

\* data(): the definition, or the number of the variable and where its name is from.
Data(index) ==
    LET id == shownTree[(IF index.type = "Variable" THEN ParentOf(index) ELSE index).row + 1]
        variable == VariableIds(id, {"NoParent"})[index.row + 1]
    IN  IF index.type = "Decoder" THEN <<id>>
        ELSE <<variable, Variable(id, variable, {"NoParent"})>>

\* The tree is about the decoder in the box, which is one of the vendor chosen, however
\* the boxes came to it; each of its rows is found again from its children, and shows a
\* variable of the definition above (setDecoderId(), parent() and data()).
DecoderIsShown ==
    /\ decoderBox # None => decoderBox \in Filtered(vendorBox)
    /\ shownTree = Shown(decoderBox)
    /\ \A row \in 0..(RowCount(Root) - 1) :
          LET decoder == IndexOf(row, Root) IN
          \A r \in 0..(RowCount(decoder) - 1) :
              LET index == IndexOf(r, decoder) IN
              /\ ParentOf(index) = decoder /\ ParentOf(decoder) = Root
              /\ Data(index)[2][1] = shownTree[row + 1]
=============================================================================
