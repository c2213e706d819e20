--------------------------- MODULE VariableEditor ----------------------------
(* The page of lmrstudio that reads and writes the variables of decoders     *)
(* (variableeditorview.cpp), and the tree of what was read                   *)
(* (core/variabletreemodel.cpp).                                             *)
(*                                                                           *)
(* The boxes of the page set each other through their signals, which run at  *)
(* once and within each other.  Calls of the variable control are answered   *)
(* one variable after the other, while the user goes on; VariableControl     *)
(* says how they are retried: here a call is answered or given up.           *)
(*                                                                           *)
(* Left out: setCurrentVehicle(), which nobody calls.                        *)
EXTENDS DecoderInfo

CONSTANTS
    Vehicle, Identity,      \* ids of the definitions
    Selectable,             \* variables, addresses and bytes the user enters
    Addresses,
    Bytes,
    Memories,               \* what may be stored in a decoder: number -> byte
    WideTypes,              \* variableType() of variables that are not U8: 16 or 32
    MaxActs,                \* bound: what the user does
    MaxCalls                \* bound: calls under way

VARIABLES
    boxes,      \* the boxes of the page, see BoxesType
    control,    \* "none", or what the device's variable control can do
    rows,       \* VariableModel::m_rows
    calls,      \* calls under way: [kind, vehicle, left], and the value of a write
    memory,     \* the decoder
    told,       \* history: variables told since the rows were cleared, the last one last,
                \* with their values
    acts

vars == <<boxes, control, rows, calls, memory, told, acts>>

BoxesType ==
    [address : Addresses \cup {0},      \* 0: direct mode
     vehicle : Addresses,               \* currentVehicle
     variable : Selectable,
     page : 0..65535, upper : 0..255, lower : 0..255, bank : 0..255,
     stack : {"regular", "extended", "susi"},   \* pageModeStack
     bits : {8, 16, 32},
     value : Nat]

-----------------------------------------------------------------------------
(* VariableModel.                                                            *)

VariableValue(seq, variable) ==
    LET at == {i \in DOMAIN seq : seq[i].variable = variable}
    IN  IF at = {} THEN 0 ELSE seq[Min(at)].value8

DecoderId(seq) == IdOf(VariableValue(seq, 8), VariableValue(seq, 7))

KnownVariables ==
    LET own == VariableIds(DecoderId(rows), {"NoUnsupported"})
    IN  IF own # <<>> THEN own ELSE VariableIds(Vehicle, {})

NoInfo == [type |-> "", flags |-> 0, fields |-> <<>>]

InfoAt(found) == IF found = <<>> THEN NoInfo ELSE Definitions[found[1]].variables[found[2]]

FirstOf(found, other) == IF found # <<>> THEN found ELSE other

\* The decoder's definition, what it extends and RailCom come before the base type.
VariableInfo(seq, variable) ==
    InfoAt(FirstOf(IF DecoderId(seq) \in DOMAIN Definitions
                   THEN Variable(DecoderId(seq), variable, {}) ELSE <<>>,
                   Variable(Vehicle, variable, {})))

Word(high, low) == (256 * high) + low

Row(variable, info) ==
    [variable |-> variable, type |-> info.type, value8 |-> 0, value16 |-> 0, value32 |-> 0,
     wide |-> 8, flags |-> info.flags > 0, fields |-> info.fields # <<>>,
     fieldFlags |-> \E i \in DOMAIN info.fields : info.fields[i].flags > 0]

\* The number that several bytes make.  A new upper byte is merged with itself until
\* the lower one is told; of four bytes, the first one merges them all.
Merged(seq, at, variable, value) ==
    CASE seq[at].type = "U16H" ->
            [seq EXCEPT ![at].value16 = Word(value, value), ![at].wide = 16]
      [] seq[at].type = "U16L" ->
            [i \in DOMAIN seq |->
                IF seq[i].variable = variable - 1
                THEN [seq[i] EXCEPT !.value16 = Word(seq[i].value8, value), !.wide = 16]
                ELSE seq[i]]
      [] /\ seq[at].type = "U32A"
         /\ variable..(variable + 3) \subseteq {seq[i].variable : i \in DOMAIN seq} ->
            [seq EXCEPT ![at].wide = 32, ![at].value32 =
                MapThenSumSet(LAMBDA b : VariableValue(seq, variable + b) * (256 ^ b), 0..3)]
      [] OTHER -> seq

\* updateVariable().  The type of a row is what it was when the row came.
Updated(seq, variable, value) ==
    LET after == {i \in DOMAIN seq : seq[i].variable >= variable}
        at    == IF after = {} THEN Len(seq) + 1 ELSE Min(after)
        held  == IF at \in DOMAIN seq /\ seq[at].variable = variable
                 THEN seq ELSE InsertAt(seq, at, Row(variable, VariableInfo(seq, variable)))
    IN  Merged([held EXCEPT ![at].value8 = value], at, variable, value)

\* Row::description(): the number that a text is made of.
Described(row, info) ==
    IF info.type = "" THEN (IF info.flags > 0 THEN row.value8 ELSE 0)
    ELSE CASE row.wide = 16 -> row.value16
           [] row.wide = 32 -> row.value32
           [] OTHER -> row.value8

\* rowCount() and childData(): bits come before fields, which are told by the row.
Children(row, info) == (IF row.flags THEN info.flags ELSE 0) + (IF row.fields THEN Len(info.fields) ELSE 0)

ChildValue(row, info, i) ==
    IF row.flags /\ i < info.flags THEN (row.value8 \div (2 ^ i)) % 2
    ELSE IF i < Len(info.fields) THEN FieldValue(info.fields, i + 1, row.value8) ELSE 0

-----------------------------------------------------------------------------
(* The boxes.  Each function yields the boxes after a box was told a value,  *)
(* and the calls that its handlers make.                                     *)

State(b, asks) == [b |-> b, asks |-> asks]

SpaceOf(variable) ==
    CASE variable \in Dcc!SpaceRange.Extended -> "extended"
      [] variable \in Dcc!SpaceRange.Susi     -> "susi"
      [] OTHER                                -> "regular"

CurrentVariable(b) ==
    CASE SpaceOf(b.variable) = "extended" -> Dcc!ExtendedVariable(b.variable, b.page)
      [] SpaceOf(b.variable) = "susi"     -> Dcc!SusiVariable(b.variable, b.bank)
      [] OTHER                            -> b.variable

\* updateExtendedPageIndex() and updateSusiPageIndex().
PageCall(b, space) ==
    [kind |-> space, vehicle |-> b.vehicle,
     left |-> IF space = "extended" THEN <<31, 32>> ELSE <<1021>>]

MaximumOf(bits) == CASE bits = 8 -> 255 [] bits = 16 -> 65535 [] bits = 32 -> 2147483647

SetBits(b, bits) ==
    [b EXCEPT !.bits = bits, !.value = IF @ > MaximumOf(bits) THEN MaximumOf(bits) ELSE @]

BitsOf(variable) == IF variable \in DOMAIN WideTypes THEN WideTypes[variable] ELSE 8

OnVariableBoxChanged(s) ==
    LET space == SpaceOf(s.b.variable)
        asks  == IF space \in {"regular", s.b.stack} THEN <<>> ELSE <<PageCall(s.b, space)>>
    IN  State(SetBits([s.b EXCEPT !.stack = space], BitsOf(CurrentVariable(s.b))), s.asks \o asks)

RECURSIVE SetPage(_, _)

\* A slip of the next definition: the page is not told.
SetHalfAlone(s, half, byte) == State([s.b EXCEPT ![half] = byte], s.asks)

\* onPageIndexUpperLowerBoxChanged().
SetHalf(s, half, byte) ==
    IF s.b[half] = byte THEN s
    ELSE LET b == [s.b EXCEPT ![half] = byte]
         IN  SetPage(State(b, s.asks), Word(b.upper, b.lower))

\* onExtendedPageBoxChanged(): setting the upper box has the page set to a mixture.
SetPage(s, page) ==
    IF s.b.page = page THEN s
    ELSE LET upper == SetHalf(State([s.b EXCEPT !.page = page], s.asks), "upper", page \div 256)
         IN  OnVariableBoxChanged(SetHalf(upper, "lower", page % 256))

SetBank(s, bank) ==
    IF s.b.bank = bank THEN s ELSE OnVariableBoxChanged(State([s.b EXCEPT !.bank = bank], s.asks))

\* onAddressBoxChanged(): direct mode leaves the current vehicle as it is.
SetAddress(s, address) ==
    IF s.b.address = address THEN s
    ELSE LET b == [s.b EXCEPT !.address = address,
                              !.vehicle = IF address = 0 THEN @ ELSE address]
             asks == IF SpaceOf(b.variable) = "regular" THEN <<>>
                     ELSE <<PageCall(b, SpaceOf(b.variable))>>
         IN  State(b, s.asks \o asks)

SetVariable(s, variable) ==
    IF s.b.variable = variable THEN s
    ELSE OnVariableBoxChanged(State([s.b EXCEPT !.variable = variable], s.asks))

-----------------------------------------------------------------------------
(* A decoder may have been identified before.                                *)
Init ==
    /\ boxes = [address |-> 0, vehicle |-> 3, variable |-> Min(Selectable), page |-> 0,
                upper |-> 0, lower |-> 0, bank |-> 0, stack |-> "regular", bits |-> 8, value |-> 0]
    /\ control = "none" /\ calls = <<>> /\ acts = 0 /\ memory \in Memories
    /\ told \in {<<>>, <<<<7, memory[7]>>, <<8, memory[8]>>>>}
    /\ rows = FoldLeft(LAMBDA seq, t : Updated(seq, t[1], t[2]), <<>>, told)

Told(s) ==
    /\ Len(calls) + Len(s.asks) <= MaxCalls
    /\ boxes' = s.b /\ calls' = calls \o s.asks

Act(s) == acts < MaxActs /\ acts' = acts + 1 /\ Told(s)

Now == State(boxes, <<>>)

\* setVariableControl(): without programming on the main the address box is disabled.
SetVariableControl(new) ==
    /\ new # control /\ control' = new
    /\ Told(CASE new = "main"    -> SetAddress(SetAddress(Now, 0), boxes.vehicle)
              [] new = "service" -> IF boxes.address = 0 THEN SetAddress(Now, 1) ELSE Now
              [] new = "none"    -> Now)
    /\ UNCHANGED <<rows, memory, told, acts>>

\* What the user enters.
EnterAddress(address) ==
    /\ control = "main" /\ address # boxes.address
    /\ Act(SetAddress(Now, address))
    /\ UNCHANGED <<control, rows, memory, told>>

EnterVariable(variable) ==
    /\ control # "none" /\ variable # boxes.variable
    /\ Act(SetVariable(Now, variable))
    /\ UNCHANGED <<control, rows, memory, told>>

EnterPage(s) ==
    /\ control # "none" /\ s.b # boxes
    /\ Act(s)
    /\ UNCHANGED <<control, rows, memory, told>>

EnterPages ==
    \/ /\ boxes.stack = "extended"
       /\ \E byte \in Bytes :
             \/ EnterPage(SetHalf(Now, "upper", byte))
             \/ EnterPage(SetHalf(Now, "lower", byte))
             \/ \E low \in Bytes : EnterPage(SetPage(Now, Word(byte, low)))
    \/ boxes.stack = "susi" /\ \E byte \in Bytes : EnterPage(SetBank(Now, byte))

EnterValue(value) ==
    /\ control # "none" /\ value <= MaximumOf(boxes.bits) /\ value # boxes.value
    /\ Act(State([boxes EXCEPT !.value = value], <<>>))
    /\ UNCHANGED <<control, rows, memory, told>>

\* The buttons.
Call(kind, vehicle, left) == [kind |-> kind, vehicle |-> vehicle, left |-> left]

ReadVariable ==
    /\ control # "none"
    /\ Act(State(boxes, <<Call("read", boxes.vehicle, <<CurrentVariable(boxes)>>)>>))
    /\ UNCHANGED <<control, rows, memory, told>>

\* The value is cut to a byte.
WriteVariable ==
    /\ control # "none"
    /\ Act(State(boxes, <<Call("write", boxes.vehicle, <<CurrentVariable(boxes)>>)
                              @@ [value |-> boxes.value % 256]>>))
    /\ UNCHANGED <<control, rows, memory, told>>

ReadAllVariables ==
    /\ control # "none"
    /\ Act(State(boxes, <<Call("all", boxes.address, KnownVariables)>>))
    /\ UNCHANGED <<control, rows, memory, told>>

Identify ==
    /\ control # "none"
    /\ Act(State(boxes, <<Call("all", boxes.address, VariableIds(Identity, {}))>>))
    /\ rows' = <<>> /\ told' = <<>>
    /\ UNCHANGED <<control, memory>>

ClearReadings ==
    /\ control # "none" /\ rows # <<>>
    /\ Act(Now)
    /\ rows' = <<>> /\ told' = <<>>
    /\ UNCHANGED <<control, memory>>

-----------------------------------------------------------------------------
\* What is stored where an index leads to, and what getting there changes: see
\* VariableControl.
Paged(variable) ==
    CASE Dcc!HasExtendedPage(variable) ->
            (31 :> Dcc!Cv31(variable)) @@ (32 :> Dcc!Cv32(variable)) @@ memory
      [] Dcc!HasSusiPage(variable) -> (1021 :> Dcc!SusiPage(variable)) @@ memory
      [] OTHER -> memory

Stored(cells, variable) == IF variable \in DOMAIN cells THEN cells[variable] ELSE 0

\* The callbacks: the value box is told whatever is selected by now.
OnResult(i) ==
    LET call     == calls[i]
        variable == Head(call.left)
        cells    == IF call.kind = "write" THEN (variable :> call.value) @@ Paged(variable)
                    ELSE Paged(variable)
        value    == Stored(cells, variable)
        s == CASE call.kind = "extended" ->
                     SetHalf(Now, IF variable = 31 THEN "upper" ELSE "lower", value)
               [] call.kind = "susi" -> SetBank(Now, value)
               [] call.kind \in {"read", "write"} -> State([boxes EXCEPT !.value = value], <<>>)
               [] OTHER -> Now
    IN  /\ Len(calls) + Len(s.asks) <= MaxCalls
        /\ memory' = cells
        /\ boxes' = s.b
        /\ rows' = Updated(rows, variable, value)
        /\ told' = Append(SelectSeq(told, LAMBDA t : t[1] # variable), <<variable, value>>)
        /\ calls' = (IF Len(call.left) = 1 THEN RemoveAt(calls, i)
                     ELSE [calls EXCEPT ![i].left = Tail(@)]) \o s.asks
    /\ UNCHANGED <<control, acts>>

\* A call is given up after too many failures, or goes with its device.
GiveUp(i) ==
    /\ calls' = RemoveAt(calls, i)
    /\ UNCHANGED <<boxes, control, rows, memory, told, acts>>

Next ==
    \/ \E new \in {"none", "main", "service"} : SetVariableControl(new)
    \/ \E address \in Addresses \cup {0} : EnterAddress(address)
    \/ \E variable \in Selectable : EnterVariable(variable)
    \/ EnterPages
    \/ \E value \in {7, 300} : EnterValue(value)
    \/ ReadVariable \/ WriteVariable \/ ReadAllVariables \/ Identify \/ ClearReadings
    \/ \E i \in DOMAIN calls : OnResult(i) \/ GiveUp(i)
-----------------------------------------------------------------------------
TypeOK ==
    /\ boxes \in BoxesType /\ control \in {"none", "main", "service"}
    /\ acts \in 0..MaxActs /\ Len(calls) <= MaxCalls

\* The boxes of the page mean one page however it was entered or read, though each of
\* them sets the others (onExtendedPageBoxChanged(), onPageIndexUpperLowerBoxChanged());
\* what is asked for is of the vehicle in the box, unless that says direct mode.
BoxesAgree ==
    /\ boxes.page = Word(boxes.upper, boxes.lower)
    /\ boxes.stack = SpaceOf(boxes.variable)
    /\ boxes.bits = BitsOf(CurrentVariable(boxes)) /\ boxes.value <= MaximumOf(boxes.bits)
    /\ boxes.address # 0 => boxes.vehicle = boxes.address

\* The rows have each variable once, in order, with the value told last, whatever order
\* the calls told them in (updateVariable()).
RowsAreTold ==
    /\ \A i \in 1..(Len(rows) - 1) : rows[i].variable < rows[i + 1].variable
    /\ {<<rows[i].variable, rows[i].value8>> : i \in DOMAIN rows} = ToSet(told)

\* Of bytes that make one number, the text is that number once the last byte was told:
\* of two the lower one, of four the first one.
LastTold(variable, others) ==
    LET at(v) == {i \in DOMAIN told : told[i][1] = v}
    IN  /\ at(variable) # {}
        /\ \A v \in others : at(v) # {} /\ Min(at(v)) < Min(at(variable))

NumbersAreWhole ==
    \A row \in ToSet(rows) :
        LET v == row.variable
            byte(i) == VariableValue(rows, v + i)
        IN  /\ /\ row.type = "U16H" /\ LastTold(v + 1, {v})
               /\ \E low \in ToSet(rows) : low.variable = v + 1 /\ low.type = "U16L"
               => Described(row, VariableInfo(rows, v)) = Word(row.value8, byte(1))
            /\ row.type = "U32A" /\ LastTold(v, {v + 1, v + 2, v + 3})
               => row.wide = 32 /\ row.value32 =
                        row.value8 + 256 * (byte(1) + 256 * (byte(2) + 256 * byte(3)))

\* What is shown below a row is the row's value in parts (childData(), DecoderField).
PartsAreShown ==
    \A row \in {r \in ToSet(rows) : r.flags \/ r.fields} :
        LET info  == VariableInfo(rows, row.variable)
            place(i) == IF info.flags > 0 THEN i ELSE Offset(info.fields, i + 1)
            bits  == IF info.flags > 0 THEN info.flags ELSE Offset(info.fields, Len(info.fields) + 1)
        IN  Children(row, info) > 0 =>
                row.value8 % (2 ^ bits) =
                    MapThenSumSet(LAMBDA i : ChildValue(row, info, i) * (2 ^ place(i)),
                                  0..(Children(row, info) - 1))

EditorAgrees == BoxesAgree /\ RowsAreTold /\ NumbersAreWhole /\ PartsAreShown
=============================================================================
