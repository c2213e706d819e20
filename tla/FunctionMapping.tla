--------------------------- MODULE FunctionMapping ---------------------------
(* The function mapping of ESU decoders: FunctionMappingModel with its       *)
(* readers and writers (lmrs/esu), and the editors FunctionMappingView puts  *)
(* on its cells (apps/lmrstudio).                                            *)
(*                                                                           *)
(* A row has a list of conditions and three sets of flags.  A decoder keeps  *)
(* it in 20 variables: columns 'A' to 'J' on one page and 'K' to 'T' on      *)
(* another, sixteen rows to a page.                                          *)
(*                                                                           *)
(* Abstractions.  A byte is the set of its bits, and so are flags.  The      *)
(* lines of a file that follow a switch of the page are a block: a function  *)
(* of variables, as their order makes no difference.  The text formats       *)
(* differ in their layout only; a file of the LokProgrammer cannot be read,  *)
(* as one with a bad number cannot.  Editors are modal.                      *)
EXTENDS Integers, SequencesExt, TLC

CONSTANTS
    MaximumCount,   \* rows
    FileNames, None,
    Broken,         \* a file that cannot be read
    Foreign,        \* files somebody else wrote
    UsedPresets,    \* bound: numbers of presets
    EditableRows, EditableConditions, EditableFlags,    \* bounds: what the user edits
    Filters,        \* bound: conditions a filter leaves in the list
    MaxEdits, MaxClicks, MaxShort   \* bounds: edits, clicks in each, writes cut short

(* Condition::Variable, by number: driving, direction, the functions, the    *)
(* wheel sensor, an unused one and the sensors.                              *)
Direction   == 1
Function(n) == n + 2
Unused      == 35
Variables   == 0..39

\* Condition::State.  The two bits can also be 3.
Ignore   == 0
Enabled  == 1
Disabled == 2

MappingAssumption ==
    /\ MaximumCount \in Nat \ {0} /\ UsedPresets \subseteq 1..6
    /\ EditableRows \subseteq 1..MaximumCount /\ EditableConditions \subseteq Variables \ {Unused}
    /\ {MaxEdits, MaxClicks, MaxShort} \subseteq Nat

VARIABLES
    mapping,    \* m_rows
    editor,     \* the editor of a cell, or None
    disk,       \* file name -> blocks of a file
    saved,      \* history: file name -> the rows that were written to it
    clicked,    \* history: what the user clicked at in the editor
    edits, shortened

vars == <<mapping, editor, disk, saved, clicked, edits, shortened>>

FlagGroups == {"outputs", "effects", "sounds"}
Groups     == FlagGroups \union {"conditions"}

-----------------------------------------------------------------------------
(* Presets.                                                                  *)

Row(conditions, outputs, effects) ==
    [conditions |-> conditions, outputs |-> outputs, effects |-> effects, sounds |-> {}]

EmptyRow == Row(<<>>, {}, {})

Condition(variable, state) == [variable |-> variable, state |-> state]
On(n)  == Condition(Function(n), Enabled)
Lights == << Row(<<Condition(Direction, Enabled), On(0)>>, {0}, {}),
             Row(<<Condition(Direction, Disabled), On(0)>>, {1}, {}) >>

\* fillLokPilot5(): F3 and F4 are no outputs.
LokPilot5(outputCount) ==
    Lights
    \o << Row(<<On(1)>>, {2}, {}), Row(<<On(2)>>, {3}, {}),
          Row(<<On(3)>>, {}, {1}), Row(<<On(4)>>, {}, {11}) >>
    \o [i \in 1..outputCount - 2 |-> Row(<<On(i + 4)>>, {i + 3}, {})]

\* fillLokPilot5Fx()
LokPilot5Fx(outputCount) ==
    Lights \o [i \in 1..outputCount |-> Row(<<On(i)>>, {i + 1}, {})]

\* The presets of reset(), but for the LokSound's, which has a table.
Presets == << <<>>, LokPilot5(12), LokPilot5(4), LokPilot5(7),
              LokPilot5Fx(12), LokPilot5Fx(6) >>

\* reset(): the rows are filled up with empty ones.
Filled(preset) == preset \o [i \in 1..MaximumCount - Len(preset) |-> EmptyRow]

-----------------------------------------------------------------------------
(* Rows, counted from 0, and variables.                                      *)

Bit(n, k) == (n \div 2^k) % 2 = 1

\* conditionsPage() and operationsPage()
PageOf(group, row) == <<16, row \div 16 + (IF group = "conditions" THEN 3 ELSE 8)>>

\* A slip: the sounds begin where the effects end by their number of flags.
BaseOverlapping(group, row) ==
    257 + ((row * 16) % 256)
    + CASE group = "effects" -> 3 [] group = "sounds" -> 5 [] OTHER -> 0

\* mappingBase(), outputsBase(), effectsBase(), soundsBase()
Base(group, row) ==
    257 + ((row * 16) % 256)
    + CASE group = "effects" -> 3 [] group = "sounds" -> 6 [] OTHER -> 0

\* Columns 'A' to 'J', 'K' to 'M', 'N' to 'P', 'Q' to 'T'
Columns == [conditions |-> 10, outputs |-> 3, effects |-> 3, sounds |-> 4]

\* variableValue(): two bits for each of four conditions, a bit for each of
\* eight flags.
ValueOf(group, contents, index) ==
    IF group = "conditions"
    THEN {b \in 0..7 : \E i \in DOMAIN contents :
                           /\ contents[i].variable = 4 * index + b \div 2
                           /\ Bit(contents[i].state, b % 2)}
    ELSE {b \in 0..7 : 8 * index + b \in contents}

LastRow == MaximumCount - 1
MappingPages ==
    [i \in 1..2 * (LastRow \div 16 + 1) |->
        IF i <= LastRow \div 16 + 1 THEN <<16, i + 2>> ELSE <<16, i - LastRow \div 16 + 6>>]

\* variablesFromMappings(), the variables of one page: a later group overwrites
\* an earlier one.
VariablesOn(page, rows) ==
    LET RowAt(r)  == IF r < Len(rows) THEN rows[r + 1] ELSE EmptyRow
        Part(g, r) == [cv \in {Base(g, r) + i : i \in 0..Columns[g] - 1} |->
                           ValueOf(g, RowAt(r)[g], cv - Base(g, r))]
        Here(g)   == {r \in 0..LastRow : PageOf(g, r) = page}
        Joined(f, g) == FoldSet(LAMBDA r, w : Part(g, r) @@ w, f, Here(g))
    IN  FoldLeft(Joined, <<>>, <<"conditions", "outputs", "effects", "sounds">>)

\* mappingsFromVariables(), for one row; variables that are missing are 0.
RowFrom(variables, row) ==
    LET Value(g, i) ==
            LET page == PageOf(g, row)
                cv   == Base(g, row) + i
            IN  IF page \in DOMAIN variables /\ cv \in DOMAIN variables[page]
                THEN variables[page][cv] ELSE {}
        State(v) == LET b == 2 * (v % 4) IN
            (IF b \in Value("conditions", v \div 4) THEN 1 ELSE 0)
            + (IF b + 1 \in Value("conditions", v \div 4) THEN 2 ELSE 0)
        Flags(g) == UNION {{8 * i + b : b \in Value(g, i)} : i \in 0..Columns[g] - 1}
    IN  [conditions |-> SelectSeq([i \in 1..40 |-> Condition(i - 1, State(i - 1))],
                                  LAMBDA c : c.state # Ignore),
         outputs |-> Flags("outputs"), effects |-> Flags("effects"), sounds |-> Flags("sounds")]

\* The last rows are dropped while they are empty.
Trimmed(rows) ==
    SubSeq(rows, 1, Max({0} \union {i \in DOMAIN rows : rows[i] # EmptyRow}))

MappingsFrom(variables) == Trimmed([i \in 1..MaximumCount |-> RowFrom(variables, i - 1)])

-----------------------------------------------------------------------------
(* Files.                                                                    *)

Block(cv31, cv32, values) == [cv31 |-> cv31, cv32 |-> cv32, values |-> values]

\* write() of both writers: CV31 and CV32 whenever the page changes.
Written(rows) ==
    [i \in DOMAIN MappingPages |->
        LET page == MappingPages[i] IN Block(page[1], page[2], VariablesOn(page, rows))]

\* extendedVariable(): an index below 256 counts from the start of the page.
Extended(values) ==
    LET Moved(cv) == IF cv < 256 THEN cv + 257 ELSE cv
    IN  IF \A cv \in DOMAIN values : cv >= 256 THEN values
        ELSE [x \in {Moved(cv) : cv \in DOMAIN values} |->
                  values[CHOOSE cv \in DOMAIN values : Moved(cv) = x]]

\* readVariable(): CV31 and CV32 each change their half of the page.
ReadBlock(w, block) ==
    LET page == <<IF block.cv31 = None THEN w.page[1] ELSE block.cv31,
                  IF block.cv32 = None THEN w.page[2] ELSE block.cv32>>
        old  == IF page \in DOMAIN w.variables THEN w.variables[page] ELSE <<>>
    IN  [page |-> page, variables |-> (page :> (Extended(block.values) @@ old)) @@ w.variables]

\* read() of the readers
MappingsIn(blocks) ==
    MappingsFrom(FoldLeft(ReadBlock, [page |-> <<0, 0>>, variables |-> <<>>], blocks).variables)

Init ==
    /\ mapping = Filled(LokPilot5(12)) /\ editor = None
    /\ disk \in [FileNames -> Foreign \union {None, Broken}]
    /\ saved = [n \in FileNames |-> None]
    /\ clicked = {} /\ edits = 0 /\ shortened = 0

\* makeResetAction(): the manager is not asked.
Reset ==
    /\ editor = None
    /\ \E n \in UsedPresets : mapping' = Filled(Presets[n])
    /\ UNCHANGED <<editor, disk, saved, clicked, edits, shortened>>

\* readFile(): the view gets a new model, unless the file cannot be read.
Open ==
    /\ editor = None
    /\ \E n \in FileNames :
           /\ disk[n] \notin {None, Broken}
           /\ mapping' = MappingsIn(disk[n])
    /\ UNCHANGED <<editor, disk, saved, clicked, edits, shortened>>

\* writeFile() by saveAs(); save() is never enabled, as nobody marks the mapping
\* as modified.  That a write comes to its end is not checked.
SaveAs ==
    /\ editor = None
    /\ \E n \in FileNames :
           \/ /\ disk' = [disk EXCEPT ![n] = Written(mapping)]
              /\ saved' = [saved EXCEPT ![n] = mapping]
              /\ UNCHANGED shortened
           \/ /\ shortened < MaxShort /\ shortened' = shortened + 1
              /\ \E k \in 0..Len(MappingPages) - 1 :
                     disk' = [disk EXCEPT ![n] = SubSeq(Written(mapping), 1, k)]
              /\ saved' = [saved EXCEPT ![n] = None]
    /\ UNCHANGED <<mapping, editor, clicked, edits>>

-----------------------------------------------------------------------------
(* Editors.                                                                  *)

\* The conditions and flags an editor lists.
Listed == [i \in 1..39 |-> IF i - 1 < Unused THEN i - 1 ELSE i]
Known  == [outputs |-> 0..23, effects |-> 0..21, sounds |-> 0..31]

\* Mapping::state(): the first one counts.
StateOf(row, variable) ==
    LET found == {i \in DOMAIN row.conditions : row.conditions[i].variable = variable}
    IN  IF found = {} THEN Ignore ELSE row.conditions[Min(found)].state

\* createEditor(), setEditorData()
OpenEditor ==
    /\ editor = None /\ edits < MaxEdits /\ edits' = edits + 1
    /\ \E r \in EditableRows \intersect DOMAIN mapping, g \in Groups :
           editor' = [row |-> r, group |-> g, misled |-> FALSE,
                      checked |-> IF g = "conditions"
                                  THEN [v \in ToSet(Listed) |-> StateOf(mapping[r], v)]
                                  ELSE mapping[r][g] \intersect Known[g]]
    /\ clicked' = {}
    /\ UNCHANGED <<mapping, disk, saved, shortened>>

MayClick(group) == editor # None /\ editor.group = group /\ Cardinality(clicked) < MaxClicks

\* onItemClicked(): a row of the list that is shown is taken as one of the whole
\* list, which is another one if a filter is set.
ClickCondition ==
    /\ MayClick("conditions")
    /\ \E shown \in Filters \union {Listed}, state \in {Ignore, Enabled, Disabled} :
       \E k \in DOMAIN shown :
           /\ shown[k] \in EditableConditions
           /\ editor' = [editor EXCEPT !.checked[Listed[k]] = state,
                                       !.misled = @ \/ Listed[k] # shown[k]]
           /\ clicked' = clicked \union {shown[k]}
    /\ UNCHANGED <<mapping, disk, saved, edits, shortened>>

\* A flag is checked or unchecked.
ClickFlag ==
    /\ \E g \in FlagGroups, flag \in EditableFlags :
           /\ MayClick(g) /\ flag \in Known[g] \ clicked
           /\ editor' = [editor EXCEPT !.checked = SymDiff(@, {flag})]
           /\ clicked' = clicked \union {flag}
    /\ UNCHANGED <<mapping, disk, saved, edits, shortened>>

\* A slip: a new row is made of what the editor knows.
StoredAlone(row, group, checked) ==
    IF group = "conditions"
    THEN [EmptyRow EXCEPT !.conditions =
              SelectSeq([i \in DOMAIN Listed |-> Condition(Listed[i], checked[Listed[i]])],
                        LAMBDA c : c.state \in {Enabled, Disabled})]
    ELSE [row EXCEPT ![group] = checked]

\* store(): conditions that are not ignored, in the order of the list.
Stored(row, group, checked) ==
    IF group = "conditions"
    THEN [row EXCEPT !.conditions =
              SelectSeq([i \in DOMAIN Listed |-> Condition(Listed[i], checked[Listed[i]])],
                        LAMBDA c : c.state \in {Enabled, Disabled})]
    ELSE [row EXCEPT ![group] = checked]

\* The editor is closed: setModelData(), unless by Escape.
CloseEditor ==
    /\ editor # None /\ editor' = None
    /\ mapping' \in {mapping, [mapping EXCEPT ![editor.row] =
                                   Stored(@, editor.group, editor.checked)]}
    /\ UNCHANGED <<disk, saved, clicked, edits, shortened>>

Next ==
    \/ Reset \/ Open \/ SaveAs
    \/ OpenEditor \/ ClickCondition \/ ClickFlag \/ CloseEditor

Spec == Init /\ [][Next]_vars

-----------------------------------------------------------------------------
(* Properties.                                                               *)

\* Every variable has its type.
TypeOK ==
    /\ mapping \in Seq([conditions : Seq([variable : Variables, state : 1..3]),
                        outputs : SUBSET (0..23), effects : SUBSET (0..23),
                        sounds : SUBSET (0..31)])
    /\ Len(mapping) <= MaximumCount
    /\ editor # None => editor.row \in DOMAIN mapping /\ editor.group \in Groups
    /\ edits \in 0..MaxEdits /\ shortened \in 0..MaxShort

\* A row as a decoder keeps it: conditions by variable, each once.
Normal(row) ==
    LET StateIn(v) ==
            LET states == {row.conditions[i].state :
                               i \in {j \in DOMAIN row.conditions : row.conditions[j].variable = v}}
            IN  (IF \E s \in states : Bit(s, 0) THEN 1 ELSE 0)
                + (IF \E s \in states : Bit(s, 1) THEN 2 ELSE 0)
    IN  [row EXCEPT !.conditions =
             SelectSeq([i \in 1..40 |-> Condition(i - 1, StateIn(i - 1))],
                       LAMBDA c : c.state # Ignore)]

\* A mapping that has been written to a file, over all its pages, is read from
\* it again, however it was edited and read before (variablesFromMappings(),
\* write(), readVariable(), mappingsFromVariables()).
FilesKeepMappings ==
    \A n \in FileNames :
        saved[n] # None =>
            MappingsIn(disk[n]) = Trimmed([i \in DOMAIN saved[n] |-> Normal(saved[n][i])])

\* Using an editor leaves alone what the user did not click at, in the row and in
\* all others, unless the list was filtered; it shows no "unused" condition, nor
\* a state with both bits, which are lost (reset(), store() of the editors).
EditsTouchTheirCell ==
    [][editor # None /\ ~editor.misled /\ editor' = None =>
           /\ Len(mapping') = Len(mapping)
           /\ \A r \in DOMAIN mapping :
                  /\ \A v \in ToSet(Listed) :
                         (r = editor.row => editor.group # "conditions" \/ v \notin clicked)
                         /\ StateOf(mapping[r], v) # 3
                             => StateOf(mapping'[r], v) = StateOf(mapping[r], v)
                  /\ \A g \in FlagGroups, flag \in 0..31 :
                         (r = editor.row => editor.group # g \/ flag \notin clicked)
                         /\ flag \in Known[g]
                             => (flag \in mapping'[r][g] <=> flag \in mapping[r][g])
      ]_vars
=============================================================================
