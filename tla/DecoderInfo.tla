----------------------------- MODULE DecoderInfo -----------------------------
(* What lmrs knows about the variables of decoders (core/decoderinfo.cpp).   *)
(* A definition extends another; its variables have keys of a page and a     *)
(* number.  A decoder's id is a pair of texts, vendor and type.  Of a        *)
(* variable it matters how it is typed and divided; the wording of names,    *)
(* values and flags is left out.                                             *)
EXTENDS Integers, SequencesExt, FiniteSetsExt, TLC

CONSTANTS
    Definitions,    \* id -> [extends : id, unsupported : numbers, variables : key -> variable]
    PageDefs,       \* alias -> <<CV31, CV32>> or <<bank>>
    Railcom         \* id of the definition that lookups fall back to

Dcc == INSTANCE DccRequests

\* "vendor:type" of two numbers.
IdOf(vendor, type) == <<ToString(vendor), ToString(type)>>

Parents == {Definitions[id].extends : id \in DOMAIN Definitions}

\* A definition and all that it extends, as far as they exist.
Chain ==
    [id \in DOMAIN Definitions \cup Parents |->
        LET chain[i \in DOMAIN Definitions \cup Parents] ==
                IF i \in DOMAIN Definitions THEN <<i>> \o chain[Definitions[i].extends] ELSE <<>>
        IN  chain[id]]

ChainOf(id) == IF id \in DOMAIN Definitions THEN Chain[id] ELSE <<>>

Searched(id, filters) ==
    IF "NoParent" \in filters THEN SubSeq(ChainOf(id), 1, 1) ELSE ChainOf(id)

Unsupported(id) == IF id \in DOMAIN Definitions THEN Definitions[id].unsupported ELSE {}

PageAlias(pointer) == {alias \in DOMAIN PageDefs : PageDefs[alias] = pointer}

\* The keys that a variable may have, the best one first.
Candidates(index) ==
    LET number == Dcc!VariableIndex(index)
        paged(page, pointer) ==
            FoldSet(LAMBDA alias, keys : <<<<alias, number - 257>>, <<alias, number>>>> \o keys,
                    <<<<ToString(page), number>>>>, PageAlias(pointer))
    IN  CASE number \in Dcc!SpaceRange.Extended ->
                paged(Dcc!ExtendedPage(index), <<Dcc!Cv31(index), Dcc!Cv32(index)>>)
          [] number \in Dcc!SpaceRange.Susi ->
                paged(Dcc!SusiPage(index), <<Dcc!SusiPage(index)>>)
          [] OTHER -> IF index # number THEN <<<<"", index>>, <<"", number>>>>
                      ELSE <<<<"", number>>>>

\* Where a variable is described: <<definition, key>>, or <<>>.
Found(ids, keys) ==
    LET hits(id) == {k \in DOMAIN keys : keys[k] \in DOMAIN Definitions[id].variables}
        knows == {i \in DOMAIN ids : hits(ids[i]) # {}}
    IN  IF knows = {} THEN <<>> ELSE <<ids[Min(knows)], keys[Min(hits(ids[Min(knows)]))]>>

\* RailCom's definition comes last, unless there is no falling back.
Variable(id, index, filters) ==
    IF "NoUnsupported" \in filters /\ index \in Unsupported(id) THEN <<>>
    ELSE Found(Searched(id, filters)
                   \o (IF "NoFallback" \in filters THEN <<>> ELSE ChainOf(Railcom)),
               Candidates(index))

OnExtendedPage(key) == key[1] \in DOMAIN PageDefs /\ Len(PageDefs[key[1]]) = 2

\* Keys of an alias count from the start of the page.
Number(key) == IF OnExtendedPage(key) THEN key[2] + 257 ELSE key[2]

Index(key) ==
    IF OnExtendedPage(key)
    THEN Dcc!ExtendedVariable(Number(key), (256 * PageDefs[key[1]][1]) + PageDefs[key[1]][2])
    ELSE key[2]

Sorted(numbers) ==
    [i \in 1..Cardinality(numbers) |->
        CHOOSE n \in numbers : Cardinality({m \in numbers : m < n}) = i - 1]

VariableIds(id, filters) ==
    LET listed(d) == {key \in DOMAIN Definitions[d].variables :
                         "NoUnsupported" \in filters => Number(key) \notin Unsupported(id)}
    IN  Sorted(UNION {{Index(key) : key \in listed(d)} : d \in ToSet(Searched(id, filters))})

\* Definitions with variables, and those that only give another one a name.
KnownDecoderIds(filters) ==
    {id \in DOMAIN Definitions :
        \/ DOMAIN Definitions[id].variables # {}
        \/ "NoAliases" \notin filters /\ Definitions[id].extends # <<"", "">>}

\* The bits of a field follow those of the fields before it; a digit is decimal.
Offset(fields, i) == FoldLeft(LAMBDA sum, field : sum + field.width, 0, SubSeq(fields, 1, i - 1))

FieldValue(fields, i, value) ==
    IF "bcd" \in DOMAIN fields[i]
    THEN (IF fields[i].bcd = 0 THEN value ELSE value \div 10) % 10
    ELSE (value \div (2 ^ Offset(fields, i))) % (2 ^ fields[i].width)
-----------------------------------------------------------------------------
\* Every id that variableIds() lists of a definition is looked up by variable() as the
\* variable it was listed for, each once: the tree of the database shows what is there.
ListedIsFound ==
    \A id \in DOMAIN Definitions :
        LET ids == VariableIds(id, {"NoParent"})
        IN  /\ Len(ids) = Cardinality(DOMAIN Definitions[id].variables)
            /\ {Variable(id, ids[i], {"NoParent", "NoFallback"}) : i \in DOMAIN ids}
                    = {<<id, key>> : key \in DOMAIN Definitions[id].variables}

\* What is read of a decoder can be described: knownVariables() and variableInfo().
SupportedIsDescribed ==
    \A id \in DOMAIN Definitions :
        \A index \in ToSet(VariableIds(id, {"NoUnsupported"})) :
            Variable(id, index, {"NoUnsupported", "NoFallback"}) # <<>>
=============================================================================
