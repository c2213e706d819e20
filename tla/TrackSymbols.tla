---------------------------- MODULE TrackSymbols ----------------------------
(* The symbols of a track plan: their types, states, links and labels        *)
(* (lmrs/core/symbolictrackplanmodel.h), and how a view draws and switches   *)
(* them (lmrs/widgets/symbolictrackplanview.cpp).  A state, a link and a     *)
(* label are named as in the source; the set of links of a roof is a set of  *)
(* the sides it joins and "Center".                                          *)
EXTENDS Integers, FiniteSets, SequencesExt, FiniteSetsExt

\* TrackSymbol::Type in the order of the enumeration.
SymbolTypes ==
    <<"Empty", "Straight", "Terminal", "NarrowCurve", "WideCurve", "Cross", "LeftHandPoint",
      "RightHandPoint", "YPoint", "ThreeWayPoint", "SingleCrossPoint", "DoubleCrossPoint",
      "DoubleCrossPointSimple", "LevelCrossing", "BridgeEntry", "BridgeStraight", "TunnelEntry",
      "TunnelStraight", "TunnelCurve", "TwoLightsSignal", "ThreeLightsSignal",
      "FourLightsSignal", "ShuntingSignal", "SemaphoreSignal", "Detector", "Decoupler", "Light",
      "Button", "Switch", "Platform", "RedRoof", "BlackRoof", "BrownRoof", "Trees", "Text">>

\* TrackSymbol::Mode and TrackSymbol::State in the order of the enumerations.
Modes == <<"Normal", "Disabled", "Active">>

StateOrder ==
    <<"Undefined", "Primary", "Secondary", "Straight", "Branched", "Crossing", "Left", "Right",
      "Active", "Green", "Red", "Yellow", "White", "Proceed", "Slow", "Stop">>

\* TrackSymbolInstance::Orientation: a compass of eight directions, in degrees.
Orientations == <<0, 45, 90, 135, 180, 225, 270, 315>>

Switchable   == {"LeftHandPoint", "RightHandPoint", "DoubleCrossPointSimple", "YPoint",
                 "ThreeWayPoint", "SingleCrossPoint", "DoubleCrossPoint"}
LightSignals == {"TwoLightsSignal", "ThreeLightsSignal", "FourLightsSignal"}
Signals      == LightSignals \cup {"ShuntingSignal", "SemaphoreSignal"}
Contacts     == {"Button", "Decoupler", "Light", "Switch", "Detector"}

\* states() without Undefined.
ValidStates(type) ==
    CASE type \in {"LeftHandPoint", "RightHandPoint", "DoubleCrossPointSimple"} ->
                                        {"Straight", "Branched"}
      [] type = "YPoint"            -> {"Left", "Right"}
      [] type = "ThreeWayPoint"     -> {"Left", "Right", "Straight"}
      [] type = "SingleCrossPoint"  -> {"Straight", "Branched", "Crossing"}
      [] type = "DoubleCrossPoint"  -> {"Straight", "Crossing", "Left", "Right"}
      [] type = "Cross"             -> {"Straight", "Crossing"}
      [] type = "TwoLightsSignal"   -> {"Green", "Red"}
      [] type = "ThreeLightsSignal" -> {"Green", "Red", "Yellow"}
      [] type = "FourLightsSignal"  -> {"Green", "Red", "Yellow", "White"}
      [] type = "ShuntingSignal"    -> {"Proceed", "Stop"}
      [] type = "SemaphoreSignal"   -> {"Proceed", "Slow", "Stop"}
      [] type \in Contacts          -> {"Active"}
      [] OTHER -> {}

\* states(): every symbol can be undefined.
States(type) == {"Undefined"} \cup ValidStates(type)

\* defaultState(): what a symbol shows before anything is known.
DefaultState(type) ==
    CASE type = "YPoint" -> "Left"
      [] type \in Switchable \ {"YPoint"} -> "Straight"
      [] type \in LightSignals -> "Green"
      [] type \in Signals \ LightSignals -> "Proceed"
      [] OTHER -> "Undefined"

\* labels(): the places a symbol has for its addresses.
LabelsOf(type) ==
    CASE type \in {"LeftHandPoint", "RightHandPoint", "YPoint", "SingleCrossPoint"} -> {"Undefined"}
      [] type = "DoubleCrossPointSimple" -> {"Left"}
      [] type \in {"ThreeWayPoint", "DoubleCrossPoint"} -> {"Left", "Right"}
      [] type \in Contacts \cup {"Straight", "TwoLightsSignal", "ShuntingSignal"} -> {"Primary"}
      [] type \in {"ThreeLightsSignal", "FourLightsSignal", "SemaphoreSignal"} ->
            {"Primary", "Secondary"}
      [] OTHER -> {}

\* collectPositions() finds one place in the drawing for each of them.
LabelPlaces(type) == Cardinality(LabelsOf(type))

-----------------------------------------------------------------------------

Sides == {"North", "East", "South", "West"}

\* Link: the flags with "Center" that have a name, which are all there are.
Center     == {"Center"}
Horizontal == {"Center", "East", "West"}
Vertical   == {"Center", "North", "South"}
CrossLink  == {"Center"} \cup Sides

\* hasLinks().
HasLinks(type) == type \in {"Platform", "RedRoof", "BlackRoof", "BrownRoof"}

\* linkId(): the picture for some links is named after them, but the vertical piece
\* takes the picture of the horizontal one.
LinkPicture(links) == IF links = Vertical THEN Horizontal ELSE links

\* A picture is turned clockwise when it is drawn; linked ones only by right angles.
Clockwise == <<"North", "East", "South", "West">>

Turned(sides, orientation) ==
    {Clockwise[((i - 1 + orientation \div 90) % 4) + 1] :
        i \in {j \in 1..4 : Clockwise[j] \in sides}}

\* The constructor of the view: for each mode and state, and for each of the links with
\* a center, the pictures of the types that have this state.  Texts have none.
HasPicture(symbol) ==
    /\ symbol.type # "Text"
    /\ symbol.mode \in ToSet(Modes)
    /\ symbol.state \in States(symbol.type)
    /\ IF HasLinks(symbol.type) THEN Center \subseteq symbol.links ELSE symbol.links = {}

-----------------------------------------------------------------------------

\* A slip of nextState(): the search begins with the state itself.
NextOrSame(state, valid) ==
    IF state \in valid THEN state
    ELSE StateOrder[Min({i \in DOMAIN StateOrder : StateOrder[i] \in valid})]

\* nextState(): the next state of the symbol in the order of the enumeration, cyclic.
NextState(state, valid) ==
    LET n    == Len(StateOrder)
        at   == IndexFirstSubSeq(<<state>>, StateOrder)
        step == Min({i \in 1..n : StateOrder[((at + i - 1) % n) + 1] \in valid})
    IN  StateOrder[((at + step - 1) % n) + 1]

\* turnoutState(): how a turnout has to lie for a state of its symbol.
TurnoutState(state) ==
    CASE state \in {"Straight", "Left"}  -> "Straight"
      [] state \in {"Branched", "Right"} -> "Branched"
      [] OTHER -> "Unknown"

\* onTurnoutInfoChanged() of the plan: the first of these states that the symbol has,
\* or else the state it has already.
StateFor(type, lie, old) ==
    LET candidates == CASE lie = "Straight" -> <<"Straight", "Left", "Red", "Stop">>
                        [] lie = "Branched" -> <<"Branched", "Right", "Green", "Proceed">>
                        [] OTHER -> <<>>
        found == {i \in DOMAIN candidates : candidates[i] \in ValidStates(type)}
    IN  IF found = {} THEN old ELSE candidates[Min(found)]
=============================================================================
