------------------------------ MODULE ConfigFile ------------------------------
(***************************************************************************)
(* GpuConfiguration::parseXmlNode (States.cpp) on any file, not only the   *)
(* shipped one: elements with some of the three attributes in any order,   *)
(* with values that are numbers, words or empty.  The loop walks the       *)
(* attributes of one element after the other; x, y and name_attr[3]        *)
(* outlive an element, and positionY sends what they then hold.            *)
(***************************************************************************)
EXTENDS Integers, Sequences, SequencesExt

CONSTANTS COLS,
          Files,      \* sequences of [field, attributes], attributes being sequences of
                      \* [name, value]
          Known,      \* the nine elements the code knows
          Word,       \* a value that is no number
          Empty,      \* a value without a character
          Garbage     \* what an uninitialized int may hold, cut to a byte

Names == {"visibility", "positionX", "positionY"}

FileAssumption ==
  /\ COLS \in Nat /\ Garbage # {} /\ Garbage \subseteq 0..255 /\ Word # Empty
  /\ \A contents \in Files :
       /\ contents \in Seq(Range(contents))
       /\ \A e \in Range(contents) :
            e.attributes \in Seq([name : Names, value : 0..255 \cup {Word, Empty}])

VARIABLES file,
          curNode, prop,   \* the element and its attribute, by number
          x, flag,         \* x and name_attr[3]
          sent             \* what went to the OSD: [field, flag, position]
vars == <<file, curNode, prop, x, flag, sent>>

Unset == 0                 \* name_attr is cleared at the start
Ended == curNode > Len(file)
Node == file[curNode]
AttributesDone == prop > Len(Node.attributes)
Attribute == Node.attributes[prop]

Init == /\ file \in Files
        /\ curNode = 1 /\ prop = 1 /\ x = 0 /\ flag = Unset /\ sent = <<>>

NextNode == /\ ~Ended /\ AttributesDone
            /\ curNode' = curNode + 1 /\ prop' = 1
            /\ UNCHANGED <<file, x, flag, sent>>

(* stoi fails: valueInt keeps what was on the stack. *)
Values(value) == IF value = Word THEN Garbage ELSE {value}

convertCoords(px, py) == py * COLS + px
Send(py) == sent' = Append(sent, [field |-> Node.field, flag |-> flag,
                                  position |-> convertCoords(x, py)])

(* One attribute with a value; an element the code does not know is passed over. *)
ParseAttribute_XOnce ==
  /\ ~Ended /\ ~AttributesDone /\ Attribute.value # Empty
  /\ prop' = prop + 1 /\ UNCHANGED <<file, curNode>>
  /\ IF Node.field \notin Known THEN UNCHANGED <<x, flag, sent>>
     ELSE \E valueInt \in Values(Attribute.value) :
            \/ Attribute.name = "visibility" /\ flag' = Attribute.value /\ UNCHANGED <<x, sent>>
            \/ Attribute.name = "positionX" /\ x' = (IF x = 0 THEN valueInt ELSE x) /\ UNCHANGED <<flag, sent>>
            \/ Attribute.name = "positionY" /\ Send(valueInt) /\ UNCHANGED <<x, flag>>
ParseAttribute_Again ==
  /\ ~Ended /\ ~AttributesDone /\ Attribute.value # Empty
  /\ prop' = (IF Attribute.value = Word THEN prop ELSE prop + 1) /\ UNCHANGED <<file, curNode>>
  /\ IF Node.field \notin Known THEN UNCHANGED <<x, flag, sent>>
     ELSE \E valueInt \in Values(Attribute.value) :
            \/ Attribute.name = "visibility" /\ flag' = Attribute.value /\ UNCHANGED <<x, sent>>
            \/ Attribute.name = "positionX" /\ x' = valueInt /\ UNCHANGED <<flag, sent>>
            \/ Attribute.name = "positionY" /\ Send(valueInt) /\ UNCHANGED <<x, flag>>
ParseAttribute ==
  /\ ~Ended /\ ~AttributesDone /\ Attribute.value # Empty
  /\ prop' = prop + 1 /\ UNCHANGED <<file, curNode>>
  /\ IF Node.field \notin Known THEN UNCHANGED <<x, flag, sent>>
     ELSE \E valueInt \in Values(Attribute.value) :
            \/ Attribute.name = "visibility" /\ flag' = Attribute.value /\ UNCHANGED <<x, sent>>
            \/ Attribute.name = "positionX" /\ x' = valueInt /\ UNCHANGED <<flag, sent>>
            \/ Attribute.name = "positionY" /\ Send(valueInt) /\ UNCHANGED <<x, flag>>

(* xmlNodeListGetString gives nothing: the loop goes on with the same attribute. *)
SkipEmpty == /\ ~Ended /\ ~AttributesDone /\ Attribute.value = Empty
             /\ UNCHANGED vars

Done == Ended /\ UNCHANGED vars

Next == NextNode \/ ParseAttribute \/ SkipEmpty \/ Done
Spec == Init /\ [][Next]_vars
(* The parser is a loop of the main thread: it takes its next step. *)
FairSpec == Spec /\ WF_vars(Next)

-----------------------------------------------------------------------------
TypeOK == /\ curNode \in 1..(Len(file) + 1) /\ prop \in Nat \ {0}
          /\ x \in 0..255 /\ flag \in 0..255 \cup {Word}
          /\ Range(sent) \subseteq [field : Known, flag : 0..255 \cup {Word}, position : Nat]

(* Elements that place their field by themselves: the three attributes, positionY last,
   both coordinates numbers. *)
Place(e) == [n \in Names |-> LET i == CHOOSE i \in DOMAIN e.attributes : e.attributes[i].name = n
                             IN e.attributes[i].value]
Full(e) == Len(e.attributes) = 3 /\ {a.name : a \in Range(e.attributes)} = Names
Numbers(e) == Word \notin {Place(e).positionX, Place(e).positionY}
YLast(e) == e.attributes[3].name = "positionY"
Meant(e) == [field |-> e.field, flag |-> Place(e).visibility,
             position |-> convertCoords(Place(e).positionX, Place(e).positionY)]
Parsed == {k \in DOMAIN file : k < curNode /\ file[k].field \in Known}
(* The field of the k-th element is in no other, and was placed once, as this one says. *)
Only(k) == \A j \in DOMAIN file : file[j].field = file[k].field => j = k
Sends(k) == {n \in DOMAIN sent : sent[n].field = file[k].field}
PlacedAsMeant(k) == \E n \in DOMAIN sent : Sends(k) = {n} /\ sent[n] = Meant(file[k])

(* An element that is complete and in order is placed once and as it says, whatever words,
   gaps and orders the elements around it have. *)
CompletePlaced ==
  \A k \in Parsed :
    Only(k) /\ Full(file[k]) /\ Numbers(file[k]) /\ YLast(file[k]) => PlacedAsMeant(k)

(* Every file without an empty value is parsed to its end. *)
NoEmpty == \A e \in Range(file) : \A a \in Range(e.attributes) : a.value # Empty
ParsedToTheEnd == NoEmpty ~> Ended

(* The file describes the three attributes of an element by their names, in no order: so an
   element with all three would be placed where it says. *)
PlacedByName ==
  \A k \in Parsed : Only(k) /\ Full(file[k]) /\ Numbers(file[k]) => PlacedAsMeant(k)
=============================================================================
