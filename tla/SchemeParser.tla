----------------------------- MODULE SchemeParser -----------------------------
(***************************************************************************)
(* BMApplicationSchemeParser::parse: the events of an XML reader become a  *)
(* ControlScheme.  The parser keeps one resource, one display object and   *)
(* one text buffer for the elements that are open, whatever their nesting. *)
(* The reader (quick_xml) is external: it hands out the events of a        *)
(* document in order, checks that end tags match, and reports the end of   *)
(* its input as the end of the document, elements being open or not.       *)
(***************************************************************************)
EXTENDS Integers, SequencesExt

CONSTANTS
  Sample,         \* the values of a "sample" attribute
  Piece,          \* pieces of text in a data element, without white space
  Broken,         \* the pieces that are not base64
  MaxEvents       \* bound: the length of a document

VARIABLES
  document,  \* the events so far
  open,      \* the reader: the elements that are open
  scheme,    \* BMApplicationSchemeParser::scheme
  sampling,  \* BMApplicationSchemeParser::sampling_mode
  resource,  \* current_resource: <<>> or one
  object,    \* current_display_object: <<>> or one
  inData,    \* in_data_element
  data,      \* data_buffer
  result     \* "none", "scheme" or "error"

parserVars == <<scheme, sampling, resource, object, inData, data>>
schemeVars == <<document, open, parserVars, result>>

Absent == "absent"

ASSUME SchemeAssumption == Broken \subseteq Piece /\ MaxEvents \in Nat

(* The documents: which elements an element holds.  Those that hold none   *)
(* are empty (the parser ignores their end tags).                          *)
Children == [BMApplicationScheme |-> {"Resource", "DisplayObject", "Option"},
             Resource |-> {"data"}, DisplayObject |-> {"Asset", "HitRect"}, data |-> {}]

Allowed == IF open # <<>> THEN Children[Last(open)]
           ELSE IF document = <<>> THEN {"BMApplicationScheme"} ELSE {}

(* Attributes: the sampling mode, and the place of the element as its id.  *)
Attributes(name) ==
  [id : {Len(document) + 1},
   sample : IF name \in {"BMApplicationScheme", "DisplayObject"} THEN Sample \cup {Absent}
            ELSE {Absent}]

Given(value, otherwise) == IF value = Absent THEN otherwise ELSE value

EmptyScheme == [resources |-> <<>>, objects |-> <<>>, options |-> <<>>]

ParserInit ==
  /\ document = <<>> /\ open = <<>> /\ result = "none"
  /\ scheme = EmptyScheme
  /\ sampling = "linear"
  /\ resource = <<>> /\ object = <<>> /\ inData = FALSE /\ data = <<>>

-----------------------------------------------------------------------------
(* One event: Event::Start and Event::Empty.                               *)

BMApplicationScheme(a) ==
  /\ sampling' = Given(a.sample, sampling)
  /\ UNCHANGED <<scheme, resource, object, inData, data>>

(* A resource waits for its end tag, also an empty one, which has none.    *)
Resource(a) ==
  /\ resource' = <<[id |-> a.id, bitmap |-> <<>>]>>
  /\ UNCHANGED <<scheme, sampling, object, inData, data>>

NewObject(a) ==
  [id |-> a.id, sample |-> Given(a.sample, sampling), assets |-> <<>>, hit |-> 0]

(* A display object without content has no end tag to wait for.            *)
DisplayObject(a, empty) ==
  /\ IF empty
     THEN scheme' = [scheme EXCEPT !.objects = Append(@, NewObject(a))] /\ UNCHANGED object
     ELSE object' = <<NewObject(a)>> /\ UNCHANGED scheme
  /\ UNCHANGED <<sampling, resource, inData, data>>

Asset(a) ==
  /\ object' = [i \in DOMAIN object |-> [object[i] EXCEPT !.assets = Append(@, a.id)]]
  /\ UNCHANGED <<scheme, sampling, resource, inData, data>>

HitRect(a) ==
  /\ object' = [i \in DOMAIN object |-> [object[i] EXCEPT !.hit = a.id]]
  /\ UNCHANGED <<scheme, sampling, resource, inData, data>>

Option(a) ==
  /\ scheme' = [scheme EXCEPT !.options = Append(@, a.id)]
  /\ UNCHANGED <<sampling, resource, object, inData, data>>

(* Mutation of DataStart: the text of the last data element stays.         *)
DataStartKeeps ==
  /\ inData' = TRUE
  /\ UNCHANGED <<scheme, sampling, resource, object, data>>

(* Also for an empty data element, which has no end.                       *)
DataStart ==
  /\ inData' = TRUE /\ data' = <<>>
  /\ UNCHANGED <<scheme, sampling, resource, object>>

Element(name, a, empty) ==
  CASE name = "BMApplicationScheme" -> BMApplicationScheme(a)
    [] name = "Resource" -> Resource(a)
    [] name = "DisplayObject" -> DisplayObject(a, empty)
    [] name = "Asset" -> Asset(a)
    [] name = "HitRect" -> HitRect(a)
    [] name = "Option" -> Option(a)
    [] name = "data" -> DataStart

-----------------------------------------------------------------------------
(* Event::Text and Event::CData, Event::End.                               *)

Text(piece) ==
  /\ data' = IF inData THEN Append(data, piece) ELSE data
  /\ UNCHANGED <<scheme, sampling, resource, object, inData>>

ResourceEnd ==
  /\ scheme' = [scheme EXCEPT !.resources = @ \o resource]
  /\ resource' = <<>>
  /\ UNCHANGED <<sampling, object, inData, data>>

DisplayObjectEnd ==
  /\ scheme' = [scheme EXCEPT !.objects = @ \o object]
  /\ object' = <<>>
  /\ UNCHANGED <<sampling, resource, inData, data>>

(* base64_decode                                                           *)
Decodes(text) == \A i \in DOMAIN text : text[i] \notin Broken

(* What cannot be decoded is ignored.                                      *)
DataEnd ==
  /\ inData' = FALSE
  /\ resource' = [i \in DOMAIN resource |->
       IF Decodes(data) THEN [resource[i] EXCEPT !.bitmap = data] ELSE resource[i]]
  /\ UNCHANGED <<scheme, sampling, object, data>>

EndOf(name) ==
  CASE name = "Resource" -> ResourceEnd
    [] name = "DisplayObject" -> DisplayObjectEnd
    [] name = "data" -> DataEnd
    [] OTHER -> UNCHANGED parserVars

-----------------------------------------------------------------------------
(* The loop over the events of the reader.                                 *)

Reading == result = "none"
Room == Len(document) < MaxEvents

StartEvent(name, a) ==
  /\ Reading /\ Room /\ name \in Allowed \cap DOMAIN Children
  /\ Element(name, a, FALSE)
  /\ document' = Append(document, [is |-> "start", name |-> name, a |-> a])
  /\ open' = Append(open, name)
  /\ UNCHANGED result

EmptyEvent(name, a) ==
  /\ Reading /\ Room /\ name \in Allowed /\ open # <<>>
  /\ Element(name, a, TRUE)
  /\ document' = Append(document, [is |-> "empty", name |-> name, a |-> a])
  /\ UNCHANGED <<open, result>>

(* Text matters in a data element; white space stands between elements.    *)
TextEvent(piece) ==
  /\ Reading /\ Room /\ open # <<>> /\ Last(open) = "data"
  /\ Text(piece)
  /\ document' = Append(document, [is |-> "text", piece |-> piece])
  /\ UNCHANGED <<open, result>>

EndEvent ==
  /\ Reading /\ Room /\ open # <<>>
  /\ EndOf(Last(open))
  /\ document' = Append(document, [is |-> "end", name |-> Last(open)])
  /\ open' = Front(open)
  /\ UNCHANGED result

(* The input ends, maybe too early.                                        *)
Eof ==
  /\ Reading
  /\ result' = "scheme"
  /\ UNCHANGED <<document, open, parserVars>>

(* Without the parser: one is made anew for every document.                *)
Anew ==
  /\ document' = <<>> /\ open' = <<>> /\ scheme' = EmptyScheme /\ sampling' = "linear"
  /\ resource' = <<>> /\ object' = <<>> /\ inData' = FALSE /\ data' = <<>>

(* Something the reader or the attributes of an element object to: there   *)
(* is no scheme.                                                           *)
Malformed == Reading /\ result' = "error" /\ Anew

NextDocument == ~Reading /\ result' = "none" /\ Anew

ParserNext ==
  \/ \E name \in Allowed : \E a \in Attributes(name) : StartEvent(name, a)
  \/ \E name \in Allowed : \E a \in Attributes(name) : EmptyEvent(name, a)
  \/ \E piece \in Piece : TextEvent(piece)
  \/ EndEvent
  \/ Eof
  \/ Malformed
  \/ NextDocument

ParserSpec == ParserInit /\ [][ParserNext]_schemeVars

-----------------------------------------------------------------------------
(* What a document says: its elements by position.                         *)

(* How many elements are open after the first i events.                    *)
Depth(doc, i) == Cardinality({j \in 1 .. i : doc[j].is = "start"})
                 - Cardinality({j \in 1 .. i : doc[j].is = "end"})

(* Where the element that starts at i ends: 0 while it is open.            *)
EndAt(doc, i) ==
  LET ends == {j \in i .. Len(doc) : Depth(doc, j) = Depth(doc, i) - 1}
  IN  IF doc[i].is = "empty" THEN i ELSE IF ends = {} THEN 0 ELSE Min(ends)

Named(doc, name, kinds) == {i \in DOMAIN doc : doc[i].is \in kinds /\ doc[i].name = name}
Inside(doc, i) == i + 1 .. EndAt(doc, i) - 1

(* The elements that are whole.                                            *)
Whole(doc, name, kinds) == {i \in Named(doc, name, kinds) : EndAt(doc, i) # 0}

(* The places, in the order of the document.                               *)
InOrder(list, places) ==
  /\ {list[k] : k \in DOMAIN list} = places
  /\ \A k, l \in DOMAIN list : k < l => list[k] < list[l]

Ids(elements) == [k \in DOMAIN elements |-> elements[k].id]

(* The text of a data element that starts at i.                            *)
TextAt(doc, i) == [k \in 1 .. EndAt(doc, i) - i - 1 |-> doc[i + k].piece]

(* The last of some data elements that can be decoded.                     *)
LastBitmap(doc, places) ==
  LET good == {d \in places : Decodes(TextAt(doc, d))}
  IN  IF good = {} THEN <<>> ELSE TextAt(doc, Max(good))

SamplingOf(doc) == IF doc = <<>> THEN "linear" ELSE Given(doc[1].a.sample, "linear")

(* r is the resource that starts at r.id and has `inside` inside.          *)
IsResource(doc, r, inside) ==
  r = [id |-> r.id,
       bitmap |-> LastBitmap(doc, Whole(doc, "data", {"start"}) \cap inside)]

(* o is the display object that starts at o.id and has `inside` inside.    *)
IsObject(doc, o, inside) ==
  /\ o = [id |-> o.id,
          sample |-> Given(doc[o.id].a.sample, SamplingOf(doc)),
          assets |-> o.assets,
          hit |-> Max({0} \cup (Named(doc, "HitRect", {"empty"}) \cap inside))]
  /\ InOrder(o.assets, Named(doc, "Asset", {"empty"}) \cap inside)

-----------------------------------------------------------------------------
(* Properties.                                                             *)

(* At every point of a document the scheme holds exactly the elements that *)
(* are whole, in their order, each with what is inside it and nothing of   *)
(* its neighbours, although the parser (parse, current_resource,           *)
(* current_display_object and data_buffer) knows no nesting: a resource    *)
(* has the text of its own last data element that can be decoded, a        *)
(* display object its own assets, hit rectangle and sampling mode.  An     *)
(* empty Resource element is the exception: it is never in the scheme.  So *)
(* a document that is cut off gives a scheme of what came before.          *)
SchemeFollowsNesting ==
  /\ InOrder(Ids(scheme.resources), Whole(document, "Resource", {"start"}))
  /\ \A k \in DOMAIN scheme.resources :
       LET r == scheme.resources[k] IN IsResource(document, r, Inside(document, r.id))
  /\ InOrder(Ids(scheme.objects), Whole(document, "DisplayObject", {"start", "empty"}))
  /\ \A k \in DOMAIN scheme.objects :
       LET o == scheme.objects[k] IN IsObject(document, o, Inside(document, o.id))
  /\ InOrder(scheme.options, Named(document, "Option", {"empty"}))
=============================================================================
