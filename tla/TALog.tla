-------------------------------- MODULE TALog --------------------------------
(***************************************************************************)
(* Log lines (internal/parser/talog, and the routing key of                 *)
(* internal/process/pipeline).  A JSON object is a function from its keys   *)
(* to values; a value is <<"string", s>>, <<"number", s>>, an object        *)
(* <<"object", o>>, or <<"encoded", o>>, a string that holds the JSON of o. *)
(* A line that is not JSON is the empty sequence.                           *)
(***************************************************************************)
EXTENDS Sequences

EnvelopeKeys == <<"msg", "message", "log">>

(* Every type that begins with user_ or track; the last of each stands for   *)
(* those that no write model names.                                          *)
UserTypes  == {"user_set", "user_setOnce", "user_add", "user_unset", "user_append",
               "user_uniq_append", "user_del", "user_other"}
EventTypes == {"track", "track_update", "track_overwrite", "track_other"}

Value(o, k) == IF k \in DOMAIN o THEN o[k] ELSE <<"absent", "">>

(* toString: "" for a value that is missing or is not a string. *)
Text(o, k) == IF Value(o, k)[1] = "string" THEN o[k][2] ELSE ""

HasTAKeys(o) == DOMAIN o \cap {"#time", "#type", "#event_name"} # {}

(* The properties are promoted to the root, over the fields that are there. *)
FlattenPayload(o) ==
  LET props == IF Value(o, "properties")[1] = "object" THEN o["properties"][2] ELSE <<>>
      left  == IF Value(o, "properties")[1] = "object" THEN {"properties"} ELSE {}
  IN  [k \in (DOMAIN o \cup DOMAIN props) \ left |-> IF k \in DOMAIN props THEN props[k] ELSE o[k]]

(* validateByType: each type names the fields it cannot do without. *)
ValidByType(o) ==
  /\ Text(o, "#type") \in UserTypes \cup EventTypes
  /\ Text(o, "#time") # ""
  /\ Text(o, "#type") \in EventTypes => Text(o, "#event_name") # ""
  /\ Text(o, "#account_id") # "" \/ Text(o, "#distinct_id") # ""

NoRecord == [type |-> "", uuid |-> "", account |-> "", distinct |-> "", doc |-> <<>>]

(* The record of a payload, NoRecord for one that is refused.  _ts is left   *)
(* out; #time and #uuid are set again after the properties were promoted.    *)
BuildRecord(o) ==
  LET doc == FlattenPayload(o)
  IN  IF Text(o, "#uuid") = "" \/ ~ValidByType(o) THEN NoRecord
      ELSE [type |-> Text(o, "#type"), uuid |-> Text(o, "#uuid"),
            account |-> Text(o, "#account_id"), distinct |-> Text(o, "#distinct_id"),
            doc |-> [k \in DOMAIN doc \cup {"#time", "#uuid"} |->
                       IF k \in {"#time", "#uuid"} THEN <<"string", Text(o, k)>> ELSE doc[k]]]

(* The first envelope that holds a payload decides, also when it is refused. *)
Payloads(o) ==
  SelectSeq(EnvelopeKeys, LAMBDA k : Value(o, k)[1] = "encoded" /\ HasTAKeys(o[k][2]))

Payload(o) ==
  IF HasTAKeys(o) THEN o ELSE IF Payloads(o) # <<>> THEN o[Payloads(o)[1]][2] ELSE <<>>

ParseLine(o) == BuildRecord(Payload(o))

Category(rec) == IF rec.type \in UserTypes THEN "user" ELSE "event"

(***************************************************************************)
(* ExtractRoutingKey reads the line on its own: any value that prints as a  *)
(* non-empty string is an id, an envelope may be any object, and each       *)
(* envelope is looked into until one has an id.                             *)
(***************************************************************************)

Printed(o, k) == IF Value(o, k)[1] \in {"string", "number"} THEN o[k][2] ELSE ""

KeyOf(o) == IF Printed(o, "#account_id") # "" THEN Printed(o, "#account_id")
            ELSE Printed(o, "#distinct_id")

ExtractRoutingKey(o) ==
  LET inner == SelectSeq(EnvelopeKeys,
                 LAMBDA k : Value(o, k)[1] \in {"encoded", "object"} /\ KeyOf(o[k][2]) # "")
  IN  IF KeyOf(o) # "" THEN KeyOf(o)
      ELSE IF inner # <<>> THEN KeyOf(o[inner[1]][2])
      ELSE ""

-----------------------------------------------------------------------------
(***************************************************************************)
(* Properties, of bounded sets of lines.                                    *)
(***************************************************************************)

(* A record has what the later steps take for granted: an id to resolve, the *)
(* key of its document, and a document that says the same #uuid and #time as *)
(* the payload, whatever its properties are called.                          *)
RecordComplete(Lines) ==
  \A o \in Lines :
    LET rec == ParseLine(o)
    IN  rec # NoRecord =>
          /\ rec.account # "" \/ rec.distinct # ""
          /\ rec.uuid # "" /\ rec.doc["#uuid"] = <<"string", rec.uuid>>
          /\ rec.doc["#time"][2] # ""
          /\ "properties" \in DOMAIN rec.doc => rec.doc["properties"][1] # "object"

(* A line on which the two readers of its ids agree: its payload's ids are    *)
(* strings, and no other part that routing looks into has an id.             *)
Ordinary(o) ==
  LET looked == {o} \cup {Value(o, EnvelopeKeys[i])[2] :
                   i \in {j \in DOMAIN EnvelopeKeys : Value(o, EnvelopeKeys[j])[1] \in {"encoded", "object"}}}
  IN  /\ \A p \in looked : KeyOf(p) # "" => p = Payload(o)
      /\ \A k \in {"#account_id", "#distinct_id"} : Value(Payload(o), k)[1] # "number"

(* Affinity: the worker of a record is chosen by its account, or else by its *)
(* distinct id, though routing never parses it (ExtractRoutingKey).          *)
RoutedByIdentity(Lines) ==
  \A o \in Lines :
    LET rec == ParseLine(o)
    IN  rec # NoRecord /\ Ordinary(o) =>
          ExtractRoutingKey(o) = IF rec.account # "" THEN rec.account ELSE rec.distinct
=============================================================================
