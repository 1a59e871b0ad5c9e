---------------------------- MODULE MessageCodec ----------------------------
(***************************************************************************)
(* The forms a message takes on its way through the service, and the       *)
(* conversions between them:                                               *)
(*   wire     the protobuf message of a request or an answer,              *)
(*   domain   state.MessageBody, a struct of Go pointers,                  *)
(*   columns  the nullable columns of messages and snapshot_items,         *)
(*   JSON     what CreateSnapshot hashes.                                  *)
(* (internal/server/converter.go, internal/state/convert.go, types.go)     *)
(*                                                                         *)
(* A oneof of the wire is a record with the name of its variant.  A nil    *)
(* pointer and a NULL column are both Null; the struct that holds a single *)
(* text is that text.  The six tool_image columns are one record of        *)
(* columns.  Metadata is a function from keys to texts, and a key is its   *)
(* rank in the order of strings, which is all that sorting knows of it.    *)
(* The kind of a message is copied by every conversion and left out.       *)
(***************************************************************************)
EXTENDS Integers, FiniteSets

CONSTANTS
  Texts,        \* the strings that occur, the empty one among them
  Keys,         \* the metadata keys that occur
  Roles,        \* values of the Role enum on the wire: any int32
  Details,      \* values of the ImageDetail enum on the wire: any int32
  Lengths,      \* widths and heights in pixels: any int32
  Null

\* A Go map is finite.
Metadata == UNION {[K -> Texts] : K \in {S \in SUBSET Keys : IsFiniteSet(S)}}

-----------------------------------------------------------------------------
(***************************************************************************)
(* The wire.  An enum of proto3 is open: a client may send any int32.      *)
(***************************************************************************)
WireText   == [variant : {"text"}, text : Texts]
WireImage  == [variant : {"image"}, external_url : Texts, mime_type : Texts,
               detail : Details, width_px : Lengths, height_px : Lengths,
               sha256 : Texts]
Unset      == [variant |-> "none"]
Absent     == [variant |-> "absent"]
WireOutput == {Unset} \cup WireText \cup WireImage
WireTool   == [variant : {"tool_output"}, tool_name : Texts, tool_call_id : Texts,
               metadata : Metadata, output : WireOutput]
WireBody   == {Absent, Unset} \cup WireText \cup WireTool
WireInput  == [role : Roles, body : WireBody]

(***************************************************************************)
(* The domain.                                                             *)
(***************************************************************************)
Pointer(S) == S \cup {Null}

ToolImageOutput == [ExternalURL : Texts, MimeType : Texts, Detail : Int,
                    WidthPX : Lengths, HeightPX : Lengths, SHA256 : Texts]
ToolOutputBody  == [ToolName : Texts, ToolCallID : Texts, Metadata : Metadata,
                    Text : Pointer(Texts), Image : Pointer(ToolImageOutput)]

\* Null is none of the values a pointer can point to or a column can hold.
ASSUME CodecAssumption ==
  /\ "" \in Texts
  /\ Keys \subseteq Nat
  /\ Roles \cup Details \cup Lengths \subseteq Int
  /\ Null \notin Texts \cup Int \cup Metadata
  /\ Null \notin ToolImageOutput
  /\ Null \notin ToolOutputBody

ROLE_UNSPECIFIED == 0

\* Mutant: values out of range become the nearest value in range.
Saturated(n) == IF n > 32767 THEN 32767 ELSE IF n < -32768 THEN -32768 ELSE n

\* Go: the conversion of an int32 to an int16 keeps the low 16 bits.
Int16(n) == LET low == n % 65536 IN IF low < 32768 THEN low ELSE low - 65536

-----------------------------------------------------------------------------
(***************************************************************************)
(* fromProtoAppendMessage and fromProtoMessageBody.                        *)
(***************************************************************************)
WireBodyAccepted(body) ==
  \/ body.variant = "text"
  \/ body.variant = "tool_output" /\ body.output.variant # "none"

WireInputAccepted(input) ==
  input.role # ROLE_UNSPECIFIED /\ WireBodyAccepted(input.body)

FromProtoImage(out) ==
  [ExternalURL |-> out.external_url, MimeType |-> out.mime_type,
   Detail |-> Int16(out.detail), WidthPX |-> out.width_px,
   HeightPX |-> out.height_px, SHA256 |-> out.sha256]

FromProtoTool(tool) ==
  [ToolName |-> tool.tool_name, ToolCallID |-> tool.tool_call_id,
   Metadata |-> tool.metadata,
   Text  |-> IF tool.output.variant = "text" THEN tool.output.text ELSE Null,
   Image |-> IF tool.output.variant = "image" THEN FromProtoImage(tool.output) ELSE Null]

FromProtoBody(body) ==
  IF body.variant = "text" THEN [Text |-> body.text, ToolOutput |-> Null]
                           ELSE [Text |-> Null, ToolOutput |-> FromProtoTool(body)]

(***************************************************************************)
(* toProtoMessageBody.  An image, set last, wins over a text.              *)
(***************************************************************************)
ToProtoOutput(tool) ==
  IF tool.Image # Null
  THEN [variant |-> "image", external_url |-> tool.Image.ExternalURL,
        mime_type |-> tool.Image.MimeType, detail |-> tool.Image.Detail,
        width_px |-> tool.Image.WidthPX, height_px |-> tool.Image.HeightPX,
        sha256 |-> tool.Image.SHA256]
  ELSE IF tool.Text # Null THEN [variant |-> "text", text |-> tool.Text]
  ELSE Unset

ToProtoBody(body) ==
  IF body.Text # Null THEN [variant |-> "text", text |-> body.Text]
  ELSE IF body.ToolOutput # Null
  THEN [variant |-> "tool_output", tool_name |-> body.ToolOutput.ToolName,
        tool_call_id |-> body.ToolOutput.ToolCallID,
        metadata |-> body.ToolOutput.Metadata,
        output |-> ToProtoOutput(body.ToolOutput)]
  ELSE Unset

-----------------------------------------------------------------------------
(***************************************************************************)
(* encodeMessageBody: an empty text, a zero length and an empty map are    *)
(* stored as NULL.                                                         *)
(***************************************************************************)
Validate(body) ==
  /\ (body.Text = Null) # (body.ToolOutput = Null)
  /\ body.ToolOutput # Null =>
       (body.ToolOutput.Text = Null) # (body.ToolOutput.Image = Null)

\* stringPtr
StringPtr(text) == IF text = "" THEN Null ELSE text

\* Mutant: a negative length is not stored.
PositivePtr(n) == IF n > 0 THEN n ELSE Null

LengthPtr(n)  == IF n # 0 THEN n ELSE Null

NoImageColumns ==
  [external_url |-> Null, mime_type |-> Null, detail |-> Null,
   width_px |-> Null, height_px |-> Null, sha256 |-> Null]

EncodeImage(image) ==
  IF image = Null THEN NoImageColumns
  ELSE [external_url |-> StringPtr(image.ExternalURL),
        mime_type |-> StringPtr(image.MimeType), detail |-> image.Detail,
        width_px |-> LengthPtr(image.WidthPX), height_px |-> LengthPtr(image.HeightPX),
        sha256 |-> StringPtr(image.SHA256)]

EncodeText(text) ==
  [body_text |-> StringPtr(text), tool_name |-> Null, tool_call_id |-> Null,
   tool_text_output |-> Null, tool_image |-> NoImageColumns, tool_metadata |-> Null]

EncodeTool(tool) ==
  [body_text |-> Null, tool_name |-> StringPtr(tool.ToolName),
   tool_call_id |-> StringPtr(tool.ToolCallID),
   tool_text_output |-> IF tool.Text = Null THEN Null ELSE StringPtr(tool.Text),
   tool_image |-> EncodeImage(tool.Image),
   tool_metadata |-> IF DOMAIN tool.Metadata = {} THEN Null ELSE tool.Metadata]

EncodeMessageBody(body) ==
  IF body.Text # Null THEN EncodeText(body.Text)
                      ELSE EncodeTool(body.ToolOutput)

(***************************************************************************)
(* decodeMessageBody.  The variant is told by the columns that are not     *)
(* NULL, so it is lost when its text was empty.                            *)
(***************************************************************************)
OrEmpty(column) == IF column = Null THEN "" ELSE column
OrZero(column)  == IF column = Null THEN 0 ELSE column

HasImage(cols) ==
  \/ cols.tool_image.external_url # Null
  \/ cols.tool_image.mime_type # Null
  \/ cols.tool_image.detail # Null

DecodeError(cols) ==
  IF cols.body_text # Null THEN "none"
  ELSE IF cols.tool_name = Null THEN "message body missing variant"
  ELSE IF cols.tool_text_output = Null /\ ~HasImage(cols) THEN "tool output missing variant"
  ELSE "none"

DecodeImage(image) ==
  [ExternalURL |-> OrEmpty(image.external_url), MimeType |-> OrEmpty(image.mime_type),
   Detail |-> OrZero(image.detail), WidthPX |-> OrZero(image.width_px),
   HeightPX |-> OrZero(image.height_px), SHA256 |-> OrEmpty(image.sha256)]

EmptyMap == [k \in {} |-> ""]

DecodeTool(cols) ==
  [ToolName |-> cols.tool_name, ToolCallID |-> OrEmpty(cols.tool_call_id),
   Metadata |-> IF cols.tool_metadata = Null THEN EmptyMap ELSE cols.tool_metadata,
   Text  |-> cols.tool_text_output,
   Image |-> IF HasImage(cols) THEN DecodeImage(cols.tool_image) ELSE Null]

DecodeMessageBody(cols) ==
  IF cols.body_text # Null THEN [Text |-> cols.body_text, ToolOutput |-> Null]
                           ELSE [Text |-> Null, ToolOutput |-> DecodeTool(cols)]

-----------------------------------------------------------------------------
(***************************************************************************)
(* MarshalDeterministicJSON.  Go ranges over a map in an order that        *)
(* differs from call to call; the keys are sorted before they are written. *)
(* Structs are written field by field in the order of their declaration,   *)
(* so a JSON text is the record of what it holds.                          *)
(***************************************************************************)
MapOrders(map) ==
  {keys \in [1..Cardinality(DOMAIN map) -> DOMAIN map] :
     \A i, j \in DOMAIN keys : i # j => keys[i] # keys[j]}

\* Mutant: the keys are written as the map yields them.
AsRanged(keys) == keys

\* sort.Strings
Sorted(keys) ==
  CHOOSE s \in [DOMAIN keys -> {keys[i] : i \in DOMAIN keys}] :
    \A i, j \in DOMAIN s : i < j => s[i] < s[j]

\* The metadata of a body without a tool output: the loop has nothing to range over.
MetadataOf(body) == IF body.ToolOutput = Null THEN EmptyMap ELSE body.ToolOutput.Metadata

MarshalDeterministicJSON(body, keys) ==
  IF body.ToolOutput = Null THEN [text |-> body.Text]
  ELSE LET sorted == Sorted(keys)
           map    == body.ToolOutput.Metadata
       IN  [tool_output |-> [body.ToolOutput EXCEPT !.Metadata =
                               [i \in DOMAIN sorted |-> <<sorted[i], map[sorted[i]]>>]]]

=============================================================================
