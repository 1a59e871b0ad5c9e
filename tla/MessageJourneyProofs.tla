------------------------ MODULE MessageJourneyProofs ------------------------
(***************************************************************************)
(* What is stored can be read, is what was sent, and stays what it was in  *)
(* every snapshot: for all texts, keys, enum values and lengths.  The      *)
(* round trip of a single message is put together from those of its        *)
(* parts, that hashes tell bodies apart from those of metadata in sorted   *)
(* order; the invariant only says that rows and copies were made by the    *)
(* conversions.                                                            *)
(***************************************************************************)
EXTENDS MessageJourney, FiniteSetTheorems, TLAPS

(***************************************************************************)
(* The parts.                                                              *)
(***************************************************************************)

\* A text survives being stored as NULL when it is empty (stringPtr).
LEMMA TextRoundTrip ==
  ASSUME NEW t \in Texts
  PROVE  /\ OrEmpty(StringPtr(t)) = t
         /\ StringPtr(OrEmpty(StringPtr(t))) = StringPtr(t)
BY CodecAssumption DEF OrEmpty, StringPtr

\* A length survives being stored as NULL when it is zero.
LEMMA LengthRoundTrip ==
  ASSUME NEW n \in Lengths
  PROVE  OrZero(LengthPtr(n)) = n
BY CodecAssumption DEF OrZero, LengthPtr

\* The conversion to 16 bits yields an integer, which is not Null.
LEMMA Int16Type ==
  ASSUME NEW n \in Int
  PROVE  Int16(n) \in Int /\ Int16(n) # Null
<1>1. Int16(n) \in Int
  BY SMT DEF Int16
<1> QED
  BY <1>1, CodecAssumption

\* The image of an accepted body is a domain image with a detail.
LEMMA ImageType ==
  ASSUME NEW image \in WireImage
  PROVE  /\ FromProtoImage(image) \in ToolImageOutput
         /\ FromProtoImage(image) # Null
<1>1. image.detail \in Int
  BY CodecAssumption DEF WireImage
<1>2. FromProtoImage(image) \in ToolImageOutput
  BY <1>1, Int16Type DEF FromProtoImage, ToolImageOutput, WireImage
<1> QED
  BY <1>2, CodecAssumption

\* An image of the domain survives its columns (encodeMessageBody, decodeMessageBody).
LEMMA ImageRoundTrip ==
  ASSUME NEW image \in ToolImageOutput
  PROVE  /\ DecodeImage(EncodeImage(image)) = image
         /\ EncodeImage(image).detail # Null
<1>1. image # Null
  BY CodecAssumption
<1>2. /\ image.ExternalURL \in Texts /\ image.MimeType \in Texts /\ image.SHA256 \in Texts
      /\ image.WidthPX \in Lengths /\ image.HeightPX \in Lengths /\ image.Detail \in Int
  BY DEF ToolImageOutput
<1>3. image.Detail # Null
  BY <1>2, CodecAssumption
<1>4. EncodeImage(image) =
        [external_url |-> StringPtr(image.ExternalURL),
         mime_type |-> StringPtr(image.MimeType), detail |-> image.Detail,
         width_px |-> LengthPtr(image.WidthPX), height_px |-> LengthPtr(image.HeightPX),
         sha256 |-> StringPtr(image.SHA256)]
  BY <1>1 DEF EncodeImage
<1>5. DecodeImage(EncodeImage(image)) =
        [ExternalURL |-> image.ExternalURL, MimeType |-> image.MimeType,
         Detail |-> image.Detail, WidthPX |-> image.WidthPX,
         HeightPX |-> image.HeightPX, SHA256 |-> image.SHA256]
  <2>1. OrZero(image.Detail) = image.Detail
    BY <1>3 DEF OrZero
  <2> QED
    BY <1>2, <1>4, <2>1, TextRoundTrip, LengthRoundTrip DEF DecodeImage
<1>6. image = [ExternalURL |-> image.ExternalURL, MimeType |-> image.MimeType,
               Detail |-> image.Detail, WidthPX |-> image.WidthPX,
               HeightPX |-> image.HeightPX, SHA256 |-> image.SHA256]
  BY DEF ToolImageOutput
<1> QED
  BY <1>3, <1>4, <1>5, <1>6

\* A map survives being stored as NULL when it is empty.
LEMMA MetadataRoundTrip ==
  ASSUME NEW map \in Metadata
  PROVE  (IF (IF DOMAIN map = {} THEN Null ELSE map) = Null
          THEN EmptyMap ELSE (IF DOMAIN map = {} THEN Null ELSE map)) = map
<1>1. map # Null
  BY CodecAssumption
<1>2. DOMAIN map = {} => EmptyMap = map
  <2>1. PICK K \in SUBSET Keys : map \in [K -> Texts]
    BY DEF Metadata
  <2> QED
    BY <2>1 DEF EmptyMap
<1> QED
  BY <1>1, <1>2

-----------------------------------------------------------------------------
(***************************************************************************)
(* The whole body.                                                         *)
(***************************************************************************)

\* The tool output of an accepted body: exactly one output, and a type.
LEMMA ToolType ==
  ASSUME NEW tool \in WireTool, tool.output.variant # "none"
  PROVE  LET d == FromProtoTool(tool) IN
         /\ d \in ToolOutputBody
         /\ (d.Text = Null) # (d.Image = Null)
<1> DEFINE d == FromProtoTool(tool)
<1>1. /\ tool.tool_name \in Texts /\ tool.tool_call_id \in Texts
      /\ tool.metadata \in Metadata /\ tool.output \in WireOutput
  BY DEF WireTool
<1>2. tool.output \in WireText \cup WireImage
  BY <1>1 DEF WireOutput, Unset
<1>3. d.ToolName = tool.tool_name /\ d.ToolCallID = tool.tool_call_id /\ d.Metadata = tool.metadata
  BY DEF FromProtoTool
<1>4. CASE tool.output \in WireText
  <2>1. tool.output.variant = "text" /\ tool.output.text \in Texts
    BY <1>4 DEF WireText
  <2>2. d.Text = tool.output.text /\ d.Image = Null
    BY <2>1 DEF FromProtoTool
  <2>3. d.Text # Null
    BY <2>1, <2>2, CodecAssumption
  <2>4. d \in ToolOutputBody
    BY <1>1, <1>3, <2>1, <2>2 DEF FromProtoTool, ToolOutputBody, Pointer
  <2> QED
    BY <2>2, <2>3, <2>4
<1>5. CASE tool.output \in WireImage
  <2>1. tool.output.variant = "image"
    BY <1>5 DEF WireImage
  <2>2. d.Text = Null /\ d.Image = FromProtoImage(tool.output)
    BY <2>1 DEF FromProtoTool
  <2>3. d.Image \in ToolImageOutput /\ d.Image # Null
    BY <1>5, <2>2, ImageType
  <2>4. d \in ToolOutputBody
    BY <1>1, <1>3, <2>2, <2>3 DEF FromProtoTool, ToolOutputBody, Pointer
  <2> QED
    BY <2>2, <2>3, <2>4
<1> QED
  BY <1>2, <1>4, <1>5

\* A tool output that decodes without an error decodes to what was encoded.
LEMMA ToolRoundTrip ==
  ASSUME NEW tool \in ToolOutputBody, (tool.Text = Null) # (tool.Image = Null),
         DecodeError(EncodeTool(tool)) = "none"
  PROVE  /\ DecodeTool(EncodeTool(tool)) = tool
         /\ EncodeTool(tool).body_text = Null
<1> DEFINE cols == EncodeTool(tool)
<1>1. /\ tool.ToolName \in Texts /\ tool.ToolCallID \in Texts
      /\ tool.Metadata \in Metadata
      /\ tool.Text \in Texts \cup {Null} /\ tool.Image \in ToolImageOutput \cup {Null}
  BY DEF ToolOutputBody, Pointer
<1>2. /\ cols.body_text = Null /\ cols.tool_name = StringPtr(tool.ToolName)
      /\ cols.tool_call_id = StringPtr(tool.ToolCallID)
      /\ cols.tool_text_output = (IF tool.Text = Null THEN Null ELSE StringPtr(tool.Text))
      /\ cols.tool_image = EncodeImage(tool.Image)
      /\ cols.tool_metadata = (IF DOMAIN tool.Metadata = {} THEN Null ELSE tool.Metadata)
  BY DEF EncodeTool
<1>3. cols.tool_name = tool.ToolName
  BY <1>2 DEF DecodeError, StringPtr
<1>4. OrEmpty(cols.tool_call_id) = tool.ToolCallID
  BY <1>1, <1>2, TextRoundTrip
<1>5. (IF cols.tool_metadata = Null THEN EmptyMap ELSE cols.tool_metadata) = tool.Metadata
  BY <1>1, <1>2, MetadataRoundTrip
<1>6. /\ cols.tool_text_output = tool.Text
      /\ (IF HasImage(cols) THEN DecodeImage(cols.tool_image) ELSE Null) = tool.Image
  <2>1. CASE tool.Image = Null
    <3>1. ~HasImage(cols)
      BY <1>2, <2>1 DEF HasImage, EncodeImage, NoImageColumns
    <3>2. cols.tool_text_output # Null
      BY <1>2, <1>3, <3>1 DEF DecodeError
    <3> QED
      BY <1>2, <2>1, <3>1, <3>2 DEF StringPtr
  <2>2. CASE tool.Image # Null
    <3>1. tool.Image \in ToolImageOutput /\ tool.Text = Null
      BY <1>1, <2>2
    <3>2. HasImage(cols)
      BY <1>2, <3>1, ImageRoundTrip DEF HasImage
    <3> QED
      BY <1>2, <3>1, <3>2, ImageRoundTrip
  <2> QED
    BY <2>1, <2>2
<1>7. DecodeTool(cols) = [ToolName |-> tool.ToolName, ToolCallID |-> tool.ToolCallID,
                          Metadata |-> tool.Metadata, Text |-> tool.Text, Image |-> tool.Image]
  BY <1>3, <1>4, <1>5, <1>6 DEF DecodeTool
<1>8. tool = [ToolName |-> tool.ToolName, ToolCallID |-> tool.ToolCallID,
              Metadata |-> tool.Metadata, Text |-> tool.Text, Image |-> tool.Image]
  BY DEF ToolOutputBody
<1> QED
  BY <1>2, <1>7, <1>8

\* The body of an accepted message that decodes without an error decodes to what
\* it was before it was encoded.
LEMMA BodyRoundTrip ==
  ASSUME NEW body \in WireBody, WireBodyAccepted(body),
         DecodeError(EncodeMessageBody(FromProtoBody(body))) = "none"
  PROVE  DecodeMessageBody(EncodeMessageBody(FromProtoBody(body))) = FromProtoBody(body)
<1> DEFINE d == FromProtoBody(body)
           cols == EncodeMessageBody(d)
<1>1. CASE body.variant = "text"
  <2>1. body \in WireText
    BY <1>1 DEF WireBody, WireTool, Absent, Unset
  <2>2. d = [Text |-> body.text, ToolOutput |-> Null] /\ body.text \in Texts
    BY <1>1, <2>1 DEF FromProtoBody, WireText
  <2>3. d.Text # Null
    <3>1. d.Text = body.text
      BY <2>2
    <3> QED
      BY <2>2, <3>1, CodecAssumption
  <2>4. cols = EncodeText(body.text)
    BY <2>2, <2>3 DEF EncodeMessageBody
  <2>5. /\ cols.body_text = StringPtr(body.text) /\ cols.tool_name = Null
    BY <2>4 DEF EncodeText
  <2>6. cols.body_text # Null
    BY <2>5 DEF DecodeError
  <2> QED
    BY <2>2, <2>5, <2>6 DEF DecodeMessageBody, StringPtr
<1>2. CASE body.variant # "text"
  <2>1. body.variant = "tool_output" /\ body.output.variant # "none"
    BY <1>2 DEF WireBodyAccepted
  <2>2. body \in WireTool
    BY <2>1 DEF WireBody, WireText, Absent, Unset
  <2> DEFINE tool == FromProtoTool(body)
  <2>3. d = [Text |-> Null, ToolOutput |-> tool]
    BY <1>2 DEF FromProtoBody
  <2>4. tool \in ToolOutputBody /\ (tool.Text = Null) # (tool.Image = Null)
    BY <2>1, <2>2, ToolType
  <2>5. cols = EncodeTool(tool)
    BY <2>3 DEF EncodeMessageBody
  <2>6. DecodeTool(cols) = tool /\ cols.body_text = Null
    <3> HIDE DEF tool, cols, d
    <3> QED BY <2>4, <2>5, ToolRoundTrip DEF cols, d
  <2> QED
    BY <2>3, <2>6 DEF DecodeMessageBody
<1> QED
  BY <1>1, <1>2

\* A body that fits 16 bits comes back to the wire as it came from it.
LEMMA WireRoundTrip ==
  ASSUME NEW body \in WireBody, WireBodyAccepted(body),
         body.variant = "tool_output" =>
           (body.output.variant = "image" => Fits(body.output.detail))
  PROVE  ToProtoBody(FromProtoBody(body)) = body
<1>1. CASE body.variant = "text"
  <2>1. body \in WireText
    BY <1>1 DEF WireBody, WireTool, Absent, Unset
  <2>2. FromProtoBody(body) = [Text |-> body.text, ToolOutput |-> Null]
    BY <1>1 DEF FromProtoBody
  <2>3. body.text \in Texts /\ body = [variant |-> "text", text |-> body.text]
    BY <2>1 DEF WireText
  <2>4. body.text # Null
    BY <2>3, CodecAssumption
  <2> QED
    BY <2>2, <2>3, <2>4 DEF ToProtoBody
<1>2. CASE body.variant # "text"
  <2>1. body.variant = "tool_output" /\ body.output.variant # "none"
    BY <1>2 DEF WireBodyAccepted
  <2>2. body \in WireTool
    BY <2>1 DEF WireBody, WireText, Absent, Unset
  <2> DEFINE tool == FromProtoTool(body)
  <2>3. FromProtoBody(body) = [Text |-> Null, ToolOutput |-> tool]
    BY <1>2 DEF FromProtoBody
  <2>4. tool \in ToolOutputBody
    BY <2>1, <2>2, ToolType
  <2>5. tool # Null
    BY <2>4, CodecAssumption
  <2>6. ToProtoOutput(tool) = body.output
    <3>1. body.output \in WireText \cup WireImage
      BY <2>1, <2>2 DEF WireTool, WireOutput, Unset
    <3>2. CASE body.output \in WireText
      <4>1. /\ body.output.variant = "text" /\ body.output.text \in Texts
            /\ body.output = [variant |-> "text", text |-> body.output.text]
        BY <3>2 DEF WireText
      <4>2. tool.Text = body.output.text /\ tool.Image = Null
        BY <4>1 DEF FromProtoTool
      <4>3. tool.Text # Null
        BY <4>1, <4>2, CodecAssumption
      <4> QED
        BY <4>1, <4>2, <4>3 DEF ToProtoOutput
    <3>3. CASE body.output \in WireImage
      <4>1. /\ body.output.variant = "image"
            /\ body.output = [variant |-> "image",
                 external_url |-> body.output.external_url,
                 mime_type |-> body.output.mime_type, detail |-> body.output.detail,
                 width_px |-> body.output.width_px, height_px |-> body.output.height_px,
                 sha256 |-> body.output.sha256]
        BY <3>3 DEF WireImage
      <4>2. tool.Image = FromProtoImage(body.output) /\ tool.Image # Null
        BY <3>3, <4>1, ImageType DEF FromProtoTool
      <4>3. FromProtoImage(body.output).Detail = body.output.detail
        BY <2>1, <4>1 DEF FromProtoImage, Fits
      <4>4. ToProtoOutput(tool) =
              [variant |-> "image", external_url |-> body.output.external_url,
               mime_type |-> body.output.mime_type, detail |-> body.output.detail,
               width_px |-> body.output.width_px, height_px |-> body.output.height_px,
               sha256 |-> body.output.sha256]
        BY <4>2, <4>3 DEF ToProtoOutput, FromProtoImage
      <4> QED
        BY <4>1, <4>4
    <3> QED
      BY <3>1, <3>2, <3>3
  <2>7. /\ tool.ToolName = body.tool_name /\ tool.ToolCallID = body.tool_call_id
        /\ tool.Metadata = body.metadata
    BY DEF FromProtoTool
  <2>8. body = [variant |-> "tool_output", tool_name |-> body.tool_name,
                tool_call_id |-> body.tool_call_id, metadata |-> body.metadata,
                output |-> body.output]
    BY <2>2 DEF WireTool
  <2> HIDE DEF tool
  <2> QED
    BY <2>3, <2>5, <2>6, <2>7, <2>8 DEF ToProtoBody
<1> QED
  BY <1>1, <1>2

\* What append answers "stored" to: an accepted input whose row decodes.
LEMMA StoredInput ==
  ASSUME NEW input \in WireInput, AppendOutcome(input) = "stored"
  PROVE  /\ input.role \in Roles /\ input.body \in WireBody
         /\ WireBodyAccepted(input.body)
         /\ DecodeError(EncodeMessageBody(FromProtoBody(input.body))) = "none"
<1>1. input.role \in Roles /\ input.body \in WireBody
  BY DEF WireInput
<1> QED
  <2>1. WireInputAccepted(input) /\ DecodeError(RowOf(input).cols) = "none"
    BY DEF AppendOutcome, DecodeError
  <2>2. RowOf(input).cols = EncodeMessageBody(FromProtoBody(input.body))
    BY DEF RowOf
  <2> QED
    BY <1>1, <2>1, <2>2 DEF WireInputAccepted

\* A stored row answers what was sent.
LEMMA AnswerIsInput ==
  ASSUME NEW input \in WireInput, AppendOutcome(input) = "stored", InputFits(input)
  PROVE  Answer(RowOf(input)) = input
<1>1. DecodeMessageBody(RowOf(input).cols) = FromProtoBody(input.body)
  BY StoredInput, BodyRoundTrip DEF RowOf
<1>2. ToProtoBody(FromProtoBody(input.body)) = input.body
  BY StoredInput, WireRoundTrip DEF InputFits
<1>3. RowOf(input).role = input.role
  BY DEF RowOf, InputFits, Fits
<1>4. input = [role |-> input.role, body |-> input.body]
  BY DEF WireInput
<1> QED
  BY <1>1, <1>2, <1>3, <1>4 DEF Answer

\* A stored row is its own copy.
LEMMA CopyIsRow ==
  ASSUME NEW input \in WireInput, AppendOutcome(input) = "stored"
  PROVE  CopyOf(RowOf(input)) = RowOf(input)
<1>1. DecodeMessageBody(RowOf(input).cols) = FromProtoBody(input.body)
  BY StoredInput, BodyRoundTrip DEF RowOf
<1> QED
  BY <1>1 DEF CopyOf, RowOf

-----------------------------------------------------------------------------
(***************************************************************************)
(* The system.                                                             *)
(***************************************************************************)

\* `hash' is a hash of the body of a row.
HashOf(row, hash) ==
  LET body == DecodeMessageBody(row.cols)
  IN  \E keys \in MapOrders(MetadataOf(body)) : hash = MarshalDeterministicJSON(body, keys)

\* Every row was made from the input of its message, and every copy from a row.
JourneyInv ==
  /\ sent \in [MessageIds -> Inputs \cup {Null}]
  /\ rows = [m \in MessageIds |-> rows[m]]
  /\ \A m \in MessageIds : rows[m] # Null =>
       /\ sent[m] \in Inputs
       /\ AppendOutcome(sent[m]) = "stored"
       /\ rows[m] = RowOf(sent[m])
  /\ snapshot_items = [i \in 1..Len(snapshot_items) |-> snapshot_items[i]]
  /\ Len(snapshot_items) \in Nat
  /\ \A i \in 1..Len(snapshot_items) :
       /\ snapshot_items[i].message_id \in Stored
       /\ snapshot_items[i].row = CopyOf(rows[snapshot_items[i].message_id])
       /\ HashOf(rows[snapshot_items[i].message_id], snapshot_items[i].body_sha256)

\* The invariant holds at the start and survives appends and copies.
LEMMA JourneyInvariant == Spec => []JourneyInv
<1>1. Init => JourneyInv
  BY DEF Init, JourneyInv, Stored
<1>2. JourneyInv /\ [Next]_vars => JourneyInv'
  <2> SUFFICES ASSUME JourneyInv, [Next]_vars PROVE JourneyInv'
    OBVIOUS
  <2>1. CASE UNCHANGED vars
    BY <2>1 DEF vars, JourneyInv, Stored
  <2>2. ASSUME NEW m \in MessageIds, AppendMessage(m) PROVE JourneyInv'
    <3>1. PICK input \in Inputs :
            /\ sent' = [sent EXCEPT ![m] = input]
            /\ rows' = [rows EXCEPT ![m] =
                          IF AppendOutcome(input) = "stored" THEN RowOf(input) ELSE Null]
      BY <2>2 DEF AppendMessage
    <3>2. sent[m] = Null /\ snapshot_items' = snapshot_items
      BY <2>2 DEF AppendMessage
    <3>3. rows[m] = Null
      BY <3>2, JourneyAssumption DEF JourneyInv
    <3>4. \A n \in Stored : n \in Stored' /\ rows'[n] = rows[n]
      BY <3>1, <3>3 DEF Stored, JourneyInv
    <3>5. sent' \in [MessageIds -> Inputs \cup {Null}] /\ rows' = [n \in MessageIds |-> rows'[n]]
      BY <3>1 DEF JourneyInv
    <3>6. ASSUME NEW n \in MessageIds, rows'[n] # Null
          PROVE  /\ sent'[n] \in Inputs
                 /\ AppendOutcome(sent'[n]) = "stored"
                 /\ rows'[n] = RowOf(sent'[n])
      <4>1. CASE n = m
        <5>1. sent'[n] = input
          BY <3>1, <4>1 DEF JourneyInv
        <5>2. rows'[n] = IF AppendOutcome(input) = "stored" THEN RowOf(input) ELSE Null
          BY <3>1, <4>1 DEF JourneyInv
        <5> QED
          BY <3>6, <5>1, <5>2
      <4>2. CASE n # m
        BY <3>1, <3>6, <4>2 DEF JourneyInv
      <4> QED
        BY <4>1, <4>2
    <3> QED
      BY <3>2, <3>4, <3>5, <3>6 DEF JourneyInv
  <2>3. ASSUME NEW m \in MessageIds, CopyMessage(m) PROVE JourneyInv'
    <3>1. PICK hash :
            /\ snapshot_items' =
                 Append(snapshot_items,
                        [message_id |-> m, row |-> CopyOf(rows[m]), body_sha256 |-> hash])
            /\ HashOf(rows[m], hash)
      BY <2>3 DEF CopyMessage, HashOf
    <3>2. rows[m] # Null /\ rows' = rows /\ sent' = sent /\ Stored' = Stored
      BY <2>3 DEF CopyMessage, Stored
    <3> DEFINE s == [message_id |-> m, row |-> CopyOf(rows[m]), body_sha256 |-> hash]
    <3>3. s.message_id = m /\ s.row = CopyOf(rows[m]) /\ HashOf(rows[m], s.body_sha256)
      BY <3>1
    <3>4. snapshot_items' = Append(snapshot_items, s)
      BY <3>1
    <3> HIDE DEF s
    <3>5. /\ Len(snapshot_items') = Len(snapshot_items) + 1
          /\ \A i \in 1..Len(snapshot_items) : snapshot_items'[i] = snapshot_items[i]
          /\ snapshot_items'[Len(snapshot_items) + 1] = s
          /\ snapshot_items' = [i \in 1..Len(snapshot_items') |-> snapshot_items'[i]]
      <4> DEFINE S == {snapshot_items[i] : i \in 1..Len(snapshot_items)} \cup {s}
      <4>1. snapshot_items \in Seq(S) /\ s \in S
        BY DEF JourneyInv
      <4> HIDE DEF S
      <4>2. snapshot_items' \in Seq(S)
        BY <3>4, <4>1
      <4>3. snapshot_items' = [i \in 1..Len(snapshot_items') |-> snapshot_items'[i]]
        BY <4>2
      <4>4. Len(snapshot_items') = Len(snapshot_items) + 1
        BY <3>4, <4>1
      <4>5. \A i \in 1..Len(snapshot_items) : snapshot_items'[i] = snapshot_items[i]
        BY <3>4, <4>1
      <4>6. snapshot_items'[Len(snapshot_items) + 1] = s
        BY <3>4, <4>1
      <4> QED
        BY <4>3, <4>4, <4>5, <4>6
    <3>6. \A i \in 1..Len(snapshot_items') :
            /\ snapshot_items'[i].message_id \in Stored
            /\ snapshot_items'[i].row = CopyOf(rows[snapshot_items'[i].message_id])
            /\ HashOf(rows[snapshot_items'[i].message_id], snapshot_items'[i].body_sha256)
      <4> SUFFICES ASSUME NEW i \in 1..Len(snapshot_items')
                   PROVE  /\ snapshot_items'[i].message_id \in Stored
                          /\ snapshot_items'[i].row = CopyOf(rows[snapshot_items'[i].message_id])
                          /\ HashOf(rows[snapshot_items'[i].message_id],
                                    snapshot_items'[i].body_sha256)
        OBVIOUS
      <4>1. CASE i \in 1..Len(snapshot_items)
        BY <3>5, <4>1 DEF JourneyInv
      <4>2. CASE i = Len(snapshot_items) + 1
        BY <3>2, <3>3, <3>5, <4>2 DEF Stored
      <4> QED
        BY <3>5, <4>1, <4>2 DEF JourneyInv
    <3>7. Len(snapshot_items') \in Nat
      BY <3>5 DEF JourneyInv
    <3> QED
      BY <3>2, <3>5, <3>6, <3>7 DEF JourneyInv
  <2> QED
    BY <2>1, <2>2, <2>3 DEF Next
<1> QED
  BY <1>1, <1>2, PTL DEF Spec

\* A copy is a row that is stored, and equals it.
LEMMA CopiesAreRows ==
  ASSUME JourneyInv, NEW s \in Copies
  PROVE  s.message_id \in Stored /\ s.row = rows[s.message_id]
<1>1. PICK i \in 1..Len(snapshot_items) : s = snapshot_items[i]
  BY DEF Copies, JourneyInv
<1>2. s.message_id \in Stored /\ s.row = CopyOf(rows[s.message_id])
  BY <1>1 DEF JourneyInv
<1>3. /\ sent[s.message_id] \in WireInput
      /\ AppendOutcome(sent[s.message_id]) = "stored"
      /\ rows[s.message_id] = RowOf(sent[s.message_id])
  BY <1>2, JourneyAssumption DEF JourneyInv, Stored
<1> QED
  BY <1>2, <1>3, CopyIsRow

\* Every row and every copy can be decoded: append decodes before it commits,
\* and copies are equal to rows.
THEOREM EverythingStoredIsReadable == Spec => []StoredIsReadable
<1>1. JourneyInv => StoredIsReadable
  <2> SUFFICES ASSUME JourneyInv PROVE StoredIsReadable
    OBVIOUS
  <2>1. ASSUME NEW m \in Stored PROVE DecodeError(rows[m].cols) = "none"
    <3>1. /\ sent[m] \in WireInput /\ AppendOutcome(sent[m]) = "stored"
          /\ rows[m] = RowOf(sent[m])
      BY JourneyAssumption DEF JourneyInv, Stored
    <3> QED
      BY <3>1, StoredInput DEF RowOf
  <2> QED
    BY <2>1, CopiesAreRows DEF StoredIsReadable
<1> QED
  BY <1>1, JourneyInvariant, PTL

\* What a listing answers is what the client appended, for every text, key,
\* length and enum value that fits 16 bits.
THEOREM WhatIsReadWasSent == Spec => []ReadIsSent
<1>1. JourneyInv => ReadIsSent
  <2> SUFFICES ASSUME JourneyInv, NEW m \in Stored, InputFits(sent[m])
               PROVE  Answer(rows[m]) = sent[m]
    BY DEF ReadIsSent
  <2>1. /\ sent[m] \in WireInput /\ AppendOutcome(sent[m]) = "stored"
        /\ rows[m] = RowOf(sent[m])
    BY JourneyAssumption DEF JourneyInv, Stored
  <2> QED
    BY <2>1, AnswerIsInput
<1> QED
  BY <1>1, JourneyInvariant, PTL

\* A snapshot holds the columns of the message it was taken of.
THEOREM CopiesAreFaithful == Spec => []CopyIsFaithful
<1>1. JourneyInv => CopyIsFaithful
  BY CopiesAreRows DEF CopyIsFaithful
<1> QED
  BY <1>1, JourneyInvariant, PTL

\* Narrowing a second time changes nothing.
LEMMA Int16Twice ==
  ASSUME NEW n \in Int
  PROVE  Int16(Int16(n)) = Int16(n)
BY SMT DEF Int16

\* A listing filtered by any roles finds what was appended with one of them, and
\* nothing that none of them is narrowed to, whatever the numbers of the roles.
THEOREM FilterIsExact == Spec => []FilterFindsOwnRole
<1>1. JourneyInv => FilterFindsOwnRole
  <2> SUFFICES ASSUME JourneyInv, NEW m \in Stored, NEW r1 \in Roles, NEW r2 \in Roles
               PROVE  /\ sent[m].role \in {r1, r2} => LetThrough(rows[m], {r1, r2})
                      /\ LetThrough(rows[m], {r1, r2}) =>
                           \E role \in {r1, r2} : Answer(rows[m]).role = Int16(role)
    BY DEF FilterFindsOwnRole
  <2>1. sent[m] \in WireInput /\ rows[m] = RowOf(sent[m])
    BY JourneyAssumption DEF JourneyInv, Stored
  <2>2. rows[m].role = Int16(sent[m].role) /\ Answer(rows[m]).role = rows[m].role
    BY <2>1 DEF RowOf, Answer
  <2>3. Int16(Int16(r1)) = Int16(r1) /\ Int16(Int16(r2)) = Int16(r2)
    BY CodecAssumption, Int16Twice
  <2>4. \A n : n \in FilterRoles({r1, r2}) <=> n = Int16(r1) \/ n = Int16(r2)
    BY <2>3 DEF FilterRoles
  <2> QED
    BY <2>2, <2>4 DEF LetThrough
<1> QED
  BY <1>1, JourneyInvariant, PTL

-----------------------------------------------------------------------------
(***************************************************************************)
(* The hash.                                                               *)
(***************************************************************************)

\* The keys of a finite map, in any order, are all of its keys.
LEMMA OrderOfMap ==
  ASSUME NEW map, IsFiniteSet(DOMAIN map), NEW keys \in MapOrders(map)
  PROVE  /\ DOMAIN keys = 1..Cardinality(DOMAIN map)
         /\ {keys[i] : i \in DOMAIN keys} = DOMAIN map
<1> DEFINE K == DOMAIN map
           n == Cardinality(K)
<1>1. n \in Nat
  BY FS_CardinalityType
<1>2. keys \in [1..n -> K] /\ \A i, j \in 1..n : i # j => keys[i] # keys[j]
  BY DEF MapOrders
<1> HIDE DEF K, n
<1>3. keys \in Injection(1..n, K)
  BY <1>2 DEF Injection, IsInjective
<1>4. Cardinality(1..n) = n
  BY <1>1, FS_Interval
<1>5. keys \in Surjection(1..n, K)
  BY <1>3, <1>4, FS_Injection DEF K, n
<1>6. \A k \in K : \E i \in 1..n : keys[i] = k
  BY <1>5 DEF Surjection
<1> QED
  BY <1>2, <1>6 DEF K, n

\* What sort.Strings yields: s lists K in ascending order.
Ascending(s, n, K) ==
  /\ s \in [1..n -> K]
  /\ \A i, j \in 1..n : i < j => s[i] < s[j]

\* A finite set of keys can be listed in ascending order: each key at its rank.
LEMMA AscendingExists ==
  ASSUME NEW K \in SUBSET Nat, IsFiniteSet(K)
  PROVE  \E s : Ascending(s, Cardinality(K), K)
<1> DEFINE n        == Cardinality(K)
           below(k) == {j \in K : j <= k}
           rank     == [k \in K |-> Cardinality(below(k))]
<1>1. n \in Nat
  BY FS_CardinalityType
<1>2. ASSUME NEW k \in K
      PROVE  IsFiniteSet(below(k)) /\ Cardinality(below(k)) \in 1..n
  <2>1. below(k) \in SUBSET K /\ k \in below(k)
    OBVIOUS
  <2> HIDE DEF below
  <2>2. IsFiniteSet(below(k)) /\ Cardinality(below(k)) <= n
    BY <2>1, FS_Subset
  <2>3. Cardinality(below(k)) \in Nat /\ Cardinality(below(k)) # 0
    BY <2>1, <2>2, FS_CardinalityType, FS_EmptySet
  <2> QED
    BY <1>1, <2>2, <2>3
<1>3. ASSUME NEW j \in K, NEW k \in K, j < k
      PROVE  Cardinality(below(j)) < Cardinality(below(k))
  <2>1. below(j) \in SUBSET below(k) /\ k \in below(k) /\ k \notin below(j)
    <3>1. \A i \in K : i \in Nat
      OBVIOUS
    <3>2. \A i \in K : i <= j => i <= k
      BY <1>3, <3>1
    <3>3. k <= k /\ ~(k <= j)
      BY <1>3, <3>1
    <3> QED
      BY <3>2, <3>3
  <2>2. /\ IsFiniteSet(below(k))
        /\ Cardinality(below(j)) \in Nat /\ Cardinality(below(k)) \in Nat
    BY <1>1, <1>2
  <2> HIDE DEF below
  <2>3. below(j) # below(k)
    BY <2>1
  <2>4. Cardinality(below(j)) <= Cardinality(below(k))
    BY ONLY <2>1, <2>2, FS_Subset
  <2>5. Cardinality(below(j)) # Cardinality(below(k))
    BY ONLY <2>1, <2>2, <2>3, FS_Subset
  <2> QED
    BY <2>2, <2>4, <2>5
<1>4. rank \in [K -> 1..n] /\ \A j, k \in K : j < k => rank[j] < rank[k]
  BY <1>2, <1>3
<1> HIDE DEF rank
<1>5. \A k \in K : rank[k] \in 1..n
  BY <1>4
<1>6. rank \in Injection(K, 1..n)
  <2>1. ASSUME NEW j \in K, NEW k \in K, rank[j] = rank[k] PROVE j = k
    <3>1. j \in Nat /\ k \in Nat /\ rank[j] \in Int /\ rank[k] \in Int
      BY <1>1, <1>5
    <3>2. ~(rank[j] < rank[k]) /\ ~(rank[k] < rank[j])
      BY <2>1, <3>1
    <3> QED
      BY <1>4, <3>1, <3>2
  <2> QED
    BY <1>4, <2>1 DEF Injection, IsInjective
<1>7. IsFiniteSet(1..n) /\ Cardinality(1..n) = n
  BY <1>1, FS_Interval
<1>8. rank \in Surjection(K, 1..n)
  BY <1>6, <1>7, FS_Injection
<1>9. \A i \in 1..n : \E k \in K : rank[k] = i
  BY <1>8 DEF Surjection
<1> DEFINE s == [i \in 1..n |-> CHOOSE k \in K : rank[k] = i]
<1>10. s \in [1..n -> K] /\ \A i \in 1..n : rank[s[i]] = i
  BY <1>9
<1> HIDE DEF s, n
<1>11. ASSUME NEW i \in 1..n, NEW j \in 1..n, i < j
       PROVE  s[i] < s[j]
  <2>1. s[i] \in K /\ s[j] \in K /\ rank[s[i]] = i /\ rank[s[j]] = j
    BY <1>10
  <2>2. s[i] \in Nat /\ s[j] \in Nat
    BY <2>1
  <2>3. s[i] # s[j]
    BY <1>11, <2>1
  <2>4. ~(s[j] < s[i])
    <3>1. s[j] < s[i] => j < i
      BY <1>4, <2>1
    <3> QED
      BY <1>11, <3>1
  <2> QED
    BY <2>2, <2>3, <2>4
<1> QED
  BY <1>10, <1>11 DEF Ascending, n

\* Sorting forgets the order in which the map yielded its keys, and no key.
LEMMA SortedOrder ==
  ASSUME NEW map, DOMAIN map \in SUBSET Nat, IsFiniteSet(DOMAIN map),
         NEW keys \in MapOrders(map)
  PROVE  LET n == Cardinality(DOMAIN map) IN
         /\ Sorted(keys) = CHOOSE s \in [1..n -> DOMAIN map] :
                             \A i, j \in DOMAIN s : i < j => s[i] < s[j]
         /\ Sorted(keys) \in [1..n -> DOMAIN map]
         /\ \A k \in DOMAIN map : \E i \in 1..n : Sorted(keys)[i] = k
<1> DEFINE K == DOMAIN map
           n == Cardinality(K)
           s == Sorted(keys)
<1>1. n \in Nat /\ DOMAIN keys = 1..n /\ {keys[i] : i \in DOMAIN keys} = K
  BY OrderOfMap, FS_CardinalityType
<1>2. s = CHOOSE t \in [1..n -> K] : \A i, j \in DOMAIN t : i < j => t[i] < t[j]
  BY <1>1 DEF Sorted
<1> HIDE DEF K, n, s
<1>3. K \in SUBSET Nat /\ IsFiniteSet(K) /\ n = Cardinality(K)
  BY DEF K, n
<1>4. PICK t : Ascending(t, n, K)
  BY <1>3, AscendingExists
<1>5. t \in [1..n -> K] /\ \A i, j \in DOMAIN t : i < j => t[i] < t[j]
  BY <1>4 DEF Ascending
<1>6. s \in [1..n -> K] /\ \A i, j \in DOMAIN s : i < j => s[i] < s[j]
  BY <1>2, <1>5
<1>7. s \in Injection(1..n, K)
  <2>1. ASSUME NEW i \in 1..n, NEW j \in 1..n, s[i] = s[j] PROVE i = j
    <3>1. s[i] \in Nat /\ s[j] \in Nat /\ DOMAIN s = 1..n
      BY <1>3, <1>6
    <3>2. ~(s[i] < s[j]) /\ ~(s[j] < s[i])
      BY <2>1, <3>1
    <3>3. ~(i < j) /\ ~(j < i)
      BY <1>6, <3>1, <3>2
    <3> QED
      BY <1>1, <3>3
  <2> QED
    BY <1>6, <2>1 DEF Injection, IsInjective
<1>8. Cardinality(1..n) = n
  BY <1>1, FS_Interval
<1>9. s \in Surjection(1..n, K)
  BY <1>3, <1>7, <1>8, FS_Injection
<1>10. \A k \in K : \E i \in 1..n : s[i] = k
  BY <1>9 DEF Surjection
<1> QED
  BY <1>2, <1>6, <1>10 DEF K, n, s

\* The bodies that are hashed.
HashedBody(body) ==
  /\ body = [Text |-> body.Text, ToolOutput |-> body.ToolOutput]
  /\ (body.Text = Null) # (body.ToolOutput = Null)
  /\ body.ToolOutput # Null => body.ToolOutput \in ToolOutputBody

\* The keys of metadata are naturals, and there are finitely many.
LEMMA MetadataKeys ==
  ASSUME NEW map \in Metadata
  PROVE  /\ DOMAIN map \in SUBSET Nat /\ IsFiniteSet(DOMAIN map)
         /\ map = [k \in DOMAIN map |-> map[k]]
<1>1. PICK K \in SUBSET Keys : IsFiniteSet(K) /\ map \in [K -> Texts]
  BY DEF Metadata
<1> QED
  BY <1>1, CodecAssumption

\* The hash of a body does not depend on the order of the map.
LEMMA HashIsDeterministic ==
  ASSUME NEW body, HashedBody(body),
         NEW keys1 \in MapOrders(MetadataOf(body)), NEW keys2 \in MapOrders(MetadataOf(body))
  PROVE  MarshalDeterministicJSON(body, keys1) = MarshalDeterministicJSON(body, keys2)
<1>1. CASE body.ToolOutput = Null
  BY <1>1 DEF MarshalDeterministicJSON
<1>2. CASE body.ToolOutput # Null
  <2> DEFINE map == body.ToolOutput.Metadata
  <2>1. map \in Metadata /\ MetadataOf(body) = map
    BY <1>2 DEF HashedBody, ToolOutputBody, MetadataOf
  <2>2. DOMAIN map \in SUBSET Nat /\ IsFiniteSet(DOMAIN map)
    BY <2>1, MetadataKeys
  <2>3. keys1 \in MapOrders(map) /\ keys2 \in MapOrders(map)
    BY <2>1
  <2> HIDE DEF map
  <2>4. Sorted(keys1) = Sorted(keys2)
    BY <2>2, <2>3, SortedOrder
  <2> QED
    BY <1>2, <2>4 DEF MarshalDeterministicJSON
<1> QED
  BY <1>1, <1>2

\* The pairs that are written of a map.
Pairs(map, keys) == [i \in DOMAIN Sorted(keys) |-> <<Sorted(keys)[i], map[Sorted(keys)[i]]>>]

\* The pairs written of a map tell it.
LEMMA PairsTellMap ==
  ASSUME NEW map1 \in Metadata, NEW keys1 \in MapOrders(map1),
         NEW map2 \in Metadata, NEW keys2 \in MapOrders(map2),
         Pairs(map1, keys1) = Pairs(map2, keys2)
  PROVE  map1 = map2
<1> DEFINE n1 == Cardinality(DOMAIN map1)
           n2 == Cardinality(DOMAIN map2)
           s1 == Sorted(keys1)
           s2 == Sorted(keys2)
           p1 == Pairs(map1, keys1)
           p2 == Pairs(map2, keys2)
<1>1. /\ s1 \in [1..n1 -> DOMAIN map1] /\ \A k \in DOMAIN map1 : \E i \in 1..n1 : s1[i] = k
      /\ s2 \in [1..n2 -> DOMAIN map2] /\ \A k \in DOMAIN map2 : \E i \in 1..n2 : s2[i] = k
  BY MetadataKeys, SortedOrder
<1>2. /\ p1 = [i \in 1..n1 |-> <<s1[i], map1[s1[i]]>>]
      /\ p2 = [i \in 1..n2 |-> <<s2[i], map2[s2[i]]>>]
  BY <1>1 DEF Pairs
<1> HIDE DEF s1, s2, n1, n2
<1>3. 1..n1 = 1..n2 /\ \A i \in 1..n1 : p1[i] = p2[i]
  BY <1>2
<1>4. ASSUME NEW i \in 1..n1 PROVE s1[i] = s2[i] /\ map1[s1[i]] = map2[s2[i]]
  <2>1. p1[i] = <<s1[i], map1[s1[i]]>>
    BY <1>2
  <2>2. p2[i] = <<s2[i], map2[s2[i]]>>
    BY <1>2, <1>3
  <2>3. <<s1[i], map1[s1[i]]>> = <<s2[i], map2[s2[i]]>>
    BY <1>3, <2>1, <2>2
  <2> QED
    BY <2>3
<1>5. DOMAIN map1 = DOMAIN map2 /\ \A k \in DOMAIN map1 : map1[k] = map2[k]
  <2>1. ASSUME NEW k \in DOMAIN map1 PROVE k \in DOMAIN map2 /\ map1[k] = map2[k]
    <3>1. PICK i \in 1..n1 : s1[i] = k
      BY <1>1
    <3>2. s2[i] = k /\ map1[k] = map2[k]
      BY <1>4, <3>1
    <3> QED
      BY <1>1, <1>3, <3>2
  <2>2. ASSUME NEW k \in DOMAIN map2 PROVE k \in DOMAIN map1
    <3>1. PICK i \in 1..n2 : s2[i] = k
      BY <1>1
    <3>2. i \in 1..n1 /\ s1[i] = k
      BY <1>3, <1>4, <3>1
    <3> QED
      BY <1>1, <3>2
  <2> QED
    BY <2>1, <2>2
<1>6. map1 = [k \in DOMAIN map1 |-> map1[k]] /\ map2 = [k \in DOMAIN map2 |-> map2[k]]
  BY MetadataKeys
<1> QED
  BY <1>5, <1>6

\* The hash tells the body.
LEMMA HashTellsBody ==
  ASSUME NEW body1, HashedBody(body1), NEW keys1 \in MapOrders(MetadataOf(body1)),
         NEW body2, HashedBody(body2), NEW keys2 \in MapOrders(MetadataOf(body2)),
         MarshalDeterministicJSON(body1, keys1) = MarshalDeterministicJSON(body2, keys2)
  PROVE  body1 = body2
<1> DEFINE hash1 == MarshalDeterministicJSON(body1, keys1)
           hash2 == MarshalDeterministicJSON(body2, keys2)
           tool1 == body1.ToolOutput
           tool2 == body2.ToolOutput
           pairs1 == Pairs(tool1.Metadata, keys1)
           pairs2 == Pairs(tool2.Metadata, keys2)
<1>1. /\ tool1 = Null => hash1 = [text |-> body1.Text]
      /\ tool2 = Null => hash2 = [text |-> body2.Text]
      /\ tool1 # Null => hash1 = [tool_output |-> [tool1 EXCEPT !.Metadata = pairs1]]
      /\ tool2 # Null => hash2 = [tool_output |-> [tool2 EXCEPT !.Metadata = pairs2]]
  BY DEF MarshalDeterministicJSON, Pairs
<1>2. hash1 = hash2
  OBVIOUS
<1>3. /\ tool1 # Null => tool1 \in ToolOutputBody
      /\ tool2 # Null => tool2 \in ToolOutputBody
  BY DEF HashedBody
<1> HIDE DEF hash1, hash2, tool1, tool2, pairs1, pairs2
<1>4. CASE tool1 = Null /\ tool2 = Null
  <2>1. body1.Text = body2.Text
    <3>1. hash1.text = body1.Text /\ hash2.text = body2.Text
      BY <1>1, <1>4
    <3> QED
      BY <1>2, <3>1
  <2> QED
    BY <1>4, <2>1 DEF HashedBody, tool1, tool2
<1>5. CASE tool1 = Null /\ tool2 # Null
  <2>1. DOMAIN hash1 = {"text"} /\ DOMAIN hash2 = {"tool_output"}
    BY <1>1, <1>5
  <2> QED
    BY <1>2, <2>1
<1>6. CASE tool1 # Null /\ tool2 = Null
  <2>1. DOMAIN hash2 = {"text"} /\ DOMAIN hash1 = {"tool_output"}
    BY <1>1, <1>6
  <2> QED
    BY <1>2, <2>1
<1>7. CASE tool1 # Null /\ tool2 # Null
  <2>1. [tool1 EXCEPT !.Metadata = pairs1] = [tool2 EXCEPT !.Metadata = pairs2]
    <3> DEFINE t1 == [tool1 EXCEPT !.Metadata = pairs1]
               t2 == [tool2 EXCEPT !.Metadata = pairs2]
    <3>1. hash1 = [tool_output |-> t1] /\ hash2 = [tool_output |-> t2]
      BY <1>1, <1>7
    <3> HIDE DEF t1, t2
    <3>2. hash1.tool_output = t1 /\ hash2.tool_output = t2
      BY <3>1
    <3> QED
      BY <1>2, <3>2 DEF t1, t2
  <2>2. /\ tool1 = [ToolName |-> tool1.ToolName, ToolCallID |-> tool1.ToolCallID,
                    Metadata |-> tool1.Metadata, Text |-> tool1.Text, Image |-> tool1.Image]
        /\ tool2 = [ToolName |-> tool2.ToolName, ToolCallID |-> tool2.ToolCallID,
                    Metadata |-> tool2.Metadata, Text |-> tool2.Text, Image |-> tool2.Image]
        /\ tool1.Metadata \in Metadata /\ tool2.Metadata \in Metadata
    BY <1>3, <1>7 DEF ToolOutputBody
  <2>3. /\ tool1.ToolName = tool2.ToolName /\ tool1.ToolCallID = tool2.ToolCallID
        /\ tool1.Text = tool2.Text /\ tool1.Image = tool2.Image
        /\ pairs1 = pairs2
    <3>1. [ToolName |-> tool1.ToolName, ToolCallID |-> tool1.ToolCallID,
           Metadata |-> pairs1, Text |-> tool1.Text, Image |-> tool1.Image] =
          [ToolName |-> tool2.ToolName, ToolCallID |-> tool2.ToolCallID,
           Metadata |-> pairs2, Text |-> tool2.Text, Image |-> tool2.Image]
      BY <2>1, <2>2
    <3> QED
      BY <3>1
  <2>4. keys1 \in MapOrders(tool1.Metadata) /\ keys2 \in MapOrders(tool2.Metadata)
    BY <1>7 DEF MetadataOf, tool1, tool2
  <2>5. tool1.Metadata = tool2.Metadata
    BY <2>2, <2>3, <2>4, PairsTellMap DEF pairs1, pairs2
  <2>6. tool1 = tool2
    BY <2>2, <2>3, <2>5
  <2>7. body1.Text = Null /\ body2.Text = Null
    BY <1>7 DEF HashedBody, tool1, tool2
  <2> QED
    BY <2>6, <2>7 DEF HashedBody, tool1, tool2
<1> QED
  BY <1>4, <1>5, <1>6, <1>7

\* What append stores is a body that can be hashed.
LEMMA InputIsHashed ==
  ASSUME NEW body \in WireBody, WireBodyAccepted(body)
  PROVE  HashedBody(FromProtoBody(body))
<1>1. CASE body.variant = "text"
  <2>1. body \in WireText
    BY <1>1 DEF WireBody, WireTool, Absent, Unset
  <2>2. FromProtoBody(body) = [Text |-> body.text, ToolOutput |-> Null]
    BY <1>1 DEF FromProtoBody
  <2>3. body.text # Null
    BY <2>1, CodecAssumption DEF WireText
  <2> QED
    BY <2>2, <2>3 DEF HashedBody
<1>2. CASE body.variant # "text"
  <2>1. body.variant = "tool_output" /\ body.output.variant # "none"
    BY <1>2 DEF WireBodyAccepted
  <2>2. body \in WireTool
    BY <2>1 DEF WireBody, WireText, Absent, Unset
  <2>3. FromProtoTool(body) \in ToolOutputBody
    BY <2>1, <2>2, ToolType
  <2>4. FromProtoTool(body) # Null
    BY <2>3, CodecAssumption
  <2>5. FromProtoBody(body) = [Text |-> Null, ToolOutput |-> FromProtoTool(body)]
    BY <1>2 DEF FromProtoBody
  <2> QED
    BY <2>3, <2>4, <2>5 DEF HashedBody
<1> QED
  BY <1>1, <1>2

\* A copy holds the hash of the body that its columns encode.
LEMMA CopiesAreHashed ==
  ASSUME JourneyInv, NEW s \in Copies
  PROVE  LET body == DecodeMessageBody(s.row.cols) IN
         /\ HashedBody(body)
         /\ s.row.cols = EncodeMessageBody(body)
         /\ \E keys \in MapOrders(MetadataOf(body)) :
              s.body_sha256 = MarshalDeterministicJSON(body, keys)
<1>1. s.message_id \in Stored /\ s.row = rows[s.message_id]
  BY CopiesAreRows
<1>2. PICK i \in 1..Len(snapshot_items) : s = snapshot_items[i]
  BY DEF Copies, JourneyInv
<1>3. HashOf(s.row, s.body_sha256)
  BY <1>1, <1>2 DEF JourneyInv
<1> DEFINE input == sent[s.message_id]
<1>4. input \in WireInput /\ AppendOutcome(input) = "stored" /\ s.row = RowOf(input)
  BY <1>1, JourneyAssumption DEF JourneyInv, Stored
<1> HIDE DEF input
<1>5. s.row.cols = EncodeMessageBody(FromProtoBody(input.body))
  BY <1>4 DEF RowOf
<1>6. DecodeMessageBody(s.row.cols) = FromProtoBody(input.body)
  BY <1>4, <1>5, StoredInput, BodyRoundTrip
<1>7. HashedBody(FromProtoBody(input.body))
  BY <1>4, StoredInput, InputIsHashed
<1> QED
  BY <1>3, <1>5, <1>6, <1>7 DEF HashOf

\* Two copies have the same hash exactly if they hold the same body, for any
\* keys and texts, and whatever order Go ranges over the metadata in.
THEOREM HashesAreExact == Spec => []HashTellsBodies
<1>1. JourneyInv => HashTellsBodies
  <2> SUFFICES ASSUME JourneyInv, NEW s \in Copies, NEW t \in Copies
               PROVE  (s.body_sha256 = t.body_sha256) <=> (s.row.cols = t.row.cols)
    BY DEF HashTellsBodies
  <2> DEFINE body1 == DecodeMessageBody(s.row.cols)
             body2 == DecodeMessageBody(t.row.cols)
  <2>1. HashedBody(body1) /\ s.row.cols = EncodeMessageBody(body1)
    BY CopiesAreHashed
  <2>2. HashedBody(body2) /\ t.row.cols = EncodeMessageBody(body2)
    BY CopiesAreHashed
  <2>3. PICK keys1 \in MapOrders(MetadataOf(body1)) :
          s.body_sha256 = MarshalDeterministicJSON(body1, keys1)
    BY CopiesAreHashed
  <2>4. PICK keys2 \in MapOrders(MetadataOf(body2)) :
          t.body_sha256 = MarshalDeterministicJSON(body2, keys2)
    BY CopiesAreHashed
  <2>5. s.row.cols = t.row.cols => body1 = body2
    OBVIOUS
  <2> HIDE DEF body1, body2
  <2>6. ASSUME s.body_sha256 = t.body_sha256 PROVE s.row.cols = t.row.cols
    <3>1. MarshalDeterministicJSON(body1, keys1) = MarshalDeterministicJSON(body2, keys2)
      BY <2>3, <2>4, <2>6
    <3>2. body1 = body2
      BY <2>1, <2>2, <3>1, HashTellsBody
    <3> QED
      BY <2>1, <2>2, <3>2
  <2>7. ASSUME s.row.cols = t.row.cols PROVE s.body_sha256 = t.body_sha256
    <3>1. body1 = body2
      BY <2>5, <2>7
    <3>2. keys2 \in MapOrders(MetadataOf(body1))
      BY <3>1
    <3>3. MarshalDeterministicJSON(body1, keys1) = MarshalDeterministicJSON(body1, keys2)
      BY <2>1, <3>2, HashIsDeterministic
    <3> QED
      BY <2>3, <2>4, <3>1, <3>3
  <2> QED
    BY <2>6, <2>7
<1> QED
  BY <1>1, JourneyInvariant, PTL

=============================================================================
