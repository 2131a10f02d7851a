------------------------------- MODULE Packet -------------------------------
(*****************************************************************************)
(* KDE Connect packets (valent-packet.c): how one is built, checked, written *)
(* to a stream as a line of JSON, and read back by a thread that takes one   *)
(* byte at a time, so that what follows the line is left to whoever reads    *)
(* the stream next (the TLS handshake, another packet).  The other end need  *)
(* not be Valent: it may write any document, or leave out the newline.       *)
(*                                                                           *)
(* A JSON node is the name of what it holds; a byte of the stream is the     *)
(* document it belongs to and its place there.                               *)
(*****************************************************************************)
EXTENDS Integers, Sequences, SequencesExt

CONSTANTS
    MaxLen,              \* the longest packet the reader takes
    FirstSize,           \* what its buffer has room for at first
    MaxDocuments         \* bound: documents written

VARIABLES
    draft,               \* the packet being built
    written,             \* the documents of the stream, in order
    unsent,              \* bytes g_output_stream_write_all_async() still has
    sent,                \* what the last task to write returned
    stream,              \* bytes on their way to the reader
    closed,              \* the writing end was closed
    reader,              \* the reading thread
    line,                \* what it has read
    size,                \* the size of its buffer
    results              \* what its tasks returned

writeVars == <<draft, written, unsent, sent, closed>>
readVars == <<reader, line, size, results>>
vars == <<writeVars, stream, readVars>>
-----------------------------------------------------------------------------
(* Nodes and documents                                                       *)

Missing == "missing"

(* json_node_get_value_type(), and json_node_get_node_type() for containers  *)
ValueType(node) ==
    CASE node \in {"true", "false"} -> "boolean"
      [] node \in {"", "text"} -> "string"
      [] node \in {"strings", "mixed"} -> "array"
      [] OTHER -> node

FieldNodes == {Missing, "null", "true", "false", "", "text", "int", "double",
               "strings", "mixed", "object"}

Members == {"type", "body", "payloadSize", "payloadTransferInfo"}

(* A document; one whose root is no object has no members                    *)
Document(root, members) == [root |-> root, members |-> members, newline |-> TRUE]

NoMembers == [m \in Members |-> Missing]

valent_packet_new ==
    Document("object", [NoMembers EXCEPT !["type"] = "text", !["body"] = "object"])

Has(doc, m, type) == ValueType(doc.members[m]) = type
MayHave(doc, m, type) == doc.members[m] = Missing \/ Has(doc, m, type)

(* The error of a member that is required, and of one that is optional       *)
Required(doc, m, type) ==
    IF Has(doc, m, type) THEN "none"
    ELSE IF doc.members[m] = Missing THEN "missing-field" ELSE "invalid-field"
Optional(doc, m, type) == IF MayHave(doc, m, type) THEN "none" ELSE "invalid-field"

FirstError(errors) ==
    LET wrong == {i \in DOMAIN errors : errors[i] # "none"}
    IN  IF wrong = {} THEN "none" ELSE errors[Min(wrong)]

Validate(doc) ==
    CASE doc.root = "nothing" -> "invalid-data"
      [] doc.root \notin {"nothing", "object"} -> "malformed"
      [] OTHER ->
           FirstError(<<Required(doc, "type", "string"),
                        Required(doc, "body", "object"),
                        Optional(doc, "payloadSize", "int"),
                        Optional(doc, "payloadTransferInfo", "object")>>)

(* VALENT_IS_PACKET(), written out again in the header                       *)
IsValid(doc) ==
    /\ doc.root = "object"
    /\ Has(doc, "type", "string")
    /\ Has(doc, "body", "object")
    /\ MayHave(doc, "payloadSize", "int")
    /\ MayHave(doc, "payloadTransferInfo", "object")
-----------------------------------------------------------------------------
(* What the rest of the program asks of a packet it received                 *)

GetType(doc) == doc.root = "object" /\ Has(doc, "type", "string")
GetBody(doc) == doc.root = "object" /\ Has(doc, "body", "object")

HasPayload(doc) ==
    /\ IsValid(doc)
    /\ MayHave(doc, "payloadSize", "int")
    /\ Has(doc, "payloadTransferInfo", "object")

(* The error of valent_packet_get_payload_full()                             *)
GetPayloadFull(doc) ==
    IF Validate(doc) # "none" THEN Validate(doc)
    ELSE IF ~MayHave(doc, "payloadSize", "int") THEN "invalid-field"
    ELSE Required(doc, "payloadTransferInfo", "object")

GetPayloadInfo(doc) == doc.root = "object" /\ Has(doc, "payloadTransferInfo", "object")

(* A size that is there is 1; it is 0 for what is no packet                  *)
GetPayloadSize(doc) ==
    IF ~IsValid(doc) THEN 0 ELSE IF Has(doc, "payloadSize", "int") THEN 1 ELSE -1

(* Of the members of the body only one is looked at: its node                *)
Field(doc, node) == IF GetBody(doc) THEN node ELSE Missing

CheckField(doc, node) == Field(doc, node) \notin {Missing, "false", ""}

GetBoolean(doc, node) == ValueType(Field(doc, node)) = "boolean"
GetDouble(doc, node) == ValueType(Field(doc, node)) = "double"
GetInt(doc, node) == ValueType(Field(doc, node)) = "int"
GetString(doc, node) == ValueType(Field(doc, node)) = "string" /\ Field(doc, node) # ""
GetArray(doc, node) == ValueType(Field(doc, node)) = "array"
GetObject(doc, node) == ValueType(Field(doc, node)) = "object"
DupStrv(doc, node) == Field(doc, node) = "strings"
-----------------------------------------------------------------------------
(* Lines                                                                     *)

(* The bytes of a document: one for its root, one for each member, and the   *)
(* newline.  An empty line has no document.                                  *)
Present(doc) == {m \in Members : doc.members[m] # Missing}
Content(doc) ==
    IF doc.root = "nothing" THEN 0
    ELSE 1 + Cardinality(Present(doc))
Length(doc) == Content(doc) + (IF doc.newline THEN 1 ELSE 0)

Newline == 0

BytesOf(d, doc) ==
    [i \in 1..Length(doc) |-> [doc |-> d, at |-> IF i > Content(doc) THEN Newline ELSE i]]

(* valent_packet_serialize(): the line as a whole, for a datagram            *)
Serialize(d, doc) == IF IsValid(doc) THEN BytesOf(d, doc) ELSE <<>>

Ends(bytes) == bytes # <<>> /\ bytes[Len(bytes)].at = Newline

(* What json_parser_load_from_data() makes of a line                         *)
Json(bytes) ==
    LET text == SelectSeq(bytes, LAMBDA b : b.at # Newline)
        IsText(d) == text = SubSeq(BytesOf(d, written[d]), 1, Content(written[d]))
    IN  IF text = <<>> THEN Document("nothing", NoMembers)
        ELSE IF \E d \in DOMAIN written : IsText(d)
             THEN written[CHOOSE d \in DOMAIN written : IsText(d)]
             ELSE Document("garbage", NoMembers)

(* The outcome of a line: the packet, or the error                           *)
Parsed(bytes) ==
    LET doc == Json(bytes)
        error == IF doc.root = "garbage" THEN "parse-error" ELSE Validate(doc)
    IN  [error |-> error, packet |-> doc]

(* valent_packet_deserialize() of a whole line (a channel's, a datagram)     *)
Deserialize(bytes) ==
    LET doc == Json(bytes)
    IN  IF doc.root = "nothing" THEN [error |-> "none", packet |-> doc]
        ELSE Parsed(bytes)
-----------------------------------------------------------------------------

Init ==
    /\ draft = valent_packet_new
    /\ written = <<>> /\ unsent = <<>> /\ sent = "none" /\ stream = <<>>
    /\ closed = FALSE
    /\ reader = "idle"
    /\ line = <<>> /\ size = FirstSize
    /\ results = <<>>

(* Whoever leaves out the newline has nothing more to say                    *)
MayWrite ==
    /\ ~closed /\ unsent = <<>> /\ Len(written) < MaxDocuments
    /\ \A d \in DOMAIN written : written[d].newline

Redraft(doc) ==
    /\ MayWrite
    /\ draft # doc
    /\ draft' = doc
    /\ UNCHANGED <<written, unsent, sent, closed, stream, readVars>>

New == Redraft(valent_packet_new)

SetPayloadFull ==
    /\ IsValid(draft)
    /\ Redraft([draft EXCEPT !.members["payloadTransferInfo"] = "object",
                             !.members["payloadSize"] = "int"])
SetPayloadInfo ==
    /\ IsValid(draft)
    /\ Redraft([draft EXCEPT !.members["payloadTransferInfo"] = "object"])
SetPayloadSize ==
    /\ IsValid(draft)
    /\ Redraft([draft EXCEPT !.members["payloadSize"] = "int"])

(* A packet made without these functions, with one member that is wrong      *)
MakeByHand ==
    \E m \in Members, node \in {Missing, "null", "text", "int", "strings"} :
        Redraft([valent_packet_new EXCEPT !.members[m] = node])

(* What is written is stamped and ended by a newline                         *)
Write(doc) ==
    /\ written' = Append(written, doc)
    /\ unsent' = BytesOf(Len(written) + 1, doc)
    /\ sent' = IF unsent' = <<>> THEN "done" ELSE "none"

ToStream ==
    /\ MayWrite
    /\ IF Validate(draft) = "none"
       THEN Write(draft)
       ELSE sent' = "failed" /\ UNCHANGED <<written, unsent>>
    /\ draft' = valent_packet_new
    /\ UNCHANGED <<closed, stream, readVars>>

(* Another program at the other end does not check what it writes            *)
OtherWrites ==
    /\ MayWrite
    /\ \E doc \in {draft, Document("nothing", NoMembers), Document("array", NoMembers)},
          newline \in BOOLEAN : Write([doc EXCEPT !.newline = newline])
    /\ draft' = valent_packet_new
    /\ UNCHANGED <<closed, stream, readVars>>

(* g_output_stream_write_all_async() writes some of it, and calls back when  *)
(* there is no more                                                          *)
WriteAll ==
    /\ unsent # <<>>
    /\ unsent' = Tail(unsent)
    /\ stream' = Append(stream, Head(unsent))
    /\ sent' = IF unsent' = <<>> THEN "done" ELSE sent
    /\ UNCHANGED <<draft, written, closed, readVars>>

(* The connection is closed: with something to write, the write has failed   *)
(* or was cancelled                                                          *)
Close ==
    /\ ~closed
    /\ closed' = TRUE
    /\ unsent' = <<>>
    /\ sent' = IF unsent # <<>> THEN "failed" ELSE sent
    /\ UNCHANGED <<draft, written, stream, readVars>>

FromStream ==
    /\ reader = "idle"
    /\ reader' = "reading"
    /\ line' = <<>> /\ size' = FirstSize
    /\ UNCHANGED <<writeVars, stream, results>>

(* The task is over; whoever asked reads on only after a packet              *)
Return(result) ==
    /\ results' = Append(results, result)
    /\ reader' = IF result.error = "none" THEN "idle" ELSE "failed"

TooLarge ==
    /\ reader = "reading"
    /\ Len(line) = MaxLen
    /\ Return([error |-> "too-large", packet |-> Document("nothing", NoMembers)])
    /\ UNCHANGED <<writeVars, stream, line, size>>

Grow ==
    size' = IF Len(line) = size
            THEN IF size * 2 < MaxLen THEN size * 2 ELSE MaxLen
            ELSE size

ReadByte ==
    /\ reader = "reading"
    /\ Len(line) # MaxLen
    /\ stream # <<>>
    /\ Grow
    /\ line' = Append(line, Head(stream))
    /\ stream' = Tail(stream)
    /\ IF Ends(line') THEN Return(Parsed(line')) ELSE UNCHANGED <<reader, results>>
    /\ UNCHANGED writeVars

(* g_input_stream_read() fails, or was cancelled                             *)
ReadFails ==
    /\ reader = "reading"
    /\ Len(line) # MaxLen
    /\ Grow
    /\ Return([error |-> "io-error", packet |-> Document("nothing", NoMembers)])
    /\ UNCHANGED <<writeVars, stream, line>>

ReadEnd ==
    /\ reader = "reading"
    /\ Len(line) # MaxLen
    /\ stream = <<>> /\ closed
    /\ Grow
    /\ Return(Parsed(line))
    /\ UNCHANGED <<writeVars, stream, line>>

Next ==
    \/ New \/ MakeByHand
    \/ SetPayloadFull \/ SetPayloadInfo \/ SetPayloadSize
    \/ ToStream \/ OtherWrites \/ WriteAll \/ Close
    \/ FromStream \/ TooLarge \/ ReadByte \/ ReadFails \/ ReadEnd

Spec == Init /\ [][Next]_vars
-----------------------------------------------------------------------------

Whole(r) == results[r].error = "none"

(* Nobody but Valent wrote: every document ends with a newline               *)
Framed == \A d \in DOMAIN written : written[d].newline /\ written[d].root # "nothing"

(* Packets are read as they were written, in order and none left out, and    *)
(* the reader has taken nothing of what follows the last one (the loop of    *)
(* one-byte reads, valent-packet.c:905-945).                                 *)
PacketsAreIntact ==
    Framed =>
        /\ \A r \in DOMAIN results : Whole(r) => results[r].packet = written[r]
        /\ (reader = "idle" /\ stream # <<>> => Head(stream) = [doc |-> Len(results) + 1, at |-> 1])

(* A packet is too large exactly when its line is longer than the limit,     *)
(* the newline counted, and the buffer has room for each byte that is read.  *)
LimitIsExact ==
    /\ Framed =>
          \A r \in DOMAIN results :
             /\ Whole(r) => Length(written[r]) <= MaxLen
             /\ results[r].error = "too-large" => Length(written[r]) > MaxLen
    /\ Len(line) <= size
    /\ size <= (IF FirstSize > MaxLen THEN FirstSize ELSE MaxLen)

(* The packets somebody may be working with: one being built, before it is   *)
(* written, and the one that was just read.                                  *)
AtHand ==
    {doc \in {draft} : reader = "idle" /\ MayWrite}
    \cup {results[r].packet : r \in {r \in {Len(results)} : r > 0 /\ reader = "idle" /\ Whole(r)}}

(* A packet that was read is one the rest of the program can use without     *)
(* further checks: the ways to ask whether it is sound, or has a payload,    *)
(* agree, its type and body are there, and a field is of one type at most.   *)
ReceivedIsUsable ==
    \A doc \in AtHand :
        /\ IsValid(doc) <=> Validate(doc) = "none"
        /\ HasPayload(doc) <=> GetPayloadFull(doc) = "none"
        /\ IsValid(doc) =>
              /\ GetType(doc) /\ GetBody(doc)
              /\ GetPayloadFull(doc) \in {"none", "missing-field"}
              /\ (GetPayloadSize(doc) = 1 <=> doc.members["payloadSize"] # Missing)
              /\ HasPayload(doc) => GetPayloadInfo(doc)
        /\ \A node \in FieldNodes :
              /\ \/ GetString(doc, node) \/ GetObject(doc, node) \/ GetArray(doc, node)
                 \/ GetInt(doc, node) \/ GetDouble(doc, node)
                    => CheckField(doc, node)
              /\ DupStrv(doc, node) => GetArray(doc, node)
              /\ CheckField(doc, node) /\ GetBoolean(doc, node) => node = "true"

(* What Valent writes is always taken for a packet by the other end, unless  *)
(* it is too large, or is cut off because the write or the read failed; and  *)
(* a line is read as a whole (a datagram) the way it is read byte by byte.   *)
WrittenIsReadable ==
    /\ Framed =>
          \A r \in DOMAIN results :
             r \in DOMAIN written /\ Length(written[r]) <= MaxLen /\ IsValid(written[r])
                => \/ Whole(r) \/ results[r].error = "io-error"
                   \/ sent = "failed" /\ r = Len(written)
    /\ LET d == Len(written)
           bytes == BytesOf(d, written[d])
       IN  d > 0 /\ unsent # <<>> /\ unsent = bytes /\ written[d].root # "nothing" =>
               /\ Deserialize(bytes) = Parsed(bytes)
               /\ (Parsed(bytes).error = "none" <=> IsValid(written[d]))
               /\ written[d].newline /\ IsValid(written[d]) => Ends(Serialize(d, written[d]))

(* A write that was reported as done has put all of its packet on the        *)
(* stream; what was read and what is on its way are all that was written.    *)
WrittenIsDelivered ==
    Framed /\ sent = "done" /\ stream = <<>> /\ reader = "idle" => Len(results) = Len(written)
=============================================================================
