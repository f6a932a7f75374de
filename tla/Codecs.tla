------------------------------- MODULE Codecs -------------------------------
(***************************************************************************)
(* How the emulated Demonware services put their answers into bytes:       *)
(* byte_buffer with its type bytes, strings, blobs and arrays, the         *)
(* serialize and deserialize of every data type, service_reply, and the    *)
(* frames it is sent in.  A value is told apart by the field it belongs    *)
(* to, a byte of it is <<field, i>>, and the value of a length or a count  *)
(* is kept, so a reader that takes the fields in another order, with       *)
(* another width or with another type finds something else.                *)
(***************************************************************************)
EXTENDS Integers, Sequences, SequencesExt, FiniteSets

CONSTANTS
  TextSize,    \* the lengths of the strings and blobs of an answer
  MaxObjects   \* bound on the objects of an answer

ASSUME CodecsAssumption == TextSize \subseteq Nat /\ MaxObjects \in Nat

VARIABLES
  objects,     \* service_reply::objects_, [class, size]
  sent,        \* the answer that was sent, [error, objects]
  message,     \* the frame it left in
  received     \* what was read from the frame, object by object

codecsVars == <<objects, sent, message, received>>

-----------------------------------------------------------------------------
(* byte_buffer. *)

Tag == [bool |-> 1, byte |-> 3, int16 |-> 5, uint16 |-> 6, int32 |-> 7,
        uint32 |-> 8, int64 |-> 9, uint64 |-> 10, float |-> 13, string |-> 16,
        blob |-> 19]

Width == [bool |-> 1, byte |-> 1, int16 |-> 2, uint16 |-> 2, int32 |-> 4,
          uint32 |-> 4, int64 |-> 8, uint64 |-> 8, float |-> 4, caddr |-> 4]

Value(field, width) == [i \in 1..width |-> <<field, i>>]
Number(n) == [i \in 1..4 |-> <<"number", n>>]
NUL == <<"nul", 0>>

\* buffer_, current_byte_ and use_data_types_, and what the last read returned
Buffer(bytes) == [bytes |-> bytes, at |-> 0, types |-> TRUE, ok |-> TRUE, out |-> <<>>]

write(b, bytes) == [b EXCEPT !.bytes = @ \o bytes, !.at = @ + Len(bytes)]

write_data_type(b, tag) == IF b.types THEN write(b, <<<<"type", tag>>>>) ELSE b

write_number(b, type, n) == write(write_data_type(b, Tag[type]), Number(n))

write_string(b, chars) == write(write_data_type(b, Tag.string), Append(chars, NUL))

write_blob(b, bytes) ==
  write(write_number(write_data_type(b, Tag.blob), "uint32", Len(bytes)), bytes)

write_field(b, type, value) ==
  CASE type = "string" -> write_string(b, value)
    [] type = "blob" -> write_blob(b, value)
    [] type = "caddr" -> write(b, value)
    [] OTHER -> write(write_data_type(b, Tag[type]), value)

\* The element type goes first and untyped, then the size typed, then the count.
write_array_header(b, tag, count, size) ==
  LET type == write([b EXCEPT !.types = FALSE], <<<<"type", tag + 100>>>>)
      bytes == write_number([type EXCEPT !.types = TRUE], "uint32", count * size)
      elements == write_number([bytes EXCEPT !.types = FALSE], "uint32", count)
  IN [elements EXCEPT !.types = b.types]

read(b, n) ==
  IF b.at + n > Len(b.bytes)
  THEN [b EXCEPT !.ok = FALSE]
  ELSE [b EXCEPT !.ok = TRUE, !.at = @ + n, !.out = SubSeq(b.bytes, b.at + 1, b.at + n)]

read_data_type(b, tag) ==
  IF b.types
  THEN LET type == read(b, 1)
       IN [type EXCEPT !.ok = type.ok /\ type.out = <<<<"type", tag>>>>]
  ELSE [b EXCEPT !.ok = TRUE]

\* read(n) where the type byte was the one expected
read_after(b, n) == IF b.ok THEN read(b, n) ELSE b

NumberIn(b) == IF \E n \in 0..Len(b.bytes) : b.out = Number(n) THEN b.out[1][2] ELSE 0

read_number(b, type) == read_after(read_data_type(b, Tag[type]), 4)

read_string(b) ==
  LET type == read_data_type(b, Tag.string)
      rest == SubSeq(type.bytes, type.at + 1, Len(type.bytes))
      strlen == IF Contains(rest, NUL)
                THEN (CHOOSE i \in DOMAIN rest :
                        rest[i] = NUL /\ \A j \in 1..i - 1 : rest[j] # NUL) - 1
                ELSE Len(rest)
  IN IF type.ok
     THEN [type EXCEPT !.out = SubSeq(rest, 1, strlen), !.at = @ + strlen + 1]
     ELSE type

read_blob(b) ==
  LET type == read_data_type(b, Tag.blob)
      size == read_number(type, "uint32")
  IN IF type.ok
     THEN [read(size, NumberIn(size)) EXCEPT !.at = size.at + NumberIn(size)]
     ELSE type

read_field(b, type) ==
  CASE type = "string" -> read_string(b)
    [] type = "blob" -> read_blob(b)
    [] type = "caddr" -> read(b, Width.caddr)
    [] OTHER -> read_after(read_data_type(b, Tag[type]), Width[type])

\* Returns the buffer with the count and the size of the elements in out.
read_array_header(b, tag) ==
  LET type == read_data_type(b, tag + 100)
      bytes == read_number(type, "uint32")
      elements == read_number([bytes EXCEPT !.types = FALSE], "uint32")
  IN IF type.ok /\ bytes.ok
     THEN [elements EXCEPT !.types = TRUE,
             !.out = <<NumberIn(elements), NumberIn(bytes) \div NumberIn(elements)>>]
     ELSE [b EXCEPT !.ok = FALSE]

-----------------------------------------------------------------------------
(* data_types.hpp: the fields each class writes, and those it reads, as      *)
(* <<type, field>>.  A field under Untyped is written without a type byte.   *)

Untyped(fields) == [i \in DOMAIN fields |-> Append(fields[i], FALSE)]

\* write_array_header(tag, ...) and the elements, without type bytes
Array(tag, type, fields) == <<"array", tag, type, fields>>

bdFileData_serialize == <<<<"blob", "file_data">>>>
bdFileData_deserialize == <<<<"blob", "file_data">>>>

bdFileInfo_serialize ==
  <<<<"uint32", "file_size">>, <<"uint64", "file_id">>, <<"uint32", "create_time">>,
    <<"uint32", "modified_time">>, <<"bool", "priv">>, <<"uint64", "owner_id">>,
    <<"string", "filename">>>>
\* A bug: the two times are read in the other order.
bdFileInfo_times_swapped ==
  <<<<"uint32", "file_size">>, <<"uint64", "file_id">>, <<"uint32", "modified_time">>,
    <<"uint32", "create_time">>, <<"bool", "priv">>, <<"uint64", "owner_id">>,
    <<"string", "filename">>>>

bdFileInfo_deserialize ==
  <<<<"uint32", "file_size">>, <<"uint64", "file_id">>, <<"uint32", "create_time">>,
    <<"uint32", "modified_time">>, <<"bool", "priv">>, <<"uint64", "owner_id">>,
    <<"string", "filename">>>>

bdGroupCount_serialize == <<<<"uint32", "group_id">>, <<"uint32", "group_count">>>>
bdGroupCount_deserialize == <<<<"uint32", "group_id">>, <<"uint32", "group_count">>>>

bdTimeStamp_serialize == <<<<"uint32", "unix_time">>>>
bdTimeStamp_deserialize == <<<<"uint32", "unix_time">>>>

bdDMLInfo_serialize ==
  <<<<"string", "country_code">>, <<"string", "country">>, <<"string", "region">>,
    <<"string", "city">>, <<"float", "latitude">>, <<"float", "longitude">>>>
bdDMLInfo_deserialize ==
  <<<<"string", "country_code">>, <<"string", "country">>, <<"string", "region">>,
    <<"string", "city">>, <<"float", "latitude">>, <<"float", "longitude">>>>

bdDMLRawData_serialize ==
  bdDMLInfo_serialize \o <<<<"uint32", "asn">>, <<"string", "timezone">>>>
bdDMLRawData_deserialize ==
  bdDMLInfo_deserialize \o <<<<"uint32", "asn">>, <<"string", "timezone">>>>

bdSessionID_serialize == <<<<"blob", "session_id">>>>
bdSessionID_deserialize == <<<<"blob", "session_id">>>>

bdMatchmakingInfo_serialize ==
  <<<<"blob", "host_addr">>>> \o bdSessionID_serialize
  \o <<<<"uint32", "game_type">>, <<"uint32", "max_players">>, <<"uint32", "num_players">>>>
bdMatchmakingInfo_deserialize(symmetric) ==
  <<<<"blob", "host_addr">>>>
  \o (IF symmetric THEN bdSessionID_deserialize ELSE <<>>)
  \o <<<<"uint32", "game_type">>, <<"uint32", "max_players">>>>
  \o (IF symmetric THEN <<<<"uint32", "num_players">>>> ELSE <<>>)

MatchMakingInfo_serialize ==
  bdMatchmakingInfo_serialize
  \o <<<<"int32", "playlist_number">>, <<"int32", "playlist_version">>,
       <<"int32", "netcode_version">>, <<"int32", "map_packs">>,
       <<"int32", "slots_needed_on_team">>, <<"int32", "skill">>,
       <<"uint32", "country_code">>, <<"uint32", "asn">>, <<"float", "latitude">>,
       <<"float", "longitude">>, <<"int32", "max_reserved_slots">>,
       <<"int32", "used_reserved_slots">>, <<"blob", "game_security_key">>,
       <<"blob", "platform_session_id">>, <<"uint32", "data_centres">>,
       <<"uint32", "coop_state">>>>
MatchMakingInfo_deserialize(symmetric) ==
  bdMatchmakingInfo_deserialize(symmetric)
  \o <<<<"int32", "playlist_number">>, <<"int32", "playlist_version">>,
       <<"int32", "netcode_version">>, <<"int32", "map_packs">>,
       <<"int32", "slots_needed_on_team">>, <<"int32", "skill">>,
       <<"uint32", "country_code">>, <<"uint32", "asn">>, <<"float", "latitude">>,
       <<"float", "longitude">>, <<"int32", "max_reserved_slots">>,
       <<"int32", "used_reserved_slots">>, <<"blob", "game_security_key">>,
       <<"blob", "platform_session_id">>, <<"uint32", "data_centres">>,
       <<"uint32", "coop_state">>>>

bdPerformanceValue_serialize == <<<<"uint64", "user_id">>, <<"int64", "performance">>>>
bdPerformanceValue_deserialize == <<<<"uint64", "user_id">>, <<"int64", "performance">>>>

bdInetAddr_serialize(addr) == Untyped(<<<<"caddr", addr>>>>)
bdInetAddr_deserialize(addr) == Untyped(<<<<"caddr", addr>>>>)

bdAddr_serialize(addr, port) ==
  bdInetAddr_serialize(addr) \o Untyped(<<<<"uint16", port>>>>)
bdAddr_deserialize(addr, port) ==
  bdInetAddr_deserialize(addr) \o Untyped(<<<<"uint16", port>>>>)

\* The addresses are of the family AF_INET: nothing in the program sets another.
Local == <<<<"local1", "port1">>, <<"local2", "port2">>, <<"local3", "port3">>,
           <<"local4", "port4">>, <<"local5", "port5">>>>

bdCommonAddr_serialize ==
  FlattenSeq([i \in DOMAIN Local |-> bdAddr_serialize(Local[i][1], Local[i][2])])
  \o bdAddr_serialize("public", "public_port") \o Untyped(<<<<"byte", "m_nat_type">>>>)
bdCommonAddr_deserialize ==
  FlattenSeq([i \in DOMAIN Local |-> bdAddr_deserialize(Local[i][1], Local[i][2])])
  \o bdAddr_deserialize("public", "public_port") \o Untyped(<<<<"byte", "m_nat_type">>>>)

\* bdRelayService: the game reads these as the arrays their headers announce.
DebugObjectUNO_serialize ==
  <<Array(10, "uint64", <<"uno_id", "user_id", "other_id">>),
    Array(16, "string", <<"youtube", "steam", "uno">>)>>
DebugObjectUCD_serialize ==
  <<<<"uint64", "user_id">>, <<"string", "platform">>,
    Array(10, "uint64", <<"user_ids", "other_id">>), Array(16, "string", <<"pc", "ucd">>)>>

Serialize ==
  [bdFileData |-> bdFileData_serialize, bdFileInfo |-> bdFileInfo_serialize,
   bdGroupCount |-> bdGroupCount_serialize, bdTimeStamp |-> bdTimeStamp_serialize,
   bdDMLRawData |-> bdDMLRawData_serialize, bdSessionID |-> bdSessionID_serialize,
   MatchMakingInfo |-> MatchMakingInfo_serialize,
   bdPerformanceValue |-> bdPerformanceValue_serialize,
   bdCommonAddr |-> bdCommonAddr_serialize,
   DebugObjectUNO |-> DebugObjectUNO_serialize, DebugObjectUCD |-> DebugObjectUCD_serialize]

\* symmetric is set where sessions are read back (UpdateSession).
Deserialize ==
  [bdFileData |-> bdFileData_deserialize, bdFileInfo |-> bdFileInfo_deserialize,
   bdGroupCount |-> bdGroupCount_deserialize, bdTimeStamp |-> bdTimeStamp_deserialize,
   bdDMLRawData |-> bdDMLRawData_deserialize, bdSessionID |-> bdSessionID_deserialize,
   MatchMakingInfo |-> MatchMakingInfo_deserialize(TRUE),
   bdPerformanceValue |-> bdPerformanceValue_deserialize,
   bdCommonAddr |-> bdCommonAddr_deserialize,
   DebugObjectUNO |-> DebugObjectUNO_serialize, DebugObjectUCD |-> DebugObjectUCD_serialize]

Class == DOMAIN Serialize

-----------------------------------------------------------------------------
(* Objects into bytes and back. *)

FixedLength ==
  [session_id |-> 8, pc |-> 2, ucd |-> 3, uno |-> 3, steam |-> 5, youtube |-> 7]

Text == {"string", "blob"}

Content(type, field, size) ==
  Value(field, IF type \notin Text THEN Width[type]
               ELSE IF field \in DOMAIN FixedLength THEN FixedLength[field] ELSE size)

write_array(b, tag, type, fields, size) ==
  LET contents == [i \in DOMAIN fields |-> Content(type, fields[i], size)]
      count == Len(fields)
      bytes == FoldLeft(LAMBDA n, c : n + Len(c) + 1, 0, contents)
      element == IF type = "string" THEN bytes \div count ELSE Width[type]
      header == write_array_header(b, tag, count, element)
      elements == FoldLeft(LAMBDA w, c : write_field(w, type, c),
                           [header EXCEPT !.types = FALSE], contents)
  IN [elements EXCEPT !.types = TRUE]

\* serialize only appends: what a field adds does not depend on what precedes it.
write_fields(b, class, size) ==
  LET bytes(f) ==
        IF f[1] = "array" THEN write_array(Buffer(<<>>), f[2], f[3], f[4], size).bytes
        ELSE write_field([Buffer(<<>>) EXCEPT !.types = Len(f) = 2], f[1],
                         Content(f[1], f[2], size)).bytes
      fields == Serialize[class]
  IN write(b, FlattenSeq([i \in DOMAIN fields |-> bytes(fields[i])]))

\* What an object is: its fields and their bytes.
Fields(class, size) ==
  LET fields == Serialize[class]
  IN UNION {IF f[1] = "array"
            THEN {<<g, Content(f[3], g, size)>> : g \in ToSet(f[4])}
            ELSE {<<f[2], Content(f[1], f[2], size)>>} : f \in ToSet(fields)}

\* r: the buffer being read, and the fields of the object found so far
Reads(r, type, field, typed) ==
  LET found == read_field([r.buffer EXCEPT !.types = typed], type)
  IN [fields |-> r.fields \cup {<<field, found.out>>},
      buffer |-> [found EXCEPT !.types = TRUE]]

read_array(r, tag, type, fields) ==
  LET header == read_array_header(r.buffer, tag)
      count == IF header.ok THEN header.out[1] ELSE 0
  IN FoldLeft(LAMBDA s, g : Reads(s, type, g, FALSE),
              [r EXCEPT !.buffer = header], SubSeq(fields, 1, count))

read_fields(b, class) ==
  FoldLeft(LAMBDA r, f :
             IF f[1] = "array" THEN read_array(r, f[2], f[3], f[4])
             ELSE Reads(r, f[1], f[2], Len(f) = 2),
           [buffer |-> b, fields |-> {}], Deserialize[class])

-----------------------------------------------------------------------------
(* service_reply and the frames. *)

NoError == 0
NoFile == 1  \* BD_NO_FILE

service_reply_send(error, objs) ==
  LET id == write_field(Buffer(<<>>), "uint64", Value("transaction_id", 8))
      head == write_field(write_number(id, "uint32", error), "byte", Value("type", 1))
      count == write_number(head, "uint32", Len(objs))
      again == IF objs = <<>> THEN count ELSE write_number(count, "uint32", Len(objs))
  IN IF error = NoError
     THEN FoldLeft(LAMBDA b, o : write_fields(b, o.class, o.size), again, objs).bytes
     ELSE write_field(head, "uint64", Value("transaction_id", 8)).bytes

\* unencrypted_reply::get_data and encrypted_reply::get_data; the cipher, which
\* keeps the length, is left out.
unencrypted_reply(data) ==
  Number(Len(data) + 2) \o <<<<"encrypted", FALSE>>>> \o Value("type", 1) \o data

encrypted_reply(data) ==
  LET plain == Value("magic", 4) \o Value("type", 1) \o data
      size == ((Len(plain) + 7) \div 8) * 8
  IN Number(size + 5) \o <<<<"encrypted", TRUE>>>> \o Value("seed", 4)
     \o plain \o [i \in 1..size - Len(plain) |-> NUL]

\* The bytes the length in front of a frame announces, without their head.
Payload(frame) ==
  LET length == NumberIn(read(Buffer(frame), 4))
      body == SubSeq(frame, 5, 4 + length)
  IN IF body[1] = <<"encrypted", TRUE>>
     THEN SubSeq(body, 11, length) ELSE SubSeq(body, 3, length)

\* The answer as its receiver reads it.
Answer(frame, classes) ==
  LET id == read_field(Buffer(Payload(frame)), "uint64")
      error == read_number(id, "uint32")
      type == read_field(error, "byte")
      count == read_number(type, "uint32")
      first == IF NumberIn(count) = 0 THEN count ELSE read_number(count, "uint32")
      Object(r, c) == LET o == read_fields(r.buffer, c)
                      IN [buffer |-> o.buffer, objects |-> Append(r.objects, o.fields)]
      objs == FoldLeft(Object, [buffer |-> first, objects |-> <<>>],
                       SubSeq(classes, 1, NumberIn(first)))
  IN IF NumberIn(error) = NoError
     THEN [error |-> NoError, objects |-> objs.objects,
           rest |-> Len(objs.buffer.bytes) - objs.buffer.at]
     ELSE [error |-> NumberIn(error), objects |-> <<>>,
           rest |-> Len(type.bytes) - read_field(type, "uint64").at]

-----------------------------------------------------------------------------
CodecsInit ==
  /\ objects = <<>>
  /\ sent = <<>>
  /\ message = <<>>
  /\ received = <<>>

add(class, size) ==
  /\ sent = <<>>
  /\ Len(objects) < MaxObjects
  /\ objects' = Append(objects, [class |-> class, size |-> size])
  /\ UNCHANGED <<sent, message, received>>

\* Replies leave encrypted, the answers to authentication do not.
send(error, encrypted) ==
  LET data == service_reply_send(error, objects)
  IN /\ sent = <<>>
     /\ sent' = <<[error |-> error, objects |-> objects]>>
     /\ message' = IF encrypted THEN encrypted_reply(data) ELSE unencrypted_reply(data)
     /\ objects' = <<>>
     /\ UNCHANGED received

deserialize ==
  /\ sent # <<>> /\ received = <<>>
  /\ received' = <<Answer(message, [i \in DOMAIN sent[1].objects |->
                                      sent[1].objects[i].class])>>
  /\ UNCHANGED <<objects, sent, message>>

CodecsNext ==
  \/ \E class \in Class, size \in TextSize : add(class, size)
  \/ \E error \in {NoError, NoFile}, encrypted \in BOOLEAN : send(error, encrypted)
  \/ deserialize

-----------------------------------------------------------------------------
(* Properties. *)

\* What the services put into an answer is what is read from it: every object's
\* fields, whatever stands before it and however long its texts are, the error,
\* and nothing is left but the padding.
AnswerReadsBack ==
  received # <<>> =>
    LET objs == IF sent[1].error = NoError THEN sent[1].objects ELSE <<>>
    IN /\ received[1].error = sent[1].error
       /\ received[1].objects =
            [i \in DOMAIN objs |-> Fields(objs[i].class, objs[i].size)]
       /\ received[1].rest \in 0..7
=============================================================================
