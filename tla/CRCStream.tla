----------------------------- MODULE CRCStream -----------------------------
(***************************************************************************)
(* The byte stream of a message: crc_stream.hpp and crc_stream_message.hpp. *)
(* A sender puts the fields of a schema into a CRCSendStream and finishes  *)
(* it; a receiver reads the same schema from a CRCRecvStream.  A byte is   *)
(* <<field, part, index>>: what matters is whose byte it is, not its value.*)
(***************************************************************************)
EXTENDS Integers, Sequences

CONSTANTS
    Capacity,     \* _nSize of the sender's stream
    ShortRange,   \* the values of a short: 65536
    Schemas,      \* sequences of fields the two sides agree on
    Destinations  \* lengths of the receiver's arrays

(* A field is [width, count]: a value has count 0, an array its length + 1 *)
(* (an empty array is not a value). *)
IsArray(f) == f.count > 0
Elements(f) == f.count - 1

CountWidth == 4   \* sizeof(uint32_t)
ShortWidth == 2   \* sizeof(uint16_t)

ASSUME StreamAssumption ==
    /\ Capacity \in Nat /\ Capacity >= 2 * ShortWidth
    /\ ShortRange \in Nat \ {0} /\ ShortRange % 2 = 0
    /\ Destinations \subseteq Nat
    /\ Schemas \subseteq Seq([width : Nat \ {0}, count : Nat])

(* What data_length, a signed short, holds after a number is stored in it. *)
AsShort(n) == ((n + (ShortRange \div 2)) % ShortRange) - (ShortRange \div 2)

VARIABLES
    streamAt,  \* "new", "writing", "sent", "reading"
    schema,
    stream,    \* the bytes up to _lastWritePos
    wrote,     \* what each write returned
    readPos,   \* _lastReadPos of the receiver
    received,  \* _nSize of the receiver's stream
    got        \* the bytes each read returned, <<>> for one that was refused

streamVars == <<streamAt, schema, stream, wrote, readPos, received, got>>

Part(k, part, n) == [i \in 1..n |-> <<k, part, i>>]

(* The bytes of field k. *)
Item(k) ==
    LET f == schema[k]
    IN  IF IsArray(f)
        THEN Part(k, "count", CountWidth) \o Part(k, "data", f.width * Elements(f))
        ELSE Part(k, "data", f.width)

StreamInit ==
    /\ streamAt = "new"
    /\ schema = <<>> /\ stream = <<>> /\ wrote = <<>>
    /\ readPos = 0 /\ received = 0 /\ got = <<>>

(* The sender reserves two bytes for the length, then comes the command. *)
SetCmd ==
    /\ streamAt = "new"
    /\ streamAt' = "writing"
    /\ schema' \in Schemas
    /\ stream' = Part(0, "length", ShortWidth) \o Part(0, "cmd", ShortWidth)
    /\ UNCHANGED <<wrote, readPos, received, got>>

RoomFor(n) == Capacity - Len(stream) >= n

(* write(), write_array(): all of the field or nothing. *)
WriteItem ==
    /\ streamAt = "writing" /\ Len(wrote) < Len(schema)
    /\ LET item == Item(Len(wrote) + 1)
           fits == RoomFor(Len(item))
       IN  /\ stream' = IF fits THEN stream \o item ELSE stream
           /\ wrote' = Append(wrote, fits)
    /\ UNCHANGED <<streamAt, schema, readPos, received, got>>

(* finish() stores the write position over the first two bytes; the        *)
(* message header of the receiver is these bytes, read as a signed short.  *)
Finish ==
    /\ streamAt = "writing" /\ Len(wrote) = Len(schema)
    /\ streamAt' = "sent"
    /\ received' = AsShort(Len(stream))
    /\ UNCHANGED <<schema, stream, wrote, readPos, got>>

(* CRCRecvStream() takes command and length off the front, as far as they  *)
(* are within the announced length. *)
Receive ==
    /\ streamAt = "sent"
    /\ streamAt' = "reading"
    /\ readPos' = CASE received >= 2 * ShortWidth -> 2 * ShortWidth
                    [] received \in ShortWidth..(2 * ShortWidth - 1) -> ShortWidth
                    [] OTHER -> 0
    /\ UNCHANGED <<schema, stream, wrote, received, got>>

CanRead(n) == received - readPos >= n

BytesAt(from, n) == SubSeq(stream, from + 1, from + n)

(* The number the next four bytes hold: the count of an array if they are  *)
(* one, otherwise any number. *)
Counts ==
    IF ~CanRead(CountWidth) THEN {0}
    ELSE LET b == BytesAt(readPos, CountWidth)
         IN  IF \E k \in 1..Len(schema) : IsArray(schema[k]) /\ b = Part(k, "count", CountWidth)
             THEN {Elements(schema[b[1][1]])}
             ELSE 0..(Capacity + 1)

(* Mutant: the count is consumed although the array is refused. *)
MutRefused == readPos + CountWidth

Refused == readPos

NextField == schema[Len(got) + 1]

Reading == streamAt = "reading" /\ Len(got) < Len(schema)

Consume(n) ==
    /\ got' = Append(got, BytesAt(readPos, n))
    /\ readPos' = readPos + n

(* A read that is refused says so and returns nothing.  The caller tries   *)
(* the field again, or goes on with the next one, as both programs do.     *)
Refuse(pos) ==
    /\ got' \in {got, Append(got, <<>>)}
    /\ readPos' = pos

(* read<T>() *)
ReadValue ==
    /\ Reading /\ ~IsArray(NextField)
    /\ IF CanRead(NextField.width) THEN Consume(NextField.width) ELSE Refuse(readPos)
    /\ UNCHANGED <<streamAt, schema, stream, wrote, received>>

(* read_array(): the count is peeked at; the destination must be larger    *)
(* than it. *)
ReadArray(d) ==
    /\ Reading /\ IsArray(NextField)
    /\ \E n \in Counts :
         LET size == CountWidth + NextField.width * n
         IN  IF n < d /\ CanRead(size) THEN Consume(size) ELSE Refuse(Refused)
    /\ UNCHANGED <<streamAt, schema, stream, wrote, received>>

StreamNext ==
    \/ SetCmd \/ WriteItem \/ Finish \/ Receive \/ ReadValue
    \/ \E d \in Destinations : ReadArray(d)

StreamSpec == StreamInit /\ [][StreamNext]_streamVars

-----------------------------------------------------------------------------

(* The first n fields were written and their reads returned something.     *)
Through(n) == \A k \in 1..n : wrote[k] /\ got[k] # <<>>

(* If the announced length covers the header, the receiver reads what the  *)
(* sender wrote, field by field, up to the first field that did not fit or *)
(* that it gave up: however often a destination was too small and the read *)
(* was tried again (crc_stream.hpp:122, 127).                              *)
RoundTrip ==
    received >= 2 * ShortWidth =>
        \A k \in 1..Len(got) : Through(k) => got[k] = Item(k)
=============================================================================
