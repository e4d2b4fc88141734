--------------------------------- MODULE Wire ---------------------------------
(***************************************************************************)
(* The layout of the messages (src/src/serializer/serializer.cpp): a       *)
(* buffer of bytes, texts in it that end with a zero byte, numbers with    *)
(* the most significant byte first.  A text is a sequence of the bytes     *)
(* other than zero, a number a byte cannot hold is cut off as the program  *)
(* cuts it off.  Buffers are indexed from 0, messages on the wire from 1.  *)
(***************************************************************************)
EXTENDS Integers, Sequences

CONSTANTS
    Size,           \* bytes of a buffer: max_buffer_size
    Radix,          \* values of a byte: 256
    EntrySize       \* bytes of a log entry: 8

ASSUME WireAssumption ==
    /\ Size \in Nat /\ Radix \in Nat /\ Radix > 1
    /\ EntrySize \in Nat \ {0} /\ EntrySize <= Size

Bytes == 0 .. Radix - 1
Offsets == 0 .. Size - 1
Buffers == [Offsets -> Bytes]
Texts == Seq(1 .. Radix - 1)

\* s written over the buffer from offset at on.
Written(buffer, at, s) ==
    [k \in Offsets |->
        IF k - at + 1 \in 1 .. Len(s) THEN s[k - at + 1] ELSE buffer[k]]

\* strcpy: the text and the zero that ends it.
WrittenText(buffer, at, text) == Written(buffer, at, Append(text, 0))

\* The text that starts at an offset.  The end of the buffer ends it too: the
\* program would read on, into what is not part of the buffer.
TextEnds(buffer, at) == {k \in Offsets : k >= at /\ buffer[k] = 0} \union {Size}
TextEnd(buffer, at) ==
    CHOOSE k \in TextEnds(buffer, at) : \A j \in TextEnds(buffer, at) : k <= j
TextAt(buffer, at) ==
    [i \in 1 .. TextEnd(buffer, at) - at |-> buffer[at + i - 1]]

\* The first bytes of the buffer, as send takes them.
Message(buffer, size) == [i \in 1 .. size |-> buffer[i - 1]]

Short(number) == << (number \div Radix) % Radix, number % Radix >>
ShortAt(buffer, at) == buffer[at] * Radix + buffer[at + 1]

-------------------------------------------------------------------------------
(* A request: the type, the application and two texts. *)

serialize_request(buffer, request) ==
    WrittenText(
        WrittenText(
            Written(buffer, 0,
                    <<request.type>> \o Short(request.application_id)),
            3, request.name),
        3 + Len(request.name) + 1, request.user_equipment_name)

\* Mutant of request_size: the zero that ends the second text is left out.
request_size_short(request) ==
    Len(request.name) + 1 + Len(request.user_equipment_name) + 1 + 2

request_size(request) ==
    Len(request.name) + 1 + Len(request.user_equipment_name) + 1 + 1 + 2

deserialize_request(buffer) ==
    LET name == TextAt(buffer, 3)
    IN [type |-> buffer[0], application_id |-> ShortAt(buffer, 1),
        name |-> name,
        user_equipment_name |-> TextAt(buffer, 3 + Len(name) + 1)]

-------------------------------------------------------------------------------
(* A response: the port and the host name. *)

serialize_response(buffer, response) ==
    WrittenText(Written(buffer, 0, Short(response.port)), 2, response.hostname)

\* Mutant of response_size: the zero that ends the text is left out.
response_size_short(response) == Len(response.hostname) + 2

response_size(response) == Len(response.hostname) + 1 + 2

deserialize_response(buffer) ==
    [port |-> ShortAt(buffer, 0), hostname |-> TextAt(buffer, 2)]

-------------------------------------------------------------------------------
(* The messages to the logger: the name of the file and the entries. *)

serialize_logger_start(buffer, name) == WrittenText(buffer, 0, name)
logger_start_size(name) == Len(name) + 1
deserialize_logger_start(buffer) == TextAt(buffer, 0)

\* A number shifted to the right by 0, 1, ..., EntrySize bytes.
Shifted(number) ==
    LET shift[k \in 0 .. EntrySize] ==
            IF k = 0 THEN number ELSE shift[k - 1] \div Radix
    IN shift

\* Mutant of Digits: the least significant byte first.
DigitsReversed(number) ==
    [i \in 1 .. EntrySize |-> Shifted(number)[i - 1] % Radix]

Digits(number) ==
    [i \in 1 .. EntrySize |-> Shifted(number)[EntrySize - i] % Radix]

serialize_logger_time_point(buffer, time_point) ==
    Written(buffer, 0, Digits(time_point))

\* What the reader of the log file makes of an entry.
Value(entry) ==
    LET upto[i \in 0 .. EntrySize] ==
            IF i = 0 THEN 0 ELSE upto[i - 1] * Radix + entry[i]
    IN upto[EntrySize]
===============================================================================
