---------------------------- MODULE ExchangeProofs ----------------------------
(***************************************************************************)
(* What is proved about the layout of the messages and about their         *)
(* exchange, for every size of the buffers and of a byte, all texts,       *)
(* hosts, ports and numbers: a message that fits in the buffer is read as  *)
(* what was written, whatever both ends' buffers held before; and          *)
(* as long as a thread of the client has had the buffer for itself, its    *)
(* messages arrive as they were meant, although no buffer is ever cleared. *)
(***************************************************************************)
EXTENDS Exchange, NumberLemmas

-------------------------------------------------------------------------------
(* The layout of the messages. *)

\* What a buffer holds after it has been written to.
LEMMA WrittenBytes ==
    ASSUME NEW b, NEW s, NEW at \in Nat,
           Len(s) \in Nat, at + Len(s) <= Size
    PROVE  /\ DOMAIN Written(b, at, s) = Offsets
           /\ \A i \in 1 .. Len(s) : Written(b, at, s)[at + i - 1] = s[i]
           /\ \A k \in Offsets : k < at \/ k >= at + Len(s) =>
                Written(b, at, s)[k] = b[k]
  <1>1. Len(s) \in Nat /\ Size \in Nat
    BY WireAssumption
  <1>2. \A k \in Offsets : k - at + 1 \in Int
    BY <1>1 DEF Offsets
  <1>3. ASSUME NEW i \in 1 .. Len(s) PROVE Written(b, at, s)[at + i - 1] = s[i]
    <2>1. at + i - 1 \in Offsets /\ (at + i - 1) - at + 1 = i
      BY <1>1 DEF Offsets
    <2> QED BY <2>1 DEF Written
  <1>4. ASSUME NEW k \in Offsets, k < at \/ k >= at + Len(s)
        PROVE  Written(b, at, s)[k] = b[k]
    <2>1. k - at + 1 \notin 1 .. Len(s)
      BY <1>1, <1>2, <1>4 DEF Offsets
    <2> QED BY <2>1 DEF Written
  <1>5. DOMAIN Written(b, at, s) = Offsets
    BY DEF Written
  <1> QED BY <1>3, <1>4, <1>5

\* A sequence over a set is one over a larger set.
LEMMA Elements ==
    ASSUME NEW S, NEW T, S \subseteq T, NEW s \in Seq(S)
    PROVE  s \in Seq(T) /\ \A i \in 1 .. Len(s) : s[i] \in S
  OBVIOUS

\* Two sequences put together.
LEMMA Joined ==
    ASSUME NEW S, NEW s \in Seq(S), NEW t \in Seq(S)
    PROVE  /\ s \o t \in Seq(S) /\ Len(s \o t) = Len(s) + Len(t)
           /\ \A i \in 1 .. Len(s) : (s \o t)[i] = s[i]
           /\ \A i \in 1 .. Len(t) : (s \o t)[Len(s) + i] = t[i]
  <1>1. s \o t \in Seq(S)
    OBVIOUS
  <1>2. Len(s \o t) = Len(s) + Len(t)
    OBVIOUS
  <1>3. \A i \in 1 .. Len(s) : (s \o t)[i] = s[i]
    OBVIOUS
  <1>4. \A i \in 1 .. Len(t) : (s \o t)[Len(s) + i] = t[i]
    OBVIOUS
  <1> QED BY <1>1, <1>2, <1>3, <1>4

\* A text and its zero are bytes.
LEMMA TextBytes ==
    ASSUME NEW t \in Texts
    PROVE  /\ Append(t, 0) \in Seq(Bytes) /\ Len(t) \in Nat
           /\ Len(Append(t, 0)) = Len(t) + 1
           /\ \A i \in 1 .. Len(t) : Append(t, 0)[i] = t[i] /\ t[i] # 0
           /\ Append(t, 0)[Len(t) + 1] = 0
  <1>1. 1 .. Radix - 1 \subseteq Bytes /\ 0 \in Bytes
    BY WireAssumption DEF Bytes
  <1>2. t \in Seq(1 .. Radix - 1)
    BY DEF Texts
  <1>3. t \in Seq(Bytes)
    BY <1>1, <1>2, Elements
  <1>4. \A i \in 1 .. Len(t) : t[i] \in 1 .. Radix - 1
    BY <1>2, Elements
  <1> QED BY <1>1, <1>3, <1>4, WireAssumption

\* A text is found where its bytes and a zero are.
LEMMA TextFound ==
    ASSUME NEW b, NEW at \in Nat, NEW t \in Texts,
           at + Len(t) < Size,
           \A i \in 1 .. Len(t) : b[at + i - 1] = t[i],
           b[at + Len(t)] = 0
    PROVE  TextAt(b, at) = t
  <1> DEFINE end == at + Len(t)
  <1>1. Len(t) \in Nat /\ \A i \in 1 .. Len(t) : t[i] # 0
    BY TextBytes
  <1>2. end \in TextEnds(b, at)
    BY <1>1, WireAssumption DEF TextEnds, Offsets
  <1>3. TextEnds(b, at) \subseteq Nat
    BY WireAssumption DEF TextEnds, Offsets
  <1>4. ASSUME NEW j \in TextEnds(b, at) PROVE end <= j
    <2> SUFFICES ASSUME j < end PROVE FALSE
      BY <1>1, <1>3
    <2>1. j \in Nat /\ j >= at /\ b[j] = 0
      BY <1>1, <1>3 DEF TextEnds
    <2>2. j - at + 1 \in 1 .. Len(t) /\ at + (j - at + 1) - 1 = j
      BY <1>1, <2>1
    <2>3. b[j] = t[j - at + 1]
      BY <2>2
    <2> QED BY <1>1, <2>1, <2>2, <2>3
  <1>5. TextEnd(b, at) = end
    <2>1. \A k \in TextEnds(b, at) :
            (\A j \in TextEnds(b, at) : k <= j) <=> k = end
      BY <1>1, <1>2, <1>3, <1>4
    <2> QED BY <1>2, <2>1 DEF TextEnd
  <1>6. TextAt(b, at) = [i \in 1 .. Len(t) |-> t[i]]
    BY <1>1, <1>5 DEF TextAt
  <1>7. t = [i \in 1 .. Len(t) |-> t[i]]
    BY DEF Texts
  <1> QED BY <1>6, <1>7

\* Two bytes hold a number of two bytes.
LEMMA ShortFound ==
    ASSUME NEW n \in 0 .. Radix * Radix - 1
    PROVE  /\ Short(n) \in Seq(Bytes) /\ Len(Short(n)) = 2
           /\ Short(n)[1] * Radix + Short(n)[2] = n
  <1> DEFINE q == n \div Radix
  <1>1. Radix \in Nat \ {0} /\ n \in Nat
    BY WireAssumption
  <1>2. /\ q \in Nat /\ n % Radix \in 0 .. Radix - 1
        /\ n = Radix * q + (n % Radix)
    BY <1>1, ModRange, Division
  <1>3. Radix * Radix \in Nat /\ n < Radix * Radix
    BY <1>1
  <1> HIDE DEF q
  <1>4. q < Radix
    <2> SUFFICES ASSUME Radix <= q PROVE FALSE
      BY <1>1, <1>2
    <2>1. Radix * q >= Radix * Radix
      <3>1. PICK d \in Nat : q = Radix + d
        <4>1. q - Radix \in Nat /\ q = Radix + (q - Radix)
          BY <1>1, <1>2
        <4> QED BY <4>1
      <3>2. Radix * q = Radix * Radix + Radix * d /\ Radix * d >= 0
        BY <1>1, <3>1
      <3>3. Radix * d \in Nat
        BY <1>1
      <3> QED BY <1>3, <3>2, <3>3
    <2> QED BY <1>1, <1>2, <1>3, <2>1
  <1>5. q % Radix = q
    <2>1. /\ q \div Radix \in Nat /\ q % Radix \in 0 .. Radix - 1
          /\ q = Radix * (q \div Radix) + (q % Radix)
      BY <1>1, <1>2, ModRange, Division
    <2>2. q \in 0 .. Radix - 1 /\ 0 \in Nat
          /\ Radix * 0 + q = Radix * (q \div Radix) + (q % Radix)
      BY <1>1, <1>2, <1>4, <2>1
    <2> QED BY <1>1, <2>1, <2>2, DivisionUnique
  <1>6. Short(n) = <<q, n % Radix>>
    BY <1>5 DEF Short, q
  <1>7. q \in Bytes /\ n % Radix \in Bytes
    BY <1>1, <1>2, <1>4 DEF Bytes
  <1>8. q * Radix = Radix * q
    BY <1>1, <1>2
  <1>9. /\ Short(n) \in Seq(Bytes) /\ Len(Short(n)) = 2
        /\ Short(n)[1] = q /\ Short(n)[2] = n % Radix
    BY <1>6, <1>7
  <1> QED BY <1>2, <1>8, <1>9

-------------------------------------------------------------------------------
(* Requests and responses. *)

\* The requests and responses that the layout has room for.
FittingRequests ==
    {r \in [type : Bytes, application_id : 0 .. Radix * Radix - 1,
            name : Texts, user_equipment_name : Texts] :
        request_size(r) <= Size}

FittingResponses ==
    {r \in [port : 0 .. Radix * Radix - 1, hostname : Texts] :
        response_size(r) <= Size}

\* The beginning of a buffer is received over the beginning of another one.
LEMMA Delivered ==
    ASSUME NEW b, NEW w, NEW size \in 0 .. Size
    PROVE  /\ Len(Message(w, size)) = size
           /\ SubSeq(Message(w, size), 1, size) = Message(w, size)
           /\ \A k \in 0 .. size - 1 :
                Written(b, 0, Message(w, size))[k] = w[k]
  <1> DEFINE m == Message(w, size)
  <1>1. size \in Nat /\ size <= Size /\ Size \in Nat
    BY WireAssumption
  <1>2. m = [i \in 1 .. size |-> w[i - 1]]
    BY DEF Message
  <1>3. Len(m) = size /\ SubSeq(m, 1, size) = m
    <2> DEFINE S == {w[i - 1] : i \in 1 .. size}
    <2>1. \A i \in 1 .. size : w[i - 1] \in S
      OBVIOUS
    <2> HIDE DEF S
    <2>2. [i \in 1 .. size |-> w[i - 1]] \in Seq(S)
      BY <1>1, <2>1
    <2>3. Len([i \in 1 .. size |-> w[i - 1]]) = size
      BY <1>1
    <2>4. \A s \in Seq(S) : SubSeq(s, 1, Len(s)) = s
      OBVIOUS
    <2> QED BY <1>2, <2>2, <2>3, <2>4
  <1>4. \A i \in 1 .. size : m[i] = w[i - 1]
    BY <1>2
  <1> HIDE DEF m
  <1>5. /\ DOMAIN Written(b, 0, m) = Offsets
        /\ \A i \in 1 .. Len(m) : Written(b, 0, m)[0 + i - 1] = m[i]
    BY <1>1, <1>3, WrittenBytes
  <1>6. ASSUME NEW k \in 0 .. size - 1 PROVE Written(b, 0, m)[k] = w[k]
    <2>1. k + 1 \in 1 .. size /\ 0 + (k + 1) - 1 = k /\ (k + 1) - 1 = k
      BY <1>1
    <2> QED BY <1>3, <1>4, <1>5, <2>1
  <1> QED BY <1>3, <1>6 DEF m

\* Where a response is written.
LEMMA ResponseWritten ==
    ASSUME NEW b, NEW r \in FittingResponses
    PROVE  LET w == serialize_response(b, r)
           IN /\ w[0] = Short(r.port)[1] /\ w[1] = Short(r.port)[2]
              /\ \A i \in 1 .. Len(r.hostname) : w[2 + i - 1] = r.hostname[i]
              /\ w[2 + Len(r.hostname)] = 0
  <1> DEFINE t == r.hostname
  <1> DEFINE v == Written(b, 0, Short(r.port))
  <1> DEFINE w == Written(v, 2, Append(t, 0))
  <1>1. r.port \in 0 .. Radix * Radix - 1 /\ t \in Texts /\ Len(t) + 3 <= Size
    BY TextBytes DEF FittingResponses, response_size
  <1>2. /\ Append(t, 0) \in Seq(Bytes) /\ Len(t) \in Nat
        /\ Len(Append(t, 0)) = Len(t) + 1
        /\ \A i \in 1 .. Len(t) : Append(t, 0)[i] = t[i]
        /\ Append(t, 0)[Len(t) + 1] = 0
    BY <1>1, TextBytes
  <1>3. v[0] = Short(r.port)[1] /\ v[1] = Short(r.port)[2]
    <2>1. Short(r.port) \in Seq(Bytes) /\ Len(Short(r.port)) = 2
      BY <1>1, ShortFound
    <2>2. 0 + 2 <= Size
      BY <1>1, <1>2, WireAssumption
    <2> DEFINE h == Short(r.port)
    <2>3. Len(h) \in Nat /\ Len(h) <= Size
      BY <2>1, <2>2
    <2> HIDE DEF h
    <2>4. /\ DOMAIN Written(b, 0, h) = Offsets
          /\ \A i \in 1 .. Len(h) : Written(b, 0, h)[0 + i - 1] = h[i]
      BY <2>3, WrittenBytes
    <2> QED BY <2>1, <2>4 DEF h
  <1> HIDE DEF v
  <1>4. /\ \A i \in 1 .. Len(t) + 1 : w[2 + i - 1] = Append(t, 0)[i]
        /\ \A k \in Offsets : k < 2 => w[k] = v[k]
    <2>1. 2 + Len(Append(t, 0)) <= Size
      BY <1>1, <1>2, WireAssumption
    <2> DEFINE z == Append(t, 0)
    <2>2. z \in Seq(Bytes) /\ 2 + Len(z) <= Size /\ Len(z) = Len(t) + 1
      BY <1>2, <2>1
    <2> HIDE DEF z
    <2>3. /\ DOMAIN Written(v, 2, z) = Offsets
          /\ \A i \in 1 .. Len(z) : Written(v, 2, z)[2 + i - 1] = z[i]
          /\ \A k \in Offsets : k < 2 => Written(v, 2, z)[k] = v[k]
      BY <1>3, <2>2, WrittenBytes
    <2> QED BY <2>2, <2>3 DEF z
  <1>5. w[0] = v[0] /\ w[1] = v[1]
    BY <1>1, <1>2, <1>4, WireAssumption DEF Offsets
  <1>6. \A i \in 1 .. Len(t) : w[2 + i - 1] = t[i]
    BY <1>2, <1>4
  <1>7. w[2 + Len(t)] = 0
    <2>1. Len(t) + 1 \in 1 .. Len(t) + 1 /\ 2 + (Len(t) + 1) - 1 = 2 + Len(t)
      BY <1>2
    <2> QED BY <1>2, <1>4, <2>1
  <1>8. serialize_response(b, r) = w
    BY DEF serialize_response, WrittenText, v
  <1> QED BY <1>3, <1>4, <1>5, <1>6, <1>7, <1>8

\* A response is read as it was written, whatever the buffers of the sender
\* and of the receiver held (serialize_response, deserialize_response).
THEOREM ResponseDelivered ==
    ASSUME NEW b, NEW c, NEW r \in FittingResponses
    PROVE  deserialize_response(
                Written(c, 0, Message(serialize_response(b, r),
                                      response_size(r)))) = r
  <1> DEFINE w == serialize_response(b, r)
  <1> DEFINE t == r.hostname
  <1> DEFINE d == Written(c, 0, Message(w, response_size(r)))
  <1>1. /\ r \in [port : 0 .. Radix * Radix - 1, hostname : Texts]
        /\ t \in Texts /\ Len(t) \in Nat
        /\ response_size(r) = Len(t) + 3 /\ response_size(r) <= Size
    BY TextBytes DEF FittingResponses, response_size
  <1>2. /\ w[0] = Short(r.port)[1] /\ w[1] = Short(r.port)[2]
        /\ \A i \in 1 .. Len(t) : w[2 + i - 1] = t[i]
        /\ w[2 + Len(t)] = 0
    BY ResponseWritten
  <1> HIDE DEF w
  <1>3. response_size(r) \in 0 .. Size
    BY <1>1, WireAssumption
  <1>4. \A k \in 0 .. Len(t) + 2 : d[k] = w[k]
    <2>1. /\ \A k \in 0 .. response_size(r) - 1 : d[k] = w[k]
      BY <1>2, <1>3, Delivered
    <2> QED BY <1>1, <2>1
  <1> HIDE DEF d
  <1>5. d[0] = w[0] /\ d[1] = w[1] /\ d[2 + Len(t)] = w[2 + Len(t)]
    BY <1>1, <1>4
  <1>6. \A i \in 1 .. Len(t) : d[2 + i - 1] = t[i]
    <2>1. \A i \in 1 .. Len(t) : 2 + i - 1 \in 0 .. Len(t) + 2
      BY <1>1
    <2> QED BY <1>2, <1>4, <2>1
  <1>7. TextAt(d, 2) = t
    <2>1. 2 + Len(t) < Size
      BY <1>1, WireAssumption
    <2> QED BY <1>1, <1>2, <1>4, <1>5, <1>6, <2>1, TextFound
  <1>8. ShortAt(d, 0) = r.port
    BY <1>1, <1>2, <1>5, ShortFound DEF ShortAt
  <1>9. deserialize_response(d) = r
    BY <1>1, <1>7, <1>8 DEF deserialize_response
  <1> QED BY <1>9 DEF d, w

\* A text that is written is found, and what precedes it is kept.
LEMMA TextWritten ==
    ASSUME NEW b, NEW t \in Texts, NEW at \in Nat,
           at + Len(t) < Size
    PROVE  /\ \A i \in 1 .. Len(t) : WrittenText(b, at, t)[at + i - 1] = t[i]
           /\ WrittenText(b, at, t)[at + Len(t)] = 0
           /\ \A k \in 0 .. at - 1 : WrittenText(b, at, t)[k] = b[k]
  <1> DEFINE z == Append(t, 0)
  <1>1. /\ z \in Seq(Bytes) /\ Len(t) \in Nat /\ Len(z) = Len(t) + 1
        /\ \A i \in 1 .. Len(t) : z[i] = t[i]
        /\ z[Len(t) + 1] = 0
    BY TextBytes
  <1> HIDE DEF z
  <1>2. at + Len(z) <= Size
    BY <1>1, WireAssumption
  <1>3. /\ DOMAIN Written(b, at, z) = Offsets
        /\ \A i \in 1 .. Len(z) : Written(b, at, z)[at + i - 1] = z[i]
        /\ \A k \in Offsets : k < at => Written(b, at, z)[k] = b[k]
    BY <1>1, <1>2, WrittenBytes
  <1>4. \A i \in 1 .. Len(t) : Written(b, at, z)[at + i - 1] = t[i]
    BY <1>1, <1>3
  <1>5. Written(b, at, z)[at + Len(t)] = 0
    <2>1. /\ Len(t) + 1 \in 1 .. Len(z)
          /\ at + (Len(t) + 1) - 1 = at + Len(t)
      BY <1>1
    <2> QED BY <1>1, <1>3, <2>1
  <1>6. \A k \in 0 .. at - 1 : Written(b, at, z)[k] = b[k]
    BY <1>1, <1>2, <1>3, WireAssumption DEF Offsets
  <1> QED BY <1>3, <1>4, <1>5, <1>6 DEF WrittenText, z

\* The bytes of the head of a request.
LEMMA HeadBytes ==
    ASSUME NEW y \in Bytes, NEW p \in Seq(Bytes), Len(p) = 2
    PROVE  /\ <<y>> \o p \in Seq(Bytes) /\ Len(<<y>> \o p) = 3
           /\ (<<y>> \o p)[1] = y /\ (<<y>> \o p)[2] = p[1]
           /\ (<<y>> \o p)[3] = p[2]
  <1> DEFINE q == <<y>>
  <1>1. Len(q) = 1 /\ q[1] = y
    OBVIOUS
  <1>2. q \in Seq(Bytes)
    OBVIOUS
  <1> HIDE DEF q
  <1>3. q \o p \in Seq(Bytes) /\ Len(q \o p) = Len(q) + Len(p)
    BY <1>2, Joined
  <1>4. \A s, t \in Seq(Bytes) :
            /\ \A i \in 1 .. Len(s) : (s \o t)[i] = s[i]
            /\ \A i \in 1 .. Len(t) : (s \o t)[Len(s) + i] = t[i]
    BY Joined
  <1>5. /\ (q \o p)[1] = q[1] /\ (q \o p)[2] = p[1]
        /\ (q \o p)[3] = p[2] /\ Len(q \o p) = 3
    BY <1>1, <1>2, <1>3, <1>4
  <1> QED BY <1>1, <1>3, <1>5 DEF q

\* Where the head of a request is written: its type and its application.
LEMMA HeadWritten ==
    ASSUME NEW b, NEW y \in Bytes,
           NEW n \in 0 .. Radix * Radix - 1, 3 <= Size
    PROVE  LET v == Written(b, 0, <<y>> \o Short(n))
           IN /\ v[0] = y
              /\ v[1] = Short(n)[1] /\ v[2] = Short(n)[2]
  <1> DEFINE h == <<y>> \o Short(n)
  <1>1. Short(n) \in Seq(Bytes) /\ Len(Short(n)) = 2
    BY ShortFound
  <1>2. /\ h \in Seq(Bytes) /\ Len(h) = 3
        /\ h[1] = y /\ h[2] = Short(n)[1] /\ h[3] = Short(n)[2]
    BY <1>1, HeadBytes
  <1> HIDE DEF h
  <1>3. Len(h) \in Nat /\ Len(h) <= Size
    BY <1>2
  <1>4. /\ DOMAIN Written(b, 0, h) = Offsets
        /\ \A i \in 1 .. Len(h) : Written(b, 0, h)[0 + i - 1] = h[i]
    BY <1>3, WrittenBytes
  <1>5. /\ Written(b, 0, h)[0] = h[1] /\ Written(b, 0, h)[1] = h[2]
        /\ Written(b, 0, h)[2] = h[3]
    BY <1>2, <1>4
  <1> QED BY <1>1, <1>2, <1>4, <1>5 DEF h

\* Where a request is written.
LEMMA RequestWritten ==
    ASSUME NEW b, NEW r \in FittingRequests
    PROVE  LET w == serialize_request(b, r)
               at == 3 + Len(r.name) + 1
           IN /\ w[0] = r.type
              /\ w[1] = Short(r.application_id)[1]
              /\ w[2] = Short(r.application_id)[2]
              /\ \A i \in 1 .. Len(r.name) : w[3 + i - 1] = r.name[i]
              /\ w[3 + Len(r.name)] = 0
              /\ \A i \in 1 .. Len(r.user_equipment_name) :
                    w[at + i - 1] = r.user_equipment_name[i]
              /\ w[at + Len(r.user_equipment_name)] = 0
  <1> DEFINE t == r.name
  <1> DEFINE u == r.user_equipment_name
  <1> DEFINE at == 3 + Len(t) + 1
  <1> DEFINE v == Written(b, 0, <<r.type>> \o Short(r.application_id))
  <1> DEFINE x == WrittenText(v, 3, t)
  <1> DEFINE w == WrittenText(x, at, u)
  <1>1. /\ r.type \in Bytes /\ r.application_id \in 0 .. Radix * Radix - 1
        /\ t \in Texts /\ u \in Texts
        /\ Len(t) + 1 + Len(u) + 1 + 1 + 2 <= Size
    BY DEF FittingRequests, request_size
  <1>2. Len(t) \in Nat /\ Len(u) \in Nat /\ Size \in Nat
    BY <1>1, TextBytes, WireAssumption
  <1> HIDE DEF t, u
  <1>3. v[0] = r.type /\ v[1] = Short(r.application_id)[1]
        /\ v[2] = Short(r.application_id)[2]
    <2>1. 3 <= Size
      BY <1>1, <1>2
    <2> QED BY <1>1, <2>1, HeadWritten
  <1> HIDE DEF v
  <1>4. /\ \A i \in 1 .. Len(t) : x[3 + i - 1] = t[i]
        /\ x[3 + Len(t)] = 0
        /\ \A k \in 0 .. 2 : x[k] = v[k]
    <2>1. 3 + Len(t) < Size
      BY <1>1, <1>2
    <2> QED BY <1>1, <1>3, <2>1, TextWritten
  <1> HIDE DEF x
  <1>5. /\ \A i \in 1 .. Len(u) : w[at + i - 1] = u[i]
        /\ w[at + Len(u)] = 0
        /\ \A k \in 0 .. at - 1 : w[k] = x[k]
    <2>1. at \in Nat /\ at + Len(u) < Size
      BY <1>1, <1>2
    <2> QED BY <1>1, <1>4, <2>1, TextWritten
  <1> HIDE DEF w
  <1>6. w[0] = v[0] /\ w[1] = v[1] /\ w[2] = v[2]
    BY <1>2, <1>4, <1>5
  <1>7. \A i \in 1 .. Len(t) : w[3 + i - 1] = t[i]
    <2>1. \A i \in 1 .. Len(t) : 3 + i - 1 \in 0 .. at - 1
      BY <1>2
    <2> QED BY <1>4, <1>5, <2>1
  <1>8. w[3 + Len(t)] = 0
    <2>1. 3 + Len(t) \in 0 .. at - 1
      BY <1>2
    <2> QED BY <1>4, <1>5, <2>1
  <1>9. serialize_request(b, r) = w
    BY DEF serialize_request, t, u, v, x, w
  <1> QED BY <1>3, <1>5, <1>6, <1>7, <1>8, <1>9 DEF t, u

\* A request is read as it was written, whatever the buffers of the sender
\* and of the receiver held (serialize_request, deserialize_request).
THEOREM RequestDelivered ==
    ASSUME NEW b, NEW c, NEW r \in FittingRequests
    PROVE  deserialize_request(
                Written(c, 0, Message(serialize_request(b, r),
                                      request_size(r)))) = r
  <1> DEFINE w == serialize_request(b, r)
  <1> DEFINE t == r.name
  <1> DEFINE u == r.user_equipment_name
  <1> DEFINE at == 3 + Len(t) + 1
  <1> DEFINE size == request_size(r)
  <1> DEFINE d == Written(c, 0, Message(w, size))
  <1>1. /\ r \in [type : Bytes, application_id : 0 .. Radix * Radix - 1,
                  name : Texts, user_equipment_name : Texts]
        /\ t \in Texts /\ u \in Texts
        /\ size = Len(t) + 1 + Len(u) + 1 + 1 + 2 /\ size <= Size
    BY DEF FittingRequests, request_size
  <1>2. Len(t) \in Nat /\ Len(u) \in Nat /\ Size \in Nat
    BY <1>1, TextBytes, WireAssumption
  <1>3. /\ w[0] = r.type
        /\ w[1] = Short(r.application_id)[1]
        /\ w[2] = Short(r.application_id)[2]
        /\ \A i \in 1 .. Len(t) : w[3 + i - 1] = t[i]
        /\ w[3 + Len(t)] = 0
        /\ \A i \in 1 .. Len(u) : w[at + i - 1] = u[i]
        /\ w[at + Len(u)] = 0
    BY RequestWritten
  <1> HIDE DEF t, u
  <1>4. size \in 0 .. Size /\ size = at + Len(u) + 1
    BY <1>1, <1>2
  <1> HIDE DEF w, size
  <1>5. \A k \in 0 .. size - 1 : d[k] = w[k]
    BY <1>3, <1>4, Delivered
  <1> HIDE DEF d
  <1>6. /\ d[0] = w[0] /\ d[1] = w[1] /\ d[2] = w[2]
        /\ d[3 + Len(t)] = w[3 + Len(t)]
        /\ d[at + Len(u)] = w[at + Len(u)]
    BY <1>2, <1>4, <1>5
  <1>7. TextAt(d, 3) = t
    <2>1. 3 + Len(t) < Size
      BY <1>2, <1>4
    <2>2. \A i \in 1 .. Len(t) : 3 + i - 1 \in 0 .. size - 1
      BY <1>2, <1>4
    <2>3. \A i \in 1 .. Len(t) : d[3 + i - 1] = t[i]
      BY <1>3, <1>5, <2>2
    <2> QED BY <1>1, <1>3, <1>5, <1>6, <2>1, <2>3, TextFound
  <1>8. TextAt(d, at) = u
    <2>1. at \in Nat /\ at + Len(u) < Size
      BY <1>2, <1>4
    <2>2. \A i \in 1 .. Len(u) : at + i - 1 \in 0 .. size - 1
      BY <1>2, <1>4
    <2>3. \A i \in 1 .. Len(u) : d[at + i - 1] = u[i]
      BY <1>3, <1>5, <2>2
    <2> HIDE DEF at
    <2> QED BY <1>1, <1>3, <1>5, <1>6, <2>1, <2>3, TextFound
  <1>9. ShortAt(d, 1) = r.application_id
    BY <1>1, <1>3, <1>6, ShortFound DEF ShortAt
  <1>10. deserialize_request(d) = r
    BY <1>1, <1>3, <1>6, <1>7, <1>8, <1>9 DEF deserialize_request, t, u
  <1> QED BY <1>10 DEF d, w, size

\* The name of the file is read as it was written, too.
THEOREM NameDelivered ==
    ASSUME NEW b, NEW c, NEW t \in Texts, logger_start_size(t) <= Size
    PROVE  deserialize_logger_start(
                Written(c, 0, Message(serialize_logger_start(b, t),
                                      logger_start_size(t)))) = t
  <1> DEFINE w == serialize_logger_start(b, t)
  <1> DEFINE size == logger_start_size(t)
  <1> DEFINE d == Written(c, 0, Message(w, size))
  <1>1. Len(t) \in Nat /\ size = Len(t) + 1 /\ size \in 0 .. Size
    BY TextBytes, WireAssumption DEF logger_start_size
  <1>2. /\ \A i \in 1 .. Len(t) : WrittenText(b, 0, t)[0 + i - 1] = t[i]
        /\ WrittenText(b, 0, t)[0 + Len(t)] = 0
        /\ \A k \in 0 .. 0 - 1 : WrittenText(b, 0, t)[k] = b[k]
    <2>1. 0 \in Nat /\ 0 + Len(t) < Size
      BY <1>1, WireAssumption
    <2> QED BY <2>1, TextWritten
  <1>3. /\ \A i \in 1 .. Len(t) : w[0 + i - 1] = t[i]
        /\ w[0 + Len(t)] = 0
    BY <1>2 DEF serialize_logger_start
  <1> HIDE DEF w, size
  <1>4. \A k \in 0 .. size - 1 : d[k] = w[k]
    BY <1>1, Delivered
  <1> HIDE DEF d
  <1>5. /\ \A i \in 1 .. Len(t) : d[0 + i - 1] = t[i]
        /\ d[0 + Len(t)] = 0
    <2>1. /\ \A i \in 1 .. Len(t) : 0 + i - 1 \in 0 .. size - 1
          /\ 0 + Len(t) \in 0 .. size - 1
      BY <1>1
    <2> QED BY <1>3, <1>4, <2>1
  <1>6. 0 \in Nat /\ 0 + Len(t) < Size
    BY <1>1, WireAssumption
  <1>7. TextAt(d, 0) = t
    BY <1>5, <1>6, TextFound
  <1> QED BY <1>7 DEF deserialize_logger_start, d, w, size

-------------------------------------------------------------------------------
(* Messages do not depend on what their sender's buffer held before. *)

Blank == [k \in Offsets |-> 0]
RequestMessage(r) == Message(serialize_request(Blank, r), request_size(r))
ResponseMessage(r) == Message(serialize_response(Blank, r), response_size(r))
NameMessage(t) ==
    Message(serialize_logger_start(Blank, t), logger_start_size(t))

\* Two buffers that begin alike are the same message.
LEMMA SameMessage ==
    ASSUME NEW v, NEW w, NEW size \in Nat, \A k \in 0 .. size - 1 : v[k] = w[k]
    PROVE  Message(v, size) = Message(w, size)
  <1>1. \A i \in 1 .. size : i - 1 \in 0 .. size - 1
    OBVIOUS
  <1> QED BY <1>1 DEF Message

\* The bytes of a request are those of the request.
LEMMA SameRequest ==
    ASSUME NEW b, NEW r \in FittingRequests
    PROVE  Message(serialize_request(b, r), request_size(r)) = RequestMessage(r)
  <1> DEFINE v == serialize_request(b, r)
  <1> DEFINE w == serialize_request(Blank, r)
  <1> DEFINE t == r.name
  <1> DEFINE u == r.user_equipment_name
  <1> DEFINE at == 3 + Len(t) + 1
  <1> DEFINE size == request_size(r)
  <1>1. /\ size = Len(t) + 1 + Len(u) + 1 + 1 + 2
        /\ t \in Texts /\ u \in Texts
    BY DEF FittingRequests, request_size
  <1>2. Len(t) \in Nat /\ Len(u) \in Nat
    BY <1>1, TextBytes
  <1>3. /\ v[0] = r.type
        /\ v[1] = Short(r.application_id)[1]
        /\ v[2] = Short(r.application_id)[2]
        /\ \A i \in 1 .. Len(t) : v[3 + i - 1] = t[i]
        /\ v[3 + Len(t)] = 0
        /\ \A i \in 1 .. Len(u) : v[at + i - 1] = u[i]
        /\ v[at + Len(u)] = 0
    BY RequestWritten
  <1>4. /\ w[0] = r.type
        /\ w[1] = Short(r.application_id)[1]
        /\ w[2] = Short(r.application_id)[2]
        /\ \A i \in 1 .. Len(t) : w[3 + i - 1] = t[i]
        /\ w[3 + Len(t)] = 0
        /\ \A i \in 1 .. Len(u) : w[at + i - 1] = u[i]
        /\ w[at + Len(u)] = 0
    BY RequestWritten
  <1> HIDE DEF v, w, t, u, size
  <1>5. /\ v[0] = w[0] /\ v[1] = w[1] /\ v[2] = w[2]
        /\ \A i \in 1 .. Len(t) : v[3 + i - 1] = w[3 + i - 1]
        /\ v[3 + Len(t)] = w[3 + Len(t)]
        /\ \A i \in 1 .. Len(u) : v[at + i - 1] = w[at + i - 1]
        /\ v[at + Len(u)] = w[at + Len(u)]
    BY <1>3, <1>4
  <1>6. ASSUME NEW k \in 0 .. size - 1 PROVE v[k] = w[k]
    <2>1. CASE k \in 0 .. 2
      BY <1>5, <2>1
    <2>2. CASE k \in 3 .. 3 + Len(t) - 1
      <3>1. k - 2 \in 1 .. Len(t) /\ 3 + (k - 2) - 1 = k
        BY <1>2, <2>2
      <3> QED BY <1>5, <3>1
    <2>3. CASE k = 3 + Len(t)
      BY <1>5, <2>3
    <2>4. CASE k \in at .. at + Len(u) - 1
      <3>1. k - at + 1 \in 1 .. Len(u) /\ at + (k - at + 1) - 1 = k
        BY <1>2, <2>4
      <3> QED BY <1>5, <3>1
    <2>5. CASE k = at + Len(u)
      BY <1>5, <2>5
    <2> QED BY <1>1, <1>2, <2>1, <2>2, <2>3, <2>4, <2>5
  <1>7. size \in Nat
    BY <1>1, <1>2
  <1> QED BY <1>6, <1>7, SameMessage DEF RequestMessage, v, w, size

\* The bytes of a response are those of the response.
LEMMA SameResponse ==
    ASSUME NEW b, NEW r \in FittingResponses
    PROVE  Message(serialize_response(b, r), response_size(r))
           = ResponseMessage(r)
  <1> DEFINE v == serialize_response(b, r)
  <1> DEFINE w == serialize_response(Blank, r)
  <1> DEFINE t == r.hostname
  <1> DEFINE size == response_size(r)
  <1>1. size = Len(t) + 1 + 2 /\ t \in Texts
    BY DEF FittingResponses, response_size
  <1>2. Len(t) \in Nat
    BY <1>1, TextBytes
  <1>3. /\ v[0] = w[0] /\ v[1] = w[1]
        /\ \A i \in 1 .. Len(t) : v[2 + i - 1] = w[2 + i - 1]
        /\ v[2 + Len(t)] = w[2 + Len(t)]
    BY ResponseWritten
  <1> HIDE DEF v, w, t, size
  <1>4. ASSUME NEW k \in 0 .. size - 1 PROVE v[k] = w[k]
    <2>1. CASE k \in 0 .. 1
      BY <1>3, <2>1
    <2>2. CASE k \in 2 .. 2 + Len(t) - 1
      <3>1. k - 1 \in 1 .. Len(t) /\ 2 + (k - 1) - 1 = k
        BY <1>2, <2>2
      <3> QED BY <1>3, <3>1
    <2>3. CASE k = 2 + Len(t)
      BY <1>3, <2>3
    <2> QED BY <1>1, <1>2, <2>1, <2>2, <2>3
  <1>5. size \in Nat
    BY <1>1, <1>2
  <1> QED BY <1>4, <1>5, SameMessage DEF ResponseMessage, v, w, size

\* The bytes of a name are those of the name.
LEMMA SameName ==
    ASSUME NEW b, NEW t \in Texts, logger_start_size(t) <= Size
    PROVE  Message(serialize_logger_start(b, t), logger_start_size(t))
           = NameMessage(t)
  <1> DEFINE v == serialize_logger_start(b, t)
  <1> DEFINE w == serialize_logger_start(Blank, t)
  <1> DEFINE size == logger_start_size(t)
  <1>1. Len(t) \in Nat /\ size = Len(t) + 1 /\ size \in Nat
    BY TextBytes DEF logger_start_size
  <1>2. \A c : /\ \A i \in 1 .. Len(t) : WrittenText(c, 0, t)[0 + i - 1] = t[i]
               /\ WrittenText(c, 0, t)[0 + Len(t)] = 0
    <2> SUFFICES ASSUME NEW c
                 PROVE  /\ \A i \in 1 .. Len(t) :
                            WrittenText(c, 0, t)[0 + i - 1] = t[i]
                        /\ WrittenText(c, 0, t)[0 + Len(t)] = 0
      OBVIOUS
    <2>1. 0 \in Nat /\ 0 + Len(t) < Size
      BY <1>1, WireAssumption
    <2>2. /\ \A i \in 1 .. Len(t) : WrittenText(c, 0, t)[0 + i - 1] = t[i]
          /\ WrittenText(c, 0, t)[0 + Len(t)] = 0
          /\ \A k \in 0 .. 0 - 1 : WrittenText(c, 0, t)[k] = c[k]
      BY <2>1, TextWritten
    <2> QED BY <2>2
  <1>3. /\ \A i \in 1 .. Len(t) : v[0 + i - 1] = t[i] /\ w[0 + i - 1] = t[i]
        /\ v[0 + Len(t)] = 0 /\ w[0 + Len(t)] = 0
    BY <1>2 DEF serialize_logger_start
  <1> HIDE DEF v, w, size
  <1>4. ASSUME NEW k \in 0 .. size - 1 PROVE v[k] = w[k]
    <2>1. CASE k = Len(t)
      BY <1>1, <1>3, <2>1
    <2>2. CASE k # Len(t)
      <3>1. k + 1 \in 1 .. Len(t) /\ 0 + (k + 1) - 1 = k
        BY <1>1, <2>2
      <3> QED BY <1>3, <3>1
    <2> QED BY <2>1, <2>2
  <1> QED BY <1>1, <1>4, SameMessage DEF NameMessage, v, w, size

-------------------------------------------------------------------------------
(* The numbers of the log. *)

\* What the program computes with >> is division, one byte at a time.
LEMMA ShiftedByOne ==
    ASSUME NEW number \in Nat
    PROVE  /\ Shifted(number) \in [0 .. EntrySize -> Nat]
           /\ Shifted(number)[0] = number
           /\ \A k \in 1 .. EntrySize :
                Shifted(number)[k] = Shifted(number)[k - 1] \div Radix
  <1> DEFINE step == [x \in Nat |-> x \div Radix]
  <1> DEFINE Shifts(f) ==
          f = [k \in 0 .. EntrySize |->
                  IF k = 0 THEN number ELSE f[k - 1] \div Radix]
  <1> DEFINE s == Shifted(number)
  <1>1. \A x \in Nat : x \div Radix \in Nat
    BY Division, WireAssumption
  <1>2. \E f : Shifts(f)
    <2>1. step \in [Nat -> Nat] /\ EntrySize \in Nat
      BY <1>1, WireAssumption
    <2> HIDE DEF step
    <2>2. PICK f \in [0 .. EntrySize -> Nat] :
              f[0] = number /\ \A k \in 1 .. EntrySize : f[k] = step[f[k - 1]]
      <3>1. PICK T : T = Nat
        OBVIOUS
      <3>2. number \in T /\ step \in [T -> T] /\ EntrySize \in Nat
        BY <2>1, <3>1
      <3>3. \E f : Iterated(f, number, step, EntrySize, T)
        BY <3>2, Iterates
      <3> QED BY <3>1, <3>3 DEF Iterated
    <2>3. ASSUME NEW k \in 0 .. EntrySize
          PROVE  f[k] = IF k = 0 THEN number ELSE f[k - 1] \div Radix
      <3>1. CASE k = 0
        BY <2>2, <3>1
      <3>2. CASE k # 0
        <4>1. k \in 1 .. EntrySize /\ k - 1 \in 0 .. EntrySize
          BY <2>1, <3>2
        <4>2. f[k - 1] \in Nat
          BY <4>1
        <4> QED BY <2>2, <3>2, <4>1, <4>2 DEF step
      <3> QED BY <3>1, <3>2
    <2>4. f = [k \in 0 .. EntrySize |->
                  IF k = 0 THEN number ELSE f[k - 1] \div Radix]
      BY <2>3
    <2> QED BY <2>4
  <1>3. s = CHOOSE f : Shifts(f)
    BY DEF Shifted
  <1>4. Shifts(s)
    BY <1>2, <1>3
  <1> HIDE DEF s
  <1>5. /\ DOMAIN s = 0 .. EntrySize /\ s[0] = number
        /\ \A k \in 1 .. EntrySize : s[k] = s[k - 1] \div Radix
    BY <1>4, WireAssumption
  <1>6. \A k \in 0 .. EntrySize : s[k] \in Nat
    <2> DEFINE S == {k \in Nat : k <= EntrySize => s[k] \in Nat}
    <2>1. 0 \in S
      BY <1>5
    <2>2. ASSUME NEW k \in S PROVE k + 1 \in S
      <3> SUFFICES ASSUME k + 1 <= EntrySize PROVE s[k + 1] \in Nat
        OBVIOUS
      <3>1. k \in Nat /\ k + 1 \in 1 .. EntrySize /\ (k + 1) - 1 = k
        BY WireAssumption
      <3>2. s[k] \in Nat
        BY <3>1, WireAssumption
      <3> QED BY <1>1, <1>5, <3>1, <3>2
    <2>3. S \in SUBSET Nat
      OBVIOUS
    <2>4. S = Nat
      <3> HIDE DEF S
      <3> QED BY <2>1, <2>2, <2>3, Induction
    <2> QED BY <2>4, WireAssumption
  <1>7. s = [k \in 0 .. EntrySize |->
                IF k = 0 THEN number ELSE s[k - 1] \div Radix]
    BY <1>4
  <1>8. s \in [0 .. EntrySize -> Nat]
    BY <1>6, <1>7
  <1> QED BY <1>5, <1>8 DEF s

\* The bytes of a number are bytes, and their value is the number, if as many
\* bytes as an entry has can hold it.
THEOREM NumberRecovered ==
    ASSUME NEW number \in Nat, Shifted(number)[EntrySize] = 0
    PROVE  Value(Digits(number)) = number
  <1> DEFINE s == Shifted(number)
  <1> DEFINE d == Digits(number)
  <1> DEFINE Uptos(f) ==
          f = [i \in 0 .. EntrySize |->
                  IF i = 0 THEN 0 ELSE f[i - 1] * Radix + d[i]]
  <1> DEFINE u == [i \in 0 .. EntrySize |-> s[EntrySize - i]]
  <1>1. /\ s \in [0 .. EntrySize -> Nat] /\ s[0] = number
        /\ \A k \in 1 .. EntrySize : s[k] = s[k - 1] \div Radix
    BY ShiftedByOne
  <1>2. \A i \in 1 .. EntrySize : d[i] = s[EntrySize - i] % Radix
    BY DEF Digits
  <1>3. s[EntrySize] = 0
    OBVIOUS
  <1>4. Value(d) = (CHOOSE f : Uptos(f))[EntrySize]
    BY DEF Value
  <1> HIDE DEF s, d
  <1>5. u[0] = 0 /\ u[EntrySize] = number
    BY <1>1, <1>3, WireAssumption
  <1>6. ASSUME NEW i \in 1 .. EntrySize
        PROVE  u[i] = u[i - 1] * Radix + d[i]
    <2> DEFINE k == EntrySize - i
    <2>1. k \in 0 .. EntrySize /\ k + 1 \in 1 .. EntrySize /\ (k + 1) - 1 = k
      BY WireAssumption
    <2>2. u[i] = s[k] /\ u[i - 1] = s[k + 1] /\ d[i] = s[k] % Radix
      <3>1. EntrySize - (i - 1) = k + 1
        BY WireAssumption
      <3> QED BY <1>2, <3>1, WireAssumption
    <2> HIDE DEF k, u
    <2>3. s[k] \in Nat /\ s[k + 1] = s[k] \div Radix
      BY <1>1, <2>1
    <2>4. Radix \in Nat \ {0}
      BY WireAssumption
    <2>5. s[k] = Radix * s[k + 1] + (s[k] % Radix)
      <3>1. \A t \in Nat : t = Radix * (t \div Radix) + (t % Radix)
        BY <2>4, Division
      <3> QED BY <2>3, <3>1
    <2>6. s[k + 1] \in Nat
      BY <1>1, <2>1
    <2>7. Radix * s[k + 1] = s[k + 1] * Radix
      BY <2>4, <2>6
    <2> QED BY <2>2, <2>5, <2>7
  <1>7. Uptos(u)
    <2>1. \A i \in 0 .. EntrySize :
              u[i] = IF i = 0 THEN 0 ELSE u[i - 1] * Radix + d[i]
      <3> HIDE DEF u
      <3> QED BY <1>5, <1>6, WireAssumption
    <2>2. u = [i \in 0 .. EntrySize |-> u[i]]
      OBVIOUS
    <2> HIDE DEF u
    <2> QED BY <2>1, <2>2
  <1> DEFINE f == CHOOSE g : Uptos(g)
  <1>8. Uptos(f)
    <2> HIDE DEF u, Uptos
    <2> QED BY <1>7
  <1> HIDE DEF f, u
  <1>9. /\ f[0] = 0
        /\ \A i \in 1 .. EntrySize : f[i] = f[i - 1] * Radix + d[i]
    BY <1>8, WireAssumption
  <1>10. f[EntrySize] = u[EntrySize]
    <2> DEFINE S == {i \in Nat : i <= EntrySize => f[i] = u[i]}
    <2>1. 0 \in S
      BY <1>5, <1>9
    <2>2. ASSUME NEW i \in S PROVE i + 1 \in S
      <3> SUFFICES ASSUME i + 1 <= EntrySize PROVE f[i + 1] = u[i + 1]
        OBVIOUS
      <3>1. i \in Nat /\ i + 1 \in 1 .. EntrySize /\ (i + 1) - 1 = i
        BY WireAssumption
      <3>2. f[i] = u[i]
        BY <3>1, WireAssumption
      <3>3. /\ f[i + 1] = f[(i + 1) - 1] * Radix + d[i + 1]
            /\ u[i + 1] = u[(i + 1) - 1] * Radix + d[i + 1]
        BY <1>6, <1>9, <3>1
      <3> QED BY <3>1, <3>2, <3>3
    <2>3. S \in SUBSET Nat
      OBVIOUS
    <2>4. S = Nat
      <3> HIDE DEF S
      <3> QED BY <2>1, <2>2, <2>3, Induction
    <2> QED BY <2>4, WireAssumption
  <1> QED BY <1>4, <1>5, <1>10 DEF f, d

\* The entry that is sent is made of the bytes of the number.
LEMMA EntryWritten ==
    ASSUME NEW b, NEW number \in Nat
    PROVE  Message(serialize_logger_time_point(b, number), EntrySize)
                = Digits(number)
  <1> DEFINE w == serialize_logger_time_point(b, number)
  <1>1. Len(Digits(number)) = EntrySize
    BY WireAssumption DEF Digits
  <1>2. ASSUME NEW i \in 1 .. EntrySize PROVE w[i - 1] = Digits(number)[i]
    <2>1. i - 1 \in Offsets /\ (i - 1) - 0 + 1 = i
      BY WireAssumption DEF Offsets
    <2> QED BY <1>1, <2>1 DEF serialize_logger_time_point, Written
  <1>3. Message(w, EntrySize) = [i \in 1 .. EntrySize |-> Digits(number)[i]]
    BY <1>2 DEF Message
  <1> QED BY <1>3 DEF Digits

-------------------------------------------------------------------------------
(* The exchange. *)

\* A request that is to be sent, and one that is under way.
RequestMade ==
    /\ mpc = "send" /\ main_alone =>
        /\ buffer_size = request_size(Self)
        /\ Message(buffer, buffer_size) = RequestMessage(Self)
    /\ request # NoMessage =>
        /\ mpc = "receive" /\ response = NoMessage
        /\ sent_alone => request = RequestMessage(Self)

\* An answer that is under way, and one that was received.
AnswerMade ==
    /\ response # NoMessage =>
        /\ mpc = "receive" /\ response = ResponseMessage(answer)
        /\ answer \in FittingResponses
    /\ mpc = "receive" /\ main_alone => buffer_size = Size
    /\ mpc = "parse" /\ main_alone => deserialize_response(buffer) = answer

\* A name and an entry that are to be sent.
NameMade ==
    lpc = "send name" /\ logger_alone =>
        Message(buffer, buffer_size) = NameMessage(FileName)

EntryMade ==
    /\ front \in Numbers
    /\ lpc = "send" /\ logger_alone =>
        Message(buffer, buffer_size) = Digits(front)

\* The connection to the logger: nothing is in it before the name is sent; and
\* while main keeps off the buffer, nothing between two entries, and of an entry
\* the bytes, or the confirmation.
Quiet == stream = NoMessage /\ confirmations = 0
Fresh == lpc \in {"connect", "send name"} => Quiet /\ stored = <<>>
StreamMade ==
    undisturbed =>
        /\ file_name = FileName
        /\ lpc \in {"rest", "send", "confirm", "check"}
        /\ lpc \in {"rest", "send"} => Quiet /\ stored = <<>>
        /\ lpc = "confirm" =>
            \/ stream = Digits(front) /\ confirmations = 0 /\ stored = <<>>
            \/ /\ stream = NoMessage /\ confirmations = 1
               /\ stored = <<Digits(front)>>
        /\ lpc = "check" => Quiet /\ stored = <<Digits(front)>>

Inv == RequestMade /\ AnswerMade /\ NameMade /\ Understood /\ Answered

\* What is exchanged fits in the buffers.
LEMMA Fitting ==
    /\ Self \in FittingRequests
    /\ \A r : Answers(r) \subseteq FittingResponses
    /\ FileName \in Texts /\ logger_start_size(FileName) <= Size
  <1>1. /\ Self \in Requests /\ request_size(Self) <= Size
        /\ Self.application_id < Radix * Radix
    BY ExchangeAssumption
  <1>2. Self \in FittingRequests
    <2>1. Self.application_id \in 0 .. Radix * Radix - 1
      BY <1>1, WireAssumption DEF Requests
    <2> QED BY <1>1, <2>1 DEF Requests, FittingRequests
  <1>3. 3 <= Size
    <2>1. Self.name \in Texts /\ Self.user_equipment_name \in Texts
      BY <1>1 DEF Requests
    <2>2. Len(Self.name) \in Nat /\ Len(Self.user_equipment_name) \in Nat
      BY <2>1, TextBytes
    <2> DEFINE m == Len(Self.name)
    <2> DEFINE n == Len(Self.user_equipment_name)
    <2>3. m + 1 + n + 1 + 1 + 2 <= Size
      BY <1>1 DEF request_size
    <2> HIDE DEF m, n
    <2>4. m \in Nat /\ n \in Nat
      BY <2>2 DEF m, n
    <2> QED BY <2>3, <2>4, WireAssumption
  <1>4. NoServer \in FittingResponses
    <2>1. <<>> \in Texts /\ Len(<<>>) = 0
      BY DEF Texts
    <2>2. 0 \in 0 .. Radix * Radix - 1
      BY WireAssumption
    <2> QED BY <1>3, <2>1, <2>2 DEF NoServer, FittingResponses, response_size
  <1>5. ASSUME NEW r,
               NEW s \in [port : Ports(r.application_id), hostname : Hosts]
        PROVE  s \in FittingResponses
    <2>1. s.port \in 0 .. Radix * Radix - 1
      <3>1. Garbage \subseteq 0 .. Radix * Radix - 1
        BY ExchangeAssumption
      <3>2. \A a \in DOMAIN Port : Port[a] \in 1 .. Radix * Radix - 1
        BY ExchangeAssumption
      <3>3. 1 .. Radix * Radix - 1 \subseteq 0 .. Radix * Radix - 1
        OBVIOUS
      <3> QED BY <3>1, <3>2, <3>3, Zenon DEF Ports
    <2>2. s.hostname \in Texts /\ Len(s.hostname) + 3 <= Size
      BY ExchangeAssumption
    <2>3. Len(s.hostname) \in Nat
      BY <2>2, TextBytes
    <2> QED BY <2>1, <2>2, <2>3 DEF FittingResponses, response_size
  <1>6. ASSUME NEW r PROVE Answers(r) \subseteq FittingResponses
    BY <1>4, <1>5 DEF Answers
  <1>7. FileName \in Texts /\ logger_start_size(FileName) <= Size
    BY ExchangeAssumption DEF logger_start_size
  <1> QED BY <1>2, <1>6, <1>7

\* The bytes of a response, and the room there is for them.
LEMMA SizeFits ==
    ASSUME NEW r \in FittingResponses PROVE response_size(r) \in 0 .. Size
  <1> DEFINE n == Len(r.hostname)
  <1>1. r.hostname \in Texts /\ n + 1 + 2 <= Size
    BY DEF FittingResponses, response_size
  <1>2. n \in Nat
    BY <1>1, TextBytes
  <1>3. response_size(r) = n + 1 + 2
    BY DEF response_size
  <1> HIDE DEF n
  <1> QED BY <1>1, <1>2, <1>3, WireAssumption

LEMMA LeastFits == ASSUME NEW n \in 0 .. Size PROVE Least(n, Size) = n
  BY WireAssumption DEF Least

\* The initial state satisfies the invariant.
LEMMA InvInit == Init => Inv
  BY DEF Init, Inv, RequestMade, AnswerMade, NameMade, Understood, Answered,
         NoMessage

\* It survives the steps of main ...
LEMMA MainKeeps == Inv /\ MainThread => Inv'
  <1> SUFFICES ASSUME Inv, MainThread PROVE Inv'
    OBVIOUS
  <1> USE DEF Inv, RequestMade, AnswerMade, NameMade, Understood, Answered,
              MainWrites, AskAgain, loggerVars, masterVars, messageVars,
              logVars, readVars, aloneVars, bufferVars
  <1>1. CASE SerializeRequest
    <2>1. /\ buffer_size' = request_size(Self)
          /\ Message(buffer', buffer_size') = RequestMessage(Self)
      BY <1>1, Fitting, SameRequest DEF SerializeRequest
    <2>2. /\ request' = NoMessage /\ response' = NoMessage /\ mpc' = "send"
          /\ logger_alone' = FALSE
      BY <1>1 DEF SerializeRequest
    <2> QED BY <2>1, <2>2
  <1>2. CASE SendRequest
    <2>1. /\ response' = NoMessage /\ mpc' = "receive" /\ logger_alone' = FALSE
          /\ buffer_size' = Size
      BY <1>2 DEF SendRequest
    <2>2. sent_alone' => request' = RequestMessage(Self)
      BY <1>2 DEF SendRequest
    <2> QED BY <2>1, <2>2
  <1>3. CASE ReceiveResponse
    <2>1. /\ request' = NoMessage /\ response' = NoMessage /\ mpc' = "parse"
          /\ logger_alone' = FALSE /\ main_alone' = main_alone
          /\ answer' = answer
      BY <1>3 DEF ReceiveResponse
    <2>2. main_alone => deserialize_response(buffer') = answer
      <3> SUFFICES ASSUME main_alone
                   PROVE  deserialize_response(buffer') = answer
        OBVIOUS
      <3>1. /\ response = ResponseMessage(answer)
            /\ answer \in FittingResponses /\ buffer_size = Size
        BY <1>3 DEF ReceiveResponse
      <3>2. response_size(answer) \in 0 .. Size
        BY <3>1, SizeFits
      <3>3. /\ Len(response) = response_size(answer)
            /\ SubSeq(response, 1, response_size(answer)) = response
        BY <3>1, <3>2, Delivered DEF ResponseMessage
      <3>4. buffer_size' = response_size(answer)
        <4>1. buffer_size' = Least(response_size(answer), Size)
          BY <1>3, <3>1, <3>3 DEF ReceiveResponse
        <4> QED BY <3>2, <4>1, LeastFits
      <3>5. buffer' = Written(buffer, 0, ResponseMessage(answer))
        BY <1>3, <3>1, <3>3, <3>4 DEF ReceiveResponse, Received
      <3> QED BY <3>1, <3>5, ResponseDelivered DEF ResponseMessage
    <2> QED BY <2>1, <2>2
  <1>4. CASE MasterFails
    BY <1>4 DEF MasterFails
  <1>5. CASE ParseResponse
    BY <1>5 DEF ParseResponse
  <1>6. CASE NoAvailableServer
    BY <1>6 DEF NoAvailableServer
  <1>7. CASE ConnectAndServe
    BY <1>7 DEF ConnectAndServe
  <1> QED BY <1>1, <1>2, <1>3, <1>4, <1>5, <1>6, <1>7 DEF MainThread

\* ... of the master ...
LEMMA MasterKeeps == Inv /\ Master => Inv'
  <1> SUFFICES ASSUME Inv, Master PROVE Inv'
    OBVIOUS
  <1> USE DEF Inv, RequestMade, AnswerMade, NameMade, Understood, Answered,
              mainVars, loggerVars, messageVars, logVars, readVars, aloneVars,
              bufferVars
  <1>1. CASE ServeSelf
    <2> DEFINE heard == Received(master_buffer, request)
    <2>1. /\ request # NoMessage /\ request' = NoMessage
          /\ read' = deserialize_request(heard)
          /\ answer' \in Answers(read')
          /\ master_buffer' = serialize_response(heard, answer')
          /\ response' = Message(master_buffer', response_size(answer'))
          /\ UNCHANGED <<bufferVars, mpc, lpc, server, main_alone,
                         logger_alone, sent_alone>>
      BY <1>1 DEF ServeSelf
    <2>2. answer' \in FittingResponses
      BY <2>1, Fitting
    <2>3. response' = ResponseMessage(answer')
      BY <2>1, <2>2, SameResponse
    <2>4. sent_alone => read' = Self
      <3> SUFFICES ASSUME sent_alone PROVE read' = Self
        OBVIOUS
      <3>1. request = RequestMessage(Self)
        BY <2>1
      <3> QED BY <2>1, <3>1, Fitting, RequestDelivered
              DEF RequestMessage, Received
    <2> QED BY <2>1, <2>2, <2>3, <2>4
  <1>2. CASE IgnoreRequest
    BY <1>2 DEF IgnoreRequest
  <1>3. CASE ServeOther
    BY <1>3 DEF ServeOther
  <1> QED BY <1>1, <1>2, <1>3 DEF Master

\* ... and of the thread that logs.
LEMMA LoggerKeeps == Inv /\ LoggerThread => Inv'
  <1> SUFFICES ASSUME Inv, LoggerThread PROVE Inv'
    OBVIOUS
  <1> USE DEF Inv, RequestMade, AnswerMade, NameMade, Understood, Answered,
              LoggerWrites, Reconnect, mainVars, masterVars, messageVars,
              readVars, aloneVars, bufferVars
  <1>1. CASE SerializeName
    <2>1. Message(buffer', buffer_size') = NameMessage(FileName)
      BY <1>1, Fitting, SameName DEF SerializeName
    <2> QED BY <1>1, <2>1 DEF SerializeName
  <1>2. CASE SendName
    BY <1>2 DEF SendName
  <1>3. CASE SerializeEntry
    BY <1>3 DEF SerializeEntry
  <1>4. CASE SendEntry
    BY <1>4 DEF SendEntry
  <1>5. CASE Confirm
    BY <1>5 DEF Confirm, loggerVars
  <1>6. CASE ReceiveConfirmation
    <2>1. /\ main_alone' = FALSE /\ lpc' = "check"
          /\ UNCHANGED <<mpc, request, response, read, answer, sent_alone>>
      BY <1>6 DEF ReceiveConfirmation
    <2> QED BY <2>1
  <1>7. CASE Pop
    BY <1>7 DEF Pop
  <1>8. CASE NotConfirmed
    BY <1>8 DEF NotConfirmed
  <1>9. CASE LoggerFails
    BY <1>9 DEF LoggerFails
  <1> QED
    BY <1>1, <1>2, <1>3, <1>4, <1>5, <1>6, <1>7, <1>8, <1>9 DEF LoggerThread

LEMMA InvNext == Inv /\ [Next]_vars => Inv'
  <1>1. ASSUME Inv, UNCHANGED vars PROVE Inv'
    <2>1. /\ UNCHANGED <<buffer, buffer_size, mpc, lpc, server>>
          /\ UNCHANGED <<request, response>>
          /\ UNCHANGED <<read, answer, main_alone, logger_alone, sent_alone>>
      BY <1>1 DEF vars, messageVars, mainVars, loggerVars, readVars, aloneVars,
                 bufferVars
    <2>2. RequestMade' /\ AnswerMade'
      BY <1>1, <2>1 DEF Inv, RequestMade, AnswerMade
    <2>3. NameMade' /\ Understood' /\ Answered'
      BY <1>1, <2>1 DEF Inv, NameMade, Understood, Answered
    <2> QED BY <2>2, <2>3 DEF Inv
  <1> QED BY <1>1, MainKeeps, MasterKeeps, LoggerKeeps DEF Next

\* What the thread that logs knows of the entry it sends does not depend on
\* what the other messages are.
LEMMA EntryKept == EntryMade /\ [Next]_vars => EntryMade'
  <1> SUFFICES ASSUME EntryMade, [Next]_vars PROVE EntryMade'
    OBVIOUS
  <1> USE DEF EntryMade
  <1>1. CASE MainThread
    <2>1. /\ front' = front /\ lpc' = lpc
          /\ logger_alone' => logger_alone /\ UNCHANGED bufferVars
      BY <1>1 DEF MainThread, SerializeRequest, SendRequest, ReceiveResponse,
         MasterFails, ParseResponse, NoAvailableServer, ConnectAndServe,
         AskAgain, MainWrites, bufferVars, loggerVars, aloneVars
    <2> QED BY <2>1 DEF bufferVars
  <1>2. CASE Master \/ UNCHANGED vars
    <2>1. UNCHANGED <<bufferVars, front, lpc, logger_alone>>
      BY <1>2 DEF Master, ServeSelf, IgnoreRequest, ServeOther, aloneVars,
         loggerVars, vars
    <2> QED BY <2>1 DEF bufferVars
  <1>3. CASE SerializeEntry
    <2>1. front \in Nat
      BY ExchangeAssumption
    <2>2. Message(buffer', buffer_size') = Digits(front)
      BY <1>3, <2>1, EntryWritten DEF SerializeEntry
    <2> QED BY <1>3, <2>2 DEF SerializeEntry
  <1>4. CASE Confirm
    <2>1. UNCHANGED <<bufferVars, front, lpc, logger_alone>>
      BY <1>4 DEF Confirm, loggerVars, aloneVars
    <2> QED BY <2>1 DEF bufferVars
  <1>5. CASE LoggerThread /\ ~SerializeEntry /\ ~Confirm
    <2>1. lpc' # "send" /\ front' \in Numbers
      BY <1>5 DEF LoggerThread, SerializeName, SendName, SendEntry,
         ReceiveConfirmation, Pop, NotConfirmed, LoggerFails, Reconnect
    <2> QED BY <2>1
  <1> QED BY <1>1, <1>2, <1>3, <1>4, <1>5 DEF Next

\* What the logger takes of a stream that is one entry, and what it leaves.
LEMMA OneEntry ==
    ASSUME NEW number
    PROVE  /\ Len(Digits(number)) = EntrySize
           /\ SubSeq(Digits(number), 1, EntrySize) = Digits(number)
           /\ SubSeq(Digits(number), EntrySize + 1, EntrySize) = <<>>
  <1>1. EntrySize \in Nat
    BY WireAssumption
  <1> DEFINE d == Digits(number)
  <1>2. DOMAIN d = 1 .. EntrySize /\ d = [i \in 1 .. EntrySize |-> d[i]]
    BY DEF Digits
  <1> HIDE DEF d
  <1>3. Len(d) = EntrySize
    BY <1>1, <1>2
  <1>4. SubSeq(d, 1, EntrySize) = d
    BY <1>1, <1>2
  <1>5. SubSeq(d, EntrySize + 1, EntrySize) = <<>>
    BY <1>1
  <1> QED BY <1>3, <1>4, <1>5 DEF d

LEMMA FreshKept == Fresh /\ [Next]_vars => Fresh'
  <1> SUFFICES ASSUME Fresh, [Next]_vars PROVE Fresh'
    OBVIOUS
  <1>1. CASE MainThread \/ Master \/ UNCHANGED vars
    <2>1. UNCHANGED <<loggerVars, logVars>>
      BY <1>1 DEF MainThread, SerializeRequest, SendRequest, ReceiveResponse,
         MasterFails, ParseResponse, NoAvailableServer, ConnectAndServe,
         AskAgain, Master, ServeSelf, IgnoreRequest, ServeOther, vars
    <2> QED BY <2>1 DEF Fresh, Quiet, loggerVars, logVars
  <1>2. CASE SerializeName
    BY <1>2 DEF SerializeName, Fresh, Quiet, logVars
  <1>3. CASE Confirm
    <2>1. stream # NoMessage
      BY <1>3, WireAssumption DEF Confirm, NoMessage
    <2> QED BY <1>3, <2>1 DEF Confirm, Fresh, Quiet, loggerVars
  <1>4. CASE NotConfirmed \/ LoggerFails
    BY <1>4 DEF NotConfirmed, LoggerFails, Reconnect, Fresh, Quiet
  <1>5. CASE LoggerThread /\ ~SerializeName /\ ~Confirm /\ ~NotConfirmed
             /\ ~LoggerFails
    <2>1. lpc' \notin {"connect", "send name"}
      BY <1>5 DEF LoggerThread, SendName, SerializeEntry, SendEntry,
         ReceiveConfirmation, Pop
    <2> QED BY <2>1 DEF Fresh
  <1> QED BY <1>1, <1>2, <1>3, <1>4, <1>5 DEF Next

\* A connection that main has not disturbed holds one entry at most, and the
\* logger stores it once.
LEMMA StreamKept ==
    TypeOK /\ NameMade /\ EntryMade /\ Fresh /\ StreamMade /\ [Next]_vars
        => StreamMade'
  <1> SUFFICES ASSUME TypeOK, NameMade, EntryMade, Fresh, StreamMade,
                      [Next]_vars
               PROVE  StreamMade'
    OBVIOUS
  <1>1. CASE MainThread \/ Master \/ UNCHANGED vars
    <2>1. UNCHANGED <<loggerVars, logVars>>
      BY <1>1 DEF MainThread, SerializeRequest, SendRequest, ReceiveResponse,
         MasterFails, ParseResponse, NoAvailableServer, ConnectAndServe,
         AskAgain, Master, ServeSelf, IgnoreRequest, ServeOther, vars
    <2> QED BY <2>1 DEF StreamMade, Quiet, loggerVars, logVars
  <1>2. CASE SerializeName
    BY <1>2 DEF SerializeName, StreamMade, logVars
  <1>3. CASE SendName
    <2>1. Quiet /\ stored = <<>>
      BY <1>3 DEF SendName, Fresh
    <2>2. logger_alone => file_name' = FileName
      <3> SUFFICES ASSUME logger_alone PROVE file_name' = FileName
        OBVIOUS
      <3>1. Message(buffer, buffer_size) = NameMessage(FileName)
        BY <1>3 DEF NameMade, SendName
      <3> QED BY <1>3, <3>1, Fitting, NameDelivered
              DEF SendName, Received, NameMessage
    <2> QED BY <1>3, <2>1, <2>2 DEF SendName, StreamMade, Quiet
  <1>4. CASE SerializeEntry
    BY <1>4 DEF SerializeEntry, StreamMade, Quiet, logVars
  <1>5. CASE SendEntry
    <2> SUFFICES ASSUME undisturbed' PROVE StreamMade'
      BY DEF StreamMade
    <2>1. undisturbed /\ logger_alone
      BY <1>5 DEF SendEntry
    <2>2. stream = <<>> /\ stream' = stream \o Digits(front)
      BY <1>5, <2>1 DEF SendEntry, StreamMade, Quiet, EntryMade, NoMessage
    <2>3. stream' = Digits(front)
      <3>1. EntrySize \in Nat
        BY WireAssumption
      <3> QED BY <2>2, <3>1 DEF Digits
    <2> QED BY <1>5, <2>1, <2>3 DEF SendEntry, StreamMade, Quiet
  <1>6. CASE Confirm
    <2> SUFFICES ASSUME undisturbed' PROVE StreamMade'
      BY DEF StreamMade
    <2>1. undisturbed /\ UNCHANGED <<lpc, front, file_name>>
      BY <1>6 DEF Confirm, loggerVars
    <2>2. Len(stream) >= EntrySize /\ EntrySize \in Nat \ {0}
      BY <1>6, WireAssumption DEF Confirm
    <2>3. stream # NoMessage
      BY <2>2 DEF NoMessage
    <2>4. /\ lpc = "confirm" /\ stream = Digits(front)
          /\ confirmations = 0 /\ stored = <<>>
      BY <2>1, <2>3 DEF StreamMade, Quiet
    <2>5. /\ stored' = Append(<<>>, Digits(front)) /\ stream' = NoMessage
          /\ confirmations' = 1
      BY <1>6, <2>4, OneEntry DEF Confirm, NoMessage
    <2> QED BY <2>1, <2>4, <2>5 DEF StreamMade, Quiet
  <1>7. CASE ReceiveConfirmation
    <2> SUFFICES ASSUME undisturbed' PROVE StreamMade'
      BY DEF StreamMade
    <2>1. /\ undisturbed /\ lpc = "confirm" /\ confirmations > 0
          /\ UNCHANGED <<front, file_name, stream, stored>>
      BY <1>7 DEF ReceiveConfirmation
    <2>2. stream = NoMessage /\ confirmations = 1 /\ stored = <<Digits(front)>>
      BY <2>1 DEF StreamMade
    <2>3. confirmations' = 0
      <3>1. buffer_size \in Nat
        <4>1. buffer_size \in 0 .. Size
          BY DEF TypeOK
        <4> QED BY <4>1, WireAssumption
      <3>2. buffer_size' = Least(1, buffer_size) /\ buffer_size' > 0
            /\ confirmations' = 1 - buffer_size'
        BY <1>7, <2>2 DEF ReceiveConfirmation
      <3> QED BY <3>1, <3>2 DEF Least
    <2> QED BY <1>7, <2>1, <2>2, <2>3 DEF ReceiveConfirmation, StreamMade, Quiet
  <1>8. CASE Pop
    BY <1>8 DEF Pop, StreamMade, Quiet
  <1>9. CASE NotConfirmed \/ LoggerFails
    BY <1>9 DEF NotConfirmed, LoggerFails, Reconnect, StreamMade
  <1> QED BY <1>1, <1>2, <1>3, <1>4, <1>5, <1>6, <1>7, <1>8, <1>9
          DEF Next, LoggerThread

\* The master reads the request the client made, whatever an earlier message
\* left in the master's buffer.
THEOREM RequestUnderstood == Spec => []Understood
  <1>1. Inv => Understood
    BY DEF Inv
  <1> QED BY InvInit, InvNext, <1>1, PTL DEF Spec

\* The client reads the answer the master gave.
THEOREM ResponseAnswered == Spec => []Answered
  <1>1. Inv => Answered
    BY DEF Inv
  <1> QED BY InvInit, InvNext, <1>1, PTL DEF Spec

-------------------------------------------------------------------------------
(* The types: a buffer only ever holds bytes, and what is found in it is of *)
(* the kind it is taken for, wherever it ends.                              *)

LEMMA WrittenTyped ==
    ASSUME NEW b \in Buffers, NEW s \in Seq(Bytes), NEW at \in Nat
    PROVE  Written(b, at, s) \in Buffers
  <1>1. \A i \in 1 .. Len(s) : s[i] \in Bytes
    BY Elements
  <1> QED BY <1>1 DEF Written, Buffers

LEMMA MessageTyped ==
    ASSUME NEW b \in Buffers, NEW n \in 0 .. Size
    PROVE  Message(b, n) \in Seq(Bytes) /\ Len(Message(b, n)) = n
  <1>1. n \in Nat /\ \A i \in 1 .. n : i - 1 \in Offsets
    BY WireAssumption DEF Offsets
  <1>2. Message(b, n) \in [1 .. n -> Bytes]
    BY <1>1 DEF Message, Buffers
  <1> QED BY <1>1, <1>2

\* Every text ends within the buffer, and holds no zero.
LEMMA TextTyped ==
    ASSUME NEW b \in Buffers, NEW at \in Nat
    PROVE  TextAt(b, at) \in Texts
  <1> DEFINE end == TextEnd(b, at)
  <1>1. TextEnds(b, at) \in SUBSET Nat /\ Size \in TextEnds(b, at)
    BY WireAssumption DEF TextEnds, Offsets
  <1>2. \E k \in TextEnds(b, at) : \A j \in TextEnds(b, at) : k <= j
    BY <1>1, LeastExists
  <1>3. end \in TextEnds(b, at) /\ \A j \in TextEnds(b, at) : end <= j
    BY <1>2 DEF TextEnd
  <1>4. end \in Nat /\ end <= Size
    BY <1>1, <1>3
  <1> DEFINE n == IF end >= at THEN end - at ELSE 0
  <1>5. TextAt(b, at) = [i \in 1 .. n |-> b[at + i - 1]]
    <2>1. 1 .. end - at = 1 .. n
      BY <1>4
    <2> QED BY <2>1 DEF TextAt
  <1> HIDE DEF end
  <1>6. n \in Nat
    BY <1>4
  <1>7. ASSUME NEW i \in 1 .. n PROVE b[at + i - 1] \in 1 .. Radix - 1
    <2> DEFINE k == at + i - 1
    <2>1. k \in Nat /\ k >= at /\ k < end
      BY <1>4, <1>7
    <2>2. k \in Offsets
      BY <1>4, <2>1, WireAssumption DEF Offsets
    <2>3. k \notin TextEnds(b, at)
      BY <1>3, <1>4, <2>1
    <2>4. b[k] # 0
      BY <2>1, <2>2, <2>3 DEF TextEnds
    <2>5. b[k] \in 0 .. Radix - 1
      BY <2>2 DEF Buffers, Bytes
    <2> HIDE DEF k
    <2>6. b[k] \in 1 .. Radix - 1
      BY <2>4, <2>5, WireAssumption
    <2> QED BY <2>6 DEF k
  <1> HIDE DEF n
  <1>8. TextAt(b, at) \in [1 .. n -> 1 .. Radix - 1]
    BY <1>5, <1>7
  <1>9. \A S : \A f \in [1 .. n -> S] : f \in Seq(S)
    BY <1>6
  <1> QED BY <1>8, <1>9, Zenon DEF Texts

LEMMA ShortTyped ==
    /\ \A n \in Nat : Short(n) \in Seq(Bytes)
    /\ \A b \in Buffers, at \in Nat :
            at + 1 < Size => ShortAt(b, at) \in 0 .. Radix * Radix - 1
  <1>1. ASSUME NEW n \in Nat PROVE Short(n) \in Seq(Bytes)
    <2>1. n \div Radix \in Nat
      BY WireAssumption, Division
    <2>2. (n \div Radix) % Radix \in Bytes /\ n % Radix \in Bytes
      BY <2>1, WireAssumption, ModRange DEF Bytes
    <2> QED BY <2>2 DEF Short
  <1>2. ASSUME NEW b \in Buffers, NEW at \in Nat, at + 1 < Size
        PROVE  ShortAt(b, at) \in 0 .. Radix * Radix - 1
    <2> DEFINE p == b[at]
    <2> DEFINE q == b[at + 1]
    <2>1. at \in Offsets /\ at + 1 \in Offsets
      BY <1>2, WireAssumption DEF Offsets
    <2>2. p \in 0 .. Radix - 1 /\ q \in 0 .. Radix - 1
      BY <2>1 DEF Buffers, Bytes
    <2>3. ShortAt(b, at) = p * Radix + q
      BY DEF ShortAt
    <2> HIDE DEF p, q
    <2>4. Radix - 1 - p \in Nat /\ Radix \in Nat
      BY <2>2, WireAssumption
    <2>5. (Radix - 1 - p) * Radix \in Nat /\ p * Radix \in Nat
      BY <2>2, <2>4
    <2>6. Radix * Radix = p * Radix + (Radix - 1 - p) * Radix + Radix
      BY <2>2, <2>4
    <2> QED BY <2>2, <2>3, <2>4, <2>5, <2>6
  <1> QED BY <1>1, <1>2

\* Serializing fills a buffer with bytes ...
LEMMA Serialized ==
    ASSUME NEW b \in Buffers
    PROVE  /\ \A r \in Requests : serialize_request(b, r) \in Buffers
           /\ \A r \in [port : Nat, hostname : Texts] :
                    serialize_response(b, r) \in Buffers
           /\ \A t \in Texts : serialize_logger_start(b, t) \in Buffers
           /\ \A n \in Nat : serialize_logger_time_point(b, n) \in Buffers
  <1>1. \A c \in Buffers, at \in Nat, t \in Texts : WrittenText(c, at, t) \in Buffers
    BY TextBytes, WrittenTyped DEF WrittenText
  <1>2. ASSUME NEW r \in Requests PROVE serialize_request(b, r) \in Buffers
    <2>1. /\ r.name \in Texts /\ r.user_equipment_name \in Texts
          /\ r.type \in Bytes /\ r.application_id \in Nat
      BY DEF Requests
    <2>2. Len(r.name) \in Nat
      BY <2>1, TextBytes
    <2>3. <<r.type>> \o Short(r.application_id) \in Seq(Bytes)
      BY <2>1, ShortTyped
    <2> HIDE DEF Bytes
    <2>4. 3 \in Nat /\ 3 + Len(r.name) + 1 \in Nat /\ 0 \in Nat
      BY <2>2
    <2> QED BY <1>1, <2>1, <2>3, <2>4, WrittenTyped DEF serialize_request
  <1>3. ASSUME NEW r \in [port : Nat, hostname : Texts]
        PROVE  serialize_response(b, r) \in Buffers
    <2>1. Short(r.port) \in Seq(Bytes) /\ r.hostname \in Texts
      BY ShortTyped
    <2>2. 2 \in Nat /\ 0 \in Nat
      OBVIOUS
    <2> QED BY <1>1, <2>1, <2>2, WrittenTyped DEF serialize_response
  <1>4. \A t \in Texts : serialize_logger_start(b, t) \in Buffers
    BY <1>1 DEF serialize_logger_start
  <1>5. ASSUME NEW n \in Nat PROVE serialize_logger_time_point(b, n) \in Buffers
    <2>1. Digits(n) \in Seq(Bytes)
      <3>1. ASSUME NEW i \in 1 .. EntrySize
            PROVE  Shifted(n)[EntrySize - i] % Radix \in 0 .. Radix - 1
        <4>1. EntrySize - i \in 0 .. EntrySize
          BY WireAssumption
        <4>2. Shifted(n)[EntrySize - i] \in Nat
          BY <4>1, ShiftedByOne
        <4>3. \A t \in Nat : t % Radix \in 0 .. Radix - 1
          BY ModRange, WireAssumption
        <4> QED BY <4>2, <4>3
      <3>2. Digits(n) \in [1 .. EntrySize -> Bytes]
        BY <3>1 DEF Digits, Bytes
      <3> QED BY <3>2, WireAssumption
    <2>2. 0 \in Nat
      OBVIOUS
    <2> QED BY <2>1, <2>2, WrittenTyped DEF serialize_logger_time_point
  <1> QED BY <1>2, <1>3, <1>4, <1>5

\* ... and whatever a buffer holds can be read as a request or a response.
LEMMA Deserialized ==
    ASSUME NEW b \in Buffers, 3 <= Size
    PROVE  /\ deserialize_request(b) \in Requests
           /\ deserialize_response(b).port \in 0 .. Radix * Radix - 1
           /\ deserialize_response(b).hostname \in Texts
           /\ deserialize_logger_start(b) \in Texts
  <1>1. b[0] \in Bytes
    BY WireAssumption DEF Buffers, Offsets
  <1>2. ShortAt(b, 1) \in Nat /\ ShortAt(b, 0) \in 0 .. Radix * Radix - 1
    <2>1. 0 + 1 < Size /\ 1 + 1 < Size /\ 0 \in Nat /\ 1 \in Nat
      BY WireAssumption
    <2>2. ShortAt(b, 1) \in 0 .. Radix * Radix - 1
      BY <2>1, ShortTyped
    <2> QED BY <2>1, <2>2, ShortTyped
  <1>3. \A at \in Nat : TextAt(b, at) \in Texts
    BY TextTyped
  <1>4. TextAt(b, 3) \in Texts /\ Len(TextAt(b, 3)) \in Nat
    BY <1>3, TextBytes
  <1>5. TextAt(b, 3 + Len(TextAt(b, 3)) + 1) \in Texts
    BY <1>3, <1>4
  <1> QED BY <1>1, <1>2, <1>3, <1>4, <1>5
          DEF deserialize_request, deserialize_response, deserialize_logger_start,
              Requests

\* Nothing, the beginning of a message and a size that fits are of their kind.
LEMMA SmallTyped ==
    /\ NoMessage \in Seq(Bytes) /\ <<0>> \in Seq(Bytes) /\ Len(<<0>>) = 1
    /\ Size \in 0 .. Size /\ EntrySize \in 0 .. Size
    /\ \A n \in Nat, m \in Nat : m <= Size => Least(n, m) \in 0 .. Size
    /\ \A n \in Nat, m \in Nat : Least(n, m) \in 0 .. n
  <1>1. NoMessage \in Seq(Bytes) /\ <<0>> \in Seq(Bytes) /\ Len(<<0>>) = 1
    <2>1. 0 \in Bytes
      BY WireAssumption DEF Bytes
    <2> HIDE DEF Bytes
    <2> QED BY <2>1 DEF NoMessage
  <1>2. Size \in 0 .. Size /\ EntrySize \in 0 .. Size
    BY WireAssumption
  <1>3. \A n \in Nat, m \in Nat : m <= Size => Least(n, m) \in 0 .. Size
    BY WireAssumption DEF Least
  <1>4. \A n \in Nat, m \in Nat : Least(n, m) \in 0 .. n
    BY DEF Least
  <1> QED BY <1>1, <1>2, <1>3, <1>4

LEMMA PrefixTyped ==
    ASSUME NEW S, NEW m \in Seq(S), NEW n \in 0 .. Len(m)
    PROVE  SubSeq(m, 1, n) \in Seq(S)
  OBVIOUS

\* What the type invariant says of each variable a message passes through.
LEMMA Typed ==
    ASSUME TypeOK
    PROVE  /\ buffer \in Buffers /\ master_buffer \in Buffers
           /\ buffer_size \in 0 .. Size /\ buffer_size \in Nat
           /\ buffer_size <= Size
           /\ request \in Seq(Bytes) /\ response \in Seq(Bytes)
           /\ stream \in Seq(Bytes) /\ front \in Nat
           /\ Len(request) \in Nat /\ Len(response) \in Nat
  <1>1. /\ buffer \in Buffers /\ master_buffer \in Buffers
        /\ buffer_size \in 0 .. Size /\ front \in Numbers
        /\ request \in Seq(Bytes) /\ response \in Seq(Bytes)
        /\ stream \in Seq(Bytes)
    BY DEF TypeOK
  <1>2. buffer_size \in Nat /\ buffer_size <= Size
    BY <1>1, WireAssumption
  <1>3. Len(request) \in Nat /\ Len(response) \in Nat
    BY <1>1
  <1>4. front \in Nat
    BY <1>1, ExchangeAssumption
  <1> QED BY <1>1, <1>2, <1>3, <1>4

LEMMA LogTyped ==
    ASSUME TypeOK
    PROVE  /\ stored \in Seq(Seq(Bytes)) /\ Capacity \in Nat
           /\ confirmations \in 0 .. Capacity /\ confirmations \in Nat
  <1>1. stored \in Seq(Seq(Bytes)) /\ confirmations \in 0 .. Capacity
    BY DEF TypeOK
  <1>2. Capacity \in Nat
    BY ExchangeAssumption
  <1>3. \A n \in 0 .. Capacity : n \in Nat
    BY <1>2
  <1> QED BY <1>1, <1>2, <1>3, Zenon

\* Every request that is made fits.
LEMMA Room ==
    /\ 3 <= Size
    /\ \A r \in {Self} \union Others :
            r \in Requests /\ request_size(r) \in 0 .. Size
  <1>1. ASSUME NEW r \in {Self} \union Others
        PROVE  /\ 3 <= Size /\ r \in Requests
               /\ request_size(r) \in 0 .. Size
    <2>1. r \in Requests /\ request_size(r) <= Size
      BY ExchangeAssumption
    <2>2. Len(r.name) \in Nat /\ Len(r.user_equipment_name) \in Nat
      BY <2>1, TextBytes DEF Requests
    <2> DEFINE m == Len(r.name)
    <2> DEFINE n == Len(r.user_equipment_name)
    <2>3. request_size(r) = m + 1 + n + 1 + 1 + 2
      BY DEF request_size
    <2> HIDE DEF m, n
    <2>4. m \in Nat /\ n \in Nat
      BY <2>2 DEF m, n
    <2>5. m + 1 + n + 1 + 1 + 2 <= Size
      BY <2>1, <2>3
    <2>6. 3 <= Size /\ m + 1 + n + 1 + 1 + 2 \in 0 .. Size
      BY <2>4, <2>5, WireAssumption
    <2> QED BY <2>1, <2>3, <2>6
  <1> QED BY <1>1

LEMMA SuffixTyped ==
    ASSUME NEW S, NEW m \in Seq(S), NEW n \in 0 .. Len(m)
    PROVE  SubSeq(m, n + 1, Len(m)) \in Seq(S)
  OBVIOUS

\* A client is found before it is created: no two have one name.
LEMMA ClientsTyped ==
    ASSUME TypeOK, NEW r \in Requests
    PROVE  /\ Registering(r) \subseteq [name : Texts, application_id : Nat]
           /\ \A c, d \in Registering(r) : c.name = d.name => c = d
  <1>1. Client(r) \in [name : Texts, application_id : Nat]
    BY DEF Client, Requests
  <1>2. /\ clients \subseteq [name : Texts, application_id : Nat]
        /\ \A c, d \in clients : c.name = d.name => c = d
    BY DEF TypeOK
  <1>3. CASE Namesakes(r) = {}
    <2>1. \A c \in clients : c.name # r.name
      BY <1>3 DEF Namesakes
    <2>2. Client(r).name = r.name
      BY DEF Client
    <2>3. Registering(r) = clients \union {Client(r)}
      BY <1>3 DEF Registering
    <2> QED BY <1>1, <1>2, <2>1, <2>2, <2>3
  <1>4. CASE Namesakes(r) # {}
    BY <1>2, <1>4 DEF Registering
  <1> QED BY <1>3, <1>4

LEMMA MainTyped == TypeOK /\ MainThread => TypeOK'
  <1> SUFFICES ASSUME TypeOK, MainThread PROVE TypeOK'
    OBVIOUS
  <1> USE DEF MainWrites, AskAgain, loggerVars, masterVars, messageVars,
              logVars, readVars, aloneVars, bufferVars
  <1>1. CASE SerializeRequest
    <2>1. buffer' \in Buffers /\ buffer_size' \in 0 .. Size
      BY <1>1, Typed, Room, Serialized DEF SerializeRequest
    <2> QED BY <1>1, <2>1 DEF SerializeRequest, TypeOK
  <1>2. CASE SendRequest
    <2>1. request' \in Seq(Bytes) /\ buffer_size' \in 0 .. Size
      BY <1>2, Typed, MessageTyped, SmallTyped DEF SendRequest
    <2> QED BY <1>2, <2>1 DEF SendRequest, TypeOK
  <1>3. CASE ReceiveResponse
    <2>1. /\ buffer_size' = Least(Len(response), buffer_size)
          /\ buffer' = Written(buffer, 0, SubSeq(response, 1, buffer_size'))
          /\ response' = NoMessage
      BY <1>3 DEF ReceiveResponse, Received
    <2>2. buffer_size' \in 0 .. Size /\ buffer_size' \in 0 .. Len(response)
      BY <2>1, Typed, SmallTyped
    <2>3. SubSeq(response, 1, buffer_size') \in Seq(Bytes)
      BY <2>2, Typed, PrefixTyped
    <2>4. buffer' \in Buffers
      <3>1. 0 \in Nat
        OBVIOUS
      <3> QED BY <2>1, <2>3, <3>1, Typed, WrittenTyped
    <2> QED BY <1>3, <2>1, <2>2, <2>4, SmallTyped DEF ReceiveResponse, TypeOK
  <1>4. CASE MasterFails \/ NoAvailableServer \/ ConnectAndServe
    <2>1. read' \in Requests
      <3>1. 0 \in Bytes /\ <<>> \in Texts
        BY WireAssumption DEF Bytes, Texts
      <3> QED BY <1>4, <3>1 DEF MasterFails, NoAvailableServer,
                 ConnectAndServe, NoRequest, Requests
    <2>2. server'.port \in 0 .. Radix * Radix - 1 /\ server'.hostname \in Texts
      <3>1. 0 \in 0 .. Radix * Radix - 1 /\ <<>> \in Texts
        BY WireAssumption DEF Texts
      <3> QED BY <1>4, <3>1 DEF MasterFails, NoAvailableServer,
                 ConnectAndServe, NoServer
    <2> QED BY <1>4, <2>1, <2>2, SmallTyped
            DEF MasterFails, NoAvailableServer, ConnectAndServe, TypeOK
  <1>5. CASE ParseResponse
    <2>1. server'.port \in 0 .. Radix * Radix - 1 /\ server'.hostname \in Texts
      BY <1>5, Typed, Room, Deserialized DEF ParseResponse
    <2> QED BY <1>5, <2>1 DEF ParseResponse, TypeOK
  <1> QED BY <1>1, <1>2, <1>3, <1>4, <1>5 DEF MainThread

LEMMA MasterTyped == TypeOK /\ Master => TypeOK'
  <1> SUFFICES ASSUME TypeOK, Master PROVE TypeOK'
    OBVIOUS
  <1> USE DEF mainVars, loggerVars, messageVars, logVars, readVars, aloneVars,
              bufferVars
  <1>1. \A m \in Seq(Bytes) : \A b \in Buffers : Received(b, m) \in Buffers
    <2>1. 0 \in Nat
      OBVIOUS
    <2> QED BY <2>1, WrittenTyped DEF Received
  <1>2. \A r : \A s \in Answers(r) :
            /\ s \in [port : Nat, hostname : Texts]
            /\ response_size(s) \in 0 .. Size
    <2>1. \A r : Answers(r) \subseteq FittingResponses
      BY Fitting
    <2>2. FittingResponses \subseteq [port : Nat, hostname : Texts]
      BY DEF FittingResponses
    <2> QED BY <2>1, <2>2, SizeFits
  <1>3. CASE ServeSelf
    <2> DEFINE heard == Received(master_buffer, request)
    <2>1. heard \in Buffers
      BY <1>1, Typed
    <2>2. read' = deserialize_request(heard) /\ answer' \in Answers(read')
          /\ master_buffer' = serialize_response(heard, answer')
          /\ response' = Message(master_buffer', response_size(answer'))
          /\ request' = NoMessage
      BY <1>3 DEF ServeSelf
    <2> HIDE DEF heard
    <2>3. read' \in Requests
      BY <2>1, <2>2, Room, Deserialized
    <2>4. master_buffer' \in Buffers
      BY <1>2, <2>1, <2>2, Serialized
    <2>5. response' \in Seq(Bytes)
      BY <1>2, <2>2, <2>4, MessageTyped
    <2>6. clients' = Registering(read')
      BY <1>3 DEF ServeSelf
    <2> QED BY <1>3, <2>2, <2>3, <2>4, <2>5, <2>6, ClientsTyped, SmallTyped
            DEF ServeSelf, TypeOK
  <1>4. CASE IgnoreRequest
    <2>1. master_buffer' \in Buffers /\ request' \in Seq(Bytes)
      BY <1>1, <1>4, Typed, SmallTyped DEF IgnoreRequest
    <2> QED BY <1>4, <2>1 DEF IgnoreRequest, TypeOK
  <1>5. CASE ServeOther
    <2>1. PICK r \in Others : \E s \in Answers(r) :
              /\ clients' = Registering(r)
              /\ master_buffer' =
                    serialize_response(Received(master_buffer, Request(r)), s)
      BY <1>5 DEF ServeOther
    <2>2. Request(r) \in Seq(Bytes)
      <3>1. serialize_request(master_buffer, r) \in Buffers
        BY Typed, Room, Serialized
      <3> QED BY <3>1, Room, MessageTyped DEF Request
    <2>3. master_buffer' \in Buffers
      BY <1>1, <1>2, <2>1, <2>2, Typed, Serialized
    <2>4. r \in Requests
      BY ExchangeAssumption
    <2> QED BY <1>5, <2>1, <2>3, <2>4, ClientsTyped DEF ServeOther, TypeOK
  <1> QED BY <1>3, <1>4, <1>5 DEF Master

LEMMA LoggerTyped == TypeOK /\ LoggerThread => TypeOK'
  <1> SUFFICES ASSUME TypeOK, LoggerThread PROVE TypeOK'
    OBVIOUS
  <1> USE DEF LoggerWrites, mainVars, masterVars, messageVars, readVars,
              aloneVars, bufferVars
  <1>1. \A m \in Seq(Bytes) : \A b \in Buffers : Received(b, m) \in Buffers
    <2>1. 0 \in Nat
      OBVIOUS
    <2> QED BY <2>1, WrittenTyped DEF Received
  <1>2. FileName \in Texts /\ logger_start_size(FileName) \in 0 .. Size
    <2>1. FileName \in Texts /\ Len(FileName) + 1 <= Size
      BY ExchangeAssumption
    <2> DEFINE n == Len(FileName)
    <2>2. n \in Nat
      BY <2>1, TextBytes
    <2> HIDE DEF n
    <2>3. n + 1 \in 0 .. Size
      BY <2>1, <2>2, WireAssumption DEF n
    <2> QED BY <2>1, <2>3 DEF logger_start_size, n
  <1>3. CASE SerializeName
    <2>1. buffer' \in Buffers /\ buffer_size' \in 0 .. Size
      BY <1>2, <1>3, Typed, Serialized DEF SerializeName
    <2> QED BY <1>3, <2>1 DEF SerializeName, TypeOK, logVars
  <1>4. CASE SendName
    <2>1. Stack \in Buffers
      <3>1. Radix - 1 \in Bytes
        BY WireAssumption DEF Bytes
      <3> QED BY <3>1 DEF Stack, Buffers
    <2>2. Message(buffer, buffer_size) \in Seq(Bytes)
      BY Typed, MessageTyped
    <2>3. Received(Stack, Message(buffer, buffer_size)) \in Buffers
      BY <1>1, <2>1, <2>2
    <2>4. file_name' \in Texts
      BY <1>4, <2>3, Room, Deserialized DEF SendName
    <2> QED BY <1>4, <2>4 DEF SendName, TypeOK
  <1>5. CASE SerializeEntry
    <2>1. buffer' \in Buffers /\ buffer_size' \in 0 .. Size
      BY <1>5, Typed, Serialized, SmallTyped DEF SerializeEntry
    <2> QED BY <1>5, <2>1 DEF SerializeEntry, TypeOK, logVars
  <1>6. CASE SendEntry
    <2>1. Message(buffer, buffer_size) \in Seq(Bytes) /\ buffer_size' \in 0 .. Size
      BY <1>6, Typed, MessageTyped, SmallTyped DEF SendEntry
    <2>2. stream' \in Seq(Bytes)
      BY <1>6, <2>1, Typed DEF SendEntry
    <2> QED BY <1>6, <2>1, <2>2 DEF SendEntry, TypeOK
  <1>7. CASE Confirm
    <2>1. Len(stream) >= EntrySize /\ EntrySize \in Nat
      BY <1>7, WireAssumption DEF Confirm
    <2>2. stream' \in Seq(Bytes) /\ SubSeq(stream, 1, EntrySize) \in Seq(Bytes)
      <3>1. EntrySize \in 0 .. Len(stream)
        BY <2>1, Typed
      <3> QED BY <1>7, <3>1, Typed, PrefixTyped, SuffixTyped DEF Confirm
    <2>3. stored' \in Seq(Seq(Bytes))
      <3>1. \A s \in Seq(Seq(Bytes)) : \A e \in Seq(Bytes) :
                Append(s, e) \in Seq(Seq(Bytes))
        OBVIOUS
      <3>2. stored' = Append(stored, SubSeq(stream, 1, EntrySize))
        BY <1>7 DEF Confirm
      <3> QED BY <2>2, <3>1, <3>2, LogTyped, Zenon
    <2>4. confirmations' \in 0 .. Capacity
      <3>1. confirmations < Capacity /\ confirmations' = confirmations + 1
        BY <1>7 DEF Confirm
      <3> QED BY <3>1, LogTyped
    <2> QED BY <1>7, <2>2, <2>3, <2>4 DEF Confirm, TypeOK, loggerVars
  <1>8. CASE ReceiveConfirmation
    <2>1. /\ buffer_size' = Least(confirmations, buffer_size)
          /\ buffer' = Received(buffer, [i \in 1 .. buffer_size' |-> 0])
          /\ confirmations' = confirmations - buffer_size'
      BY <1>8 DEF ReceiveConfirmation
    <2>2. confirmations \in 0 .. Capacity /\ confirmations \in Nat
      BY LogTyped
    <2>3. buffer_size' \in 0 .. Size /\ buffer_size' \in 0 .. confirmations
      BY <2>1, <2>2, Typed, SmallTyped
    <2>4. [i \in 1 .. buffer_size' |-> 0] \in Seq(Bytes)
      BY <2>3, WireAssumption DEF Bytes
    <2>5. buffer' \in Buffers
      BY <1>1, <2>1, <2>4, Typed
    <2>6. confirmations' \in 0 .. Capacity
      BY <2>1, <2>2, <2>3, LogTyped
    <2> QED BY <1>8, <2>3, <2>5, <2>6 DEF ReceiveConfirmation, TypeOK
  <1>9. CASE Pop
    BY <1>9 DEF Pop, TypeOK
  <1>10. CASE NotConfirmed \/ LoggerFails
    <2>1. /\ stream' = NoMessage /\ confirmations' = 0 /\ undisturbed' = FALSE
          /\ stored' = <<>> /\ file_name' = <<>> /\ lpc' = "connect"
          /\ UNCHANGED <<front, bufferVars, mainVars, masterVars, messageVars,
                         readVars, aloneVars>>
      BY <1>10 DEF NotConfirmed, LoggerFails, Reconnect
    <2>2. <<>> \in Texts /\ 0 \in 0 .. Capacity
      BY ExchangeAssumption DEF Texts
    <2>3. {request', response', stream'} \subseteq Seq(Bytes)
      BY <2>1, Typed, SmallTyped
    <2>4. stored' \in Seq(Seq(Bytes))
      BY <2>1
    <2>5. {main_alone', logger_alone', sent_alone', undisturbed'} \subseteq BOOLEAN
      BY <2>1 DEF TypeOK
    <2> QED BY <2>1, <2>2, <2>3, <2>4, <2>5 DEF TypeOK
  <1> QED BY <1>3, <1>4, <1>5, <1>6, <1>7, <1>8, <1>9, <1>10 DEF LoggerThread

LEMMA InitTyped == Init => TypeOK
  <1> SUFFICES ASSUME Init PROVE TypeOK
    OBVIOUS
  <1>1. 0 \in Bytes /\ <<>> \in Texts /\ <<>> \in Seq(Bytes)
    BY WireAssumption DEF Bytes, Texts
  <1>2. buffer \in Buffers /\ master_buffer \in Buffers
    BY <1>1 DEF Init, Buffers
  <1>3. buffer_size \in 0 .. Size
    BY WireAssumption DEF Init
  <1>4. server.port \in 0 .. Radix * Radix - 1 /\ server.hostname \in Texts
    <2>1. 0 \in 0 .. Radix * Radix - 1
      BY WireAssumption
    <2> QED BY <1>1, <2>1 DEF Init, NoServer
  <1>5. read \in Requests
    BY <1>1 DEF Init, NoRequest, Requests
  <1>6. 0 \in 0 .. Capacity /\ <<>> \in Seq(Seq(Bytes))
    BY ExchangeAssumption
  <1>7. {request, response, stream} \subseteq Seq(Bytes)
    BY <1>1 DEF Init, NoMessage
  <1>8. {main_alone, logger_alone, sent_alone, undisturbed} \subseteq BOOLEAN
    BY DEF Init
  <1> QED BY <1>1, <1>2, <1>3, <1>4, <1>5, <1>6, <1>7, <1>8 DEF Init, TypeOK

\* Every variable keeps its type, whatever the two threads do to each other's
\* messages: every byte is a byte, every text that is read ends, and whatever
\* the master has heard it reads as a request.
THEOREM TypeCorrect == Spec => []TypeOK
  <1>1. TypeOK /\ UNCHANGED vars => TypeOK'
    BY DEF TypeOK, vars, bufferVars, masterVars, messageVars, logVars, mainVars,
           loggerVars, readVars, aloneVars
  <1>2. TypeOK /\ [Next]_vars => TypeOK'
    BY <1>1, MainTyped, MasterTyped, LoggerTyped DEF Next
  <1> QED BY <1>2, InitTyped, PTL DEF Spec
\* On a connection main has not disturbed the logger has opened the file the
\* client named, and what it has stored when an entry is taken off the queue is
\* that entry, once, and read as the number that was queued.
THEOREM LogUnderstood == Spec => []LogIntact
  <1> DEFINE LogInv == EntryMade /\ Fresh /\ StreamMade
  <1>1. Init => LogInv
    BY DEF Init, EntryMade, Fresh, Quiet, StreamMade
  <1>2. TypeOK /\ Inv /\ LogInv /\ [Next]_vars => LogInv'
    BY EntryKept, FreshKept, StreamKept DEF Inv
  <1>3. LogInv => LogIntact
    <2> SUFFICES ASSUME LogInv, undisturbed PROVE LogIntact
      BY DEF LogIntact
    <2>1. Value(Digits(front)) = front
      BY ExchangeAssumption, NumberRecovered DEF EntryMade
    <2> QED BY <2>1 DEF StreamMade, LogIntact
  <1> HIDE DEF LogInv
  <1> QED BY InvInit, InvNext, TypeCorrect, <1>1, <1>2, <1>3, PTL DEF Spec

===============================================================================
