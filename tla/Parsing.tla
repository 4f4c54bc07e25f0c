-------------------------------- MODULE Parsing --------------------------------
(***************************************************************************)
(* Texts and packets the SDK takes apart: IPv4 addresses and ports as text  *)
(* (gba/sdk/src/net.c, socket_compat.c), what getaddrinfo makes of names,   *)
(* services and hints, and the fields of a Bluetooth advertisement (ble.c). *)
(* One call per behaviour: what is asked is chosen first.                   *)
(***************************************************************************)
EXTENDS Integers, Sequences, SequencesExt

CONSTANTS
  AddrBytes,    \* bytes of the addresses that are written
  Ports,        \* numbers a service may be
  Fields,       \* fields of an advertisement: sequences of a type and a value
  Uuids,        \* UUIDs looked for
  MaxFields,    \* bound on them
  AdvMax        \* bytes of an advertisement (31)

ASSUME ParsingAssumption ==
  /\ AddrBytes \subseteq 0 .. 255 /\ Ports \subseteq Nat
  /\ MaxFields \in Nat /\ AdvMax \in 0 .. 255

VARIABLES posed, parsed
parseVars == <<posed, parsed>>

-----------------------------------------------------------------------------
(* Texts: digits are themselves.                                            *)

Dot == 10
Letter == 11
IsDigit(ch) == ch \in 0 .. 9

\* append_u8_decimal
Decimal(b) ==
  IF b >= 100 THEN <<b \div 100, (b % 100) \div 10, b % 10>>
  ELSE IF b >= 10 THEN <<b \div 10, b % 10>> ELSE <<b>>

\* cl_inet_ntop
Ntop(a) == Decimal(a[1]) \o <<Dot>> \o Decimal(a[2]) \o <<Dot>>
           \o Decimal(a[3]) \o <<Dot>> \o Decimal(a[4])

\* cl_net_parse_ipv4: one character.  The mutant lets a group be empty.
ParseAnyDot(p, ch) ==
  IF IsDigit(ch) /\ p.digits < 3 /\ p.parts[p.part] * 10 + ch <= 255
  THEN [p EXCEPT !.parts[p.part] = @ * 10 + ch, !.digits = @ + 1]
  ELSE IF ch = Dot /\ p.part < 4
  THEN [p EXCEPT !.part = @ + 1, !.digits = 0]
  ELSE [p EXCEPT !.bad = TRUE]
ParseChar(p, ch) ==
  IF IsDigit(ch) /\ p.digits < 3 /\ p.parts[p.part] * 10 + ch <= 255
  THEN [p EXCEPT !.parts[p.part] = @ * 10 + ch, !.digits = @ + 1]
  ELSE IF ch = Dot /\ p.digits # 0 /\ p.part < 4
  THEN [p EXCEPT !.part = @ + 1, !.digits = 0]
  ELSE [p EXCEPT !.bad = TRUE]

NoAddress == <<>>
ParseIpv4(text) ==
  LET p == FoldLeft(LAMBDA q, ch : IF q.bad THEN q ELSE ParseChar(q, ch),
                    [parts |-> <<0, 0, 0, 0>>, part |-> 1, digits |-> 0, bad |-> FALSE], text)
  IN  IF p.bad \/ p.part # 4 \/ p.digits = 0 THEN NoAddress ELSE p.parts

\* parse_service_port: -1 is CL_EAI_SERVICE.
ParsePort(text) ==
  FoldLeft(LAMBDA port, ch :
             IF port = -1 \/ ~IsDigit(ch) \/ port * 10 + ch > 65535 THEN -1 ELSE port * 10 + ch,
           0, text)

-----------------------------------------------------------------------------
\* cl_getaddrinfo: what is wrong with the hints, and the socket they ask for.
SocketTypes == {"any", "stream", "dgram", "raw"}
Protocols == {"any", "tcp", "udp", "icmp"}
TypeOf(h) == IF h.socktype # "any" THEN h.socktype
             ELSE IF h.protocol = "udp" THEN "dgram" ELSE "stream"
ProtocolOf(type) == IF type = "dgram" THEN "udp" ELSE "tcp"
BadHints(h) ==
  \/ h.socktype = "raw" \/ h.protocol = "icmp"
  \/ h.protocol # "any" /\ h.protocol # ProtocolOf(TypeOf(h))

\* The address of a node: its own, what the MCU resolves it to, or the host's.
NodeAddress(q) ==
  IF q.node = <<>> THEN IF q.passive THEN <<0, 0, 0, 0>> ELSE <<127, 0, 0, 1>>
  ELSE IF ParseIpv4(q.node) # NoAddress THEN ParseIpv4(q.node)
  ELSE IF q.numeric \/ q.resolved = <<0, 0, 0, 0>> THEN NoAddress ELSE q.resolved

GetAddrInfo(q) ==
  IF q.node = <<>> /\ q.service = <<>> THEN [error |-> "noname"]
  ELSE IF BadHints(q) THEN [error |-> "socktype"]
  ELSE IF ParsePort(q.service) = -1 THEN [error |-> "service"]
  ELSE IF NodeAddress(q) = NoAddress THEN [error |-> "noname"]
  ELSE [error |-> "none", socktype |-> TypeOf(q), protocol |-> ProtocolOf(TypeOf(q)),
        port |-> ParsePort(q.service), addr |-> NodeAddress(q)]

-----------------------------------------------------------------------------
(* Advertisements: a length, a type and a value, again and again.           *)

NameTypes == {8, 9}
UuidTypes == {6, 7}
\* Bytes of a UUID here, instead of 16.
UuidBytes == 2

\* cl_ble_adv_name from offset on: the field with the name, or what ends the search.
AdvName(data) ==
  LET from[offset \in 0 .. Len(data)] ==
        IF offset = Len(data) \/ data[offset + 1] = 0 THEN [found |-> "none", name |-> <<>>]
        ELSE LET end == offset + 1 + data[offset + 1]
             IN  IF end > Len(data) THEN [found |-> "broken", name |-> <<>>]
                 ELSE IF data[offset + 2] \in NameTypes
                 THEN [found |-> "name", name |-> SubSeq(data, offset + 3, end)]
                 ELSE from[end]
  IN  from[0]

\* ble_adv_has_uuid128
AdvHas(data, uuid) ==
  LET has[offset \in 0 .. Len(data)] ==
        /\ offset < Len(data) /\ data[offset + 1] # 0
        /\ LET end == offset + 1 + data[offset + 1]
           IN  /\ end <= Len(data)
               /\ \/ /\ data[offset + 2] \in UuidTypes
                     /\ \E first \in offset + 3 .. end - UuidBytes + 1 :
                          /\ (first - offset - 3) % UuidBytes = 0
                          /\ SubSeq(data, first, first + UuidBytes - 1) = uuid
                  \/ has[end]
  IN  has[0]

-----------------------------------------------------------------------------
\* A text with one character changed, left out or put in.
Near(text) ==
  {text} \cup UNION {{ReplaceAt(text, i, ch) : ch \in {0, 6, Dot, Letter}} : i \in DOMAIN text}
  \cup {RemoveAt(text, i) : i \in DOMAIN text}
  \cup {InsertAt(text, i, ch) : i \in DOMAIN text, ch \in {0, 5, Dot}}
Pack(fields) == FlattenSeq([i \in DOMAIN fields |-> <<Len(fields[i])>> \o fields[i]])

Texts == UNION {Near(Ntop(<<a, b, 0, 255>>)) : a \in AddrBytes, b \in AddrBytes}
Queries ==
  [socktype : SocketTypes, protocol : Protocols, passive : BOOLEAN, numeric : BOOLEAN,
   node : {<<>>, <<Letter>>, <<1, Dot, 2, Dot, 3, Dot, 4>>}, resolved : {<<0, 0, 0, 0>>, <<9, 9, 9, 9>>},
   service : {<<>>, <<8, Letter>>} \cup {Decimal(p \div 100) \o <<(p % 100) \div 10, p % 10>> : p \in Ports}]
Adverts == {f \in UNION {[1 .. n -> Fields] : n \in 0 .. MaxFields} : Len(Pack(f)) <= AdvMax}
\* What arrives of an advertisement: it may be cut off, or end with zeros.
Arrived(a) == IF a.cut > Len(Pack(a.fields)) THEN Pack(a.fields) \o <<0>> ELSE SubSeq(Pack(a.fields), 1, a.cut)

ParseInit ==
  /\ posed \in [what : {"text"}, text : Texts] \cup [what : {"query"}, query : Queries]
               \cup [what : {"advert"}, fields : Adverts, cut : 0 .. AdvMax + 1,
                      uuid : Uuids]
  /\ parsed = <<>>

Parse ==
  /\ parsed = <<>>
  /\ parsed' = CASE posed.what = "text" -> <<ParseIpv4(posed.text)>>
                [] posed.what = "query" -> <<GetAddrInfo(posed.query)>>
                [] posed.what = "advert" ->
                     <<AdvName(Arrived(posed)), AdvHas(Arrived(posed), posed.uuid)>>
  /\ UNCHANGED posed

ParseNext == Parse
ParseSpec == ParseInit /\ [][ParseNext]_parseVars

-----------------------------------------------------------------------------
\* A text is an address if it is four numbers of up to three digits, and dots between them.
Value(g) == FoldLeft(LAMBDA v, d : v * 10 + d, 0, g)
Split(text) ==
  LET dots == SelectSeq([i \in DOMAIN text |-> i], LAMBDA i : text[i] = Dot)
      ends == <<0>> \o dots \o <<Len(text) + 1>>
  IN  [k \in 1 .. Len(dots) + 1 |-> SubSeq(text, ends[k] + 1, ends[k + 1] - 1)]
IsAddress(text) ==
  /\ Len(Split(text)) = 4
  /\ \A k \in 1 .. 4 : LET g == Split(text)[k]
                      IN  Len(g) \in 1 .. 3 /\ (\A d \in 1 .. Len(g) : IsDigit(g[d])) /\ Value(g) <= 255

\* Whole fields of an advertisement, and whether another one has begun.
Whole(a) == {n \in 0 .. Len(a.fields) : Len(Pack(SubSeq(a.fields, 1, n))) <= a.cut}
Shown(a) == SubSeq(a.fields, 1, CHOOSE n \in Whole(a) : \A m \in Whole(a) : m <= n)
Names(a) == SelectSeq(Shown(a), LAMBDA f : f[1] \in NameTypes)

\* net.c:348-384, socket_compat.c:207-300, ble.c:60-83, 255-289: a text is taken for an
\* address exactly if it is one, and for that one; what getaddrinfo gives can be opened and
\* is what the hints, the node and the service ask for; and of an advertisement the fields
\* that arrived whole are found, and no others.
TakenForWhatItIs ==
  parsed # <<>> =>
    CASE posed.what = "text" ->
           IF IsAddress(posed.text) THEN parsed[1] = [k \in 1 .. 4 |-> Value(Split(posed.text)[k])]
           ELSE parsed[1] = NoAddress
      [] posed.what = "query" ->
           LET q == posed.query
           IN  parsed[1].error = "none" =>
                 /\ parsed[1].protocol = "tcp" <=> parsed[1].socktype = "stream"
                 /\ q.socktype \in {"any", parsed[1].socktype}
                 /\ q.protocol \in {"any", parsed[1].protocol}
                 /\ parsed[1].port = Value(q.service) /\ parsed[1].port <= 65535
                 /\ parsed[1].addr = <<0, 0, 0, 0>> => q.node = <<>> /\ q.passive
                 /\ q.numeric /\ q.node # <<>> => IsAddress(q.node)
      [] posed.what = "advert" ->
           /\ parsed[1].found = "name" <=> Names(posed) # <<>>
           /\ parsed[1].found = "name" => parsed[1].name = Tail(Names(posed)[1])
           /\ parsed[1].found = "broken" => Len(Shown(posed)) < Len(posed.fields)
           /\ parsed[2] <=> \E i \in DOMAIN Shown(posed) :
                LET f == Shown(posed)[i]
                IN  f[1] \in UuidTypes /\ \E k \in 1 .. (Len(f) - 1) \div UuidBytes :
                      SubSeq(f, k * UuidBytes, (k + 1) * UuidBytes - 1) = posed.uuid
=============================================================================
