------------------------------ MODULE Messages ------------------------------
(***************************************************************************)
(* The bytes of the messages: numbers of variable length, and the messages *)
(* of fixed content with their two constructors, the one that writes the   *)
(* bytes and the one that reads them.                                      *)
(***************************************************************************)
EXTENDS Naturals, Sequences, SequencesExt

CONSTANTS
    MaxVersions,  \* 256: a list of this many versions is refused
    MaxProtocols  \* 2048: a list of this many protocols is refused

\* eMessageMagic
END     == 0
UINT    == 16
INT     == 17
F32     == 18
SEQ     == 19
VARCHAR == 32
ARRAY   == 33
OBJECT  == 34
FD      == 64

-----------------------------------------------------------------------------
\* A 32 bit word as memcpy lays it out, and back.
Word(n)    == [i \in 1 .. 4 |-> (n \div 256 ^ (i - 1)) % 256]
WordAt(d, i) == d[i] + 256 * d[i + 1] + 65536 * d[i + 2] + 16777216 * d[i + 3]

\* Mutant: the high bit of the last byte stays.
encodeVarInt_NoStop(num) == [i \in 1 .. 4 |-> ((num \div 128 ^ (i - 1)) % 128) + 128]

\* Seven bits a byte, the lowest first, at most four bytes; the high bit says
\* that another byte follows.
encodeVarInt(num) ==
    LET digit == [i \in 1 .. 4 |-> (num \div 128 ^ (i - 1)) % 128]
        size  == CHOOSE k \in 1 .. 4 :
                   /\ k = 1 \/ digit[k] # 0
                   /\ \A j \in k + 1 .. 4 : digit[j] = 0
    IN  [i \in 1 .. size |-> digit[i] + IF i < size THEN 128 ELSE 0]

\* The number that starts at i, and how many bytes it takes; past the end of the
\* data, nothing.
parseVarInt(d, i) ==
    IF i > Len(d) THEN [num |-> 0, size |-> 0]
    ELSE LET last == CHOOSE k \in i .. Len(d) :
                       /\ k = Len(d) \/ d[k] < 128
                       /\ \A j \in i .. k - 1 : d[j] >= 128
         IN  [num  |-> FoldLeftDomain(LAMBDA sum, j : sum + ((d[i + j - 1] % 128) * 128 ^ (j - 1)),
                                      0, SubSeq(d, i, last)),
              size |-> last - i + 1]

Bytes(str) == encodeVarInt(Len(str)) \o str

-----------------------------------------------------------------------------
(* The messages: the code, and the parameters between the code and END.  A  *)
(* parameter is its magic and, for an array, the type of the elements and   *)
(* the size from which a list is refused.                                   *)

Plain(magic)       == [magic |-> magic, of |-> END, limit |-> 0]
ListOf(magic, max) == [magic |-> ARRAY, of |-> magic, limit |-> max]

CHelloMessage              == [code |-> 1,  fields |-> <<Plain(VARCHAR)>>]
CHandshakeBeginMessage     == [code |-> 2,  fields |-> <<ListOf(UINT, MaxVersions)>>]
CHandshakeAckMessage       == [code |-> 3,  fields |-> <<Plain(UINT)>>]
CHandshakeProtocolsMessage == [code |-> 4,  fields |-> <<ListOf(VARCHAR, MaxProtocols)>>]
CBindProtocolMessage       == [code |-> 10, fields |-> <<Plain(UINT), Plain(VARCHAR), Plain(UINT)>>]
CNewObjectMessage          == [code |-> 11, fields |-> <<Plain(UINT), Plain(UINT)>>]
CFatalErrorMessage         == [code |-> 12, fields |-> <<Plain(UINT), Plain(UINT), Plain(VARCHAR)>>]
CRoundtripRequestMessage   == [code |-> 13, fields |-> <<Plain(UINT)>>]
CRoundtripDoneMessage      == [code |-> 14, fields |-> <<Plain(UINT)>>]

\* Which of them parseSingleMessage lets a server, and a client, read.
ServerReads == {CHelloMessage, CHandshakeAckMessage, CBindProtocolMessage, CRoundtripRequestMessage}
ClientReads == {CHandshakeBeginMessage, CHandshakeProtocolsMessage, CNewObjectMessage,
                CFatalErrorMessage, CRoundtripDoneMessage}

VAX == <<86, 65, 88>>

-----------------------------------------------------------------------------
(* Writing *)

FieldBytes(field, val) ==
    CASE field.magic = UINT    -> <<UINT>> \o Word(val)
      [] field.magic = VARCHAR -> <<VARCHAR>> \o Bytes(val)
      [] field.magic = ARRAY   ->
           <<ARRAY, field.of>> \o encodeVarInt(Len(val))
             \o FlattenSeq([i \in DOMAIN val |->
                              IF field.of = UINT THEN Word(val[i]) ELSE Bytes(val[i])])

Written(message, vals) ==
    <<message.code>>
      \o FlattenSeq([i \in DOMAIN vals |-> FieldBytes(message.fields[i], vals[i])])
      \o <<END>>

-----------------------------------------------------------------------------
(* Reading.  at() throws past the end of the data, which makes the message  *)
(* malformed, and so does what is not where it should be.                   *)

Malformed == [ok |-> FALSE]
At(d, i, byte) == i <= Len(d) /\ d[i] = byte

\* A word, or a string, without a magic of its own, that starts at i.
ReadWord(d, i) ==
    IF i + 3 > Len(d) THEN Malformed
    ELSE [ok |-> TRUE, val |-> WordAt(d, i), next |-> i + 4]

ReadString(d, i) ==
    LET n     == parseVarInt(d, i)
        first == i + n.size
    IN  IF n.size = 0 \/ first + n.num - 1 > Len(d) THEN Malformed
        ELSE [ok |-> TRUE, val |-> SubSeq(d, first, first + n.num - 1), next |-> first + n.num]

\* What was read before, r, and what is read where it ended.
With(r, x) == IF x.ok THEN [x EXCEPT !.val = Append(r.val, @)] ELSE Malformed
Nothing(i) == [ok |-> TRUE, val |-> <<>>, next |-> i]

\* num elements in a row, the first at i.
ReadElement(of, d, i) == IF of = VARCHAR THEN ReadString(d, i) ELSE ReadWord(d, i)
ReadElements(d, i, of, num) ==
    FoldLeft(LAMBDA r, each : IF r.ok THEN With(r, ReadElement(each, d, r.next)) ELSE r,
             Nothing(i), [j \in 1 .. num |-> of])

ReadField(field, d, i) ==
    IF ~At(d, i, field.magic) THEN Malformed
    ELSE CASE field.magic = UINT    -> ReadWord(d, i + 1)
           [] field.magic = VARCHAR -> ReadString(d, i + 1)
           [] field.magic = ARRAY   ->
                IF ~At(d, i + 1, field.of) THEN Malformed
                ELSE LET n == parseVarInt(d, i + 2)
                     IN  IF n.size = 0 \/ n.num >= field.limit THEN Malformed
                         ELSE ReadElements(d, i + 2 + n.size, field.of, n.num)

ReadFields(fields, d, i) ==
    FoldLeft(LAMBDA r, field : IF r.ok THEN With(r, ReadField(field, d, r.next)) ELSE r,
             Nothing(i), fields)

\* Mutant: nobody looks for END.
Ends_Unchecked(d, i) == TRUE
Ends(d, i) == At(d, i, END)

\* The constructor that reads a message at i: its values, and m_len, 0 for none.
\* A hello says VAX, and nobody binds version 0 of a protocol.  (A hello is
\* compared without a look at the length: of one that is cut the comparison reads
\* past the data, which is undefined; here it fails.)
Good(message, d, r) ==
    /\ r.ok
    /\ Ends(d, r.next)
    /\ message = CHelloMessage => r.val = <<VAX>>
    /\ message = CBindProtocolMessage => r.val[3] # 0
MessageFrom(message, d, i, r) ==
    IF Good(message, d, r) THEN [len |-> r.next - i + 1, val |-> r.val] ELSE [len |-> 0]
Parsed(message, d, i) == MessageFrom(message, d, i, ReadFields(message.fields, d, i + 1))
=============================================================================
