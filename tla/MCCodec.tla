------------------------------ MODULE MCCodec -------------------------------
EXTENDS Codec

Method(d, types, returns) == [dir |-> d, args |-> types, returns |-> returns]

\* One object in three versions of its description.  The first two differ in the
\* type of an argument and of an array's elements, the third has one method less
\* and one argument less.
BaseDescription ==
    << Method("c2s", <<Simple("uint"), Simple("varchar")>>, FALSE),
       Method("s2c", <<ArrayOf("fd"), Simple("fd"), Simple("enum")>>, FALSE),
       Method("c2s", <<Simple("int")>>, TRUE),
       Method("s2c", <<Simple("f32"), ArrayOf("varchar")>>, FALSE),
       Method("c2s", <<Simple("fd"), ArrayOf("uint"), Simple("fd")>>, FALSE) >>

OtherTypes ==
    << Method("c2s", <<Simple("int"), Simple("varchar")>>, FALSE),
       Method("s2c", <<ArrayOf("fd"), Simple("fd"), Simple("enum")>>, FALSE),
       Method("c2s", <<Simple("int")>>, FALSE),
       Method("s2c", <<Simple("f32"), ArrayOf("int")>>, FALSE),
       Method("c2s", <<Simple("fd"), ArrayOf("uint"), Simple("fd")>>, FALSE) >>

Shorter ==
    << Method("c2s", <<Simple("uint")>>, FALSE),
       Method("s2c", <<ArrayOf("fd"), Simple("fd")>>, FALSE),
       Method("c2s", <<Simple("int")>>, TRUE),
       Method("s2c", <<Simple("f32"), ArrayOf("varchar")>>, FALSE) >>

AllDescriptions == <<BaseDescription, OtherTypes, Shorter>>

Fixed(message, vals)     == [kind |-> "fixed", message |-> message, vals |-> vals]
Call(method, vals, waits) == [kind |-> "call", method |-> method, vals |-> vals, waits |-> waits]

\* Strings: empty, one that looks like magics, one whose length takes two bytes.
Magics == <<32, 33, 16, 64, 100>>
Long   == [i \in 1 .. 130 |-> 65]

ToServer ==
    << Fixed(CHelloMessage, <<VAX>>),
       Fixed(CHandshakeAckMessage, <<1>>),
       Fixed(CBindProtocolMessage, <<1, Magics, 3>>),
       Fixed(CBindProtocolMessage, <<2, <<>>, 0>>),
       Fixed(CRoundtripRequestMessage, <<536870912>>),
       Call(1, <<16, <<>> >>, FALSE),
       Call(1, <<0, Magics>>, TRUE),
       Call(2, <<8460320>>, FALSE),
       Call(3, <<3, <<>>, 4>>, TRUE),
       Call(3, <<5, <<0, 33>>, 6>>, FALSE),
       Call(3, <<7, <<1, 2, 3>>, 8>>, FALSE) >>

ToClient ==
    << Fixed(CHandshakeBeginMessage, << <<1>> >>),
       Fixed(CHandshakeBeginMessage, << <<1, 2, 3>> >>),
       Fixed(CHandshakeProtocolsMessage, << <<Magics, <<>> >> >>),
       Fixed(CHandshakeProtocolsMessage, << <<Long, Magics, <<>> >> >>),
       Fixed(CNewObjectMessage, <<7, 33>>),
       Fixed(CFatalErrorMessage, <<0, 1073741824, Long>>),
       Fixed(CRoundtripDoneMessage, <<256>>),
       Call(1, << <<>>, 3, 16>>, FALSE),
       Call(1, << <<4, 5>>, 6, 0>>, FALSE),
       Call(1, << <<4, 5, 7>>, 6, 0>>, FALSE),
       Call(2, <<64, <<Magics, <<>> >> >>, FALSE) >>

AllSamples == [c2s |-> ToServer, s2c |-> ToClient]

VarIntBoundaries ==
    {0, 1, 127, 128, 129, 16383, 16384, 16512, 2097151, 2097152, 268435455}
=============================================================================
