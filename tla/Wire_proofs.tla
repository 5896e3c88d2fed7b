----------------------------- MODULE Wire_proofs -----------------------------
(***************************************************************************)
(* Lemmas about the messages and the queues of the socket.                 *)
(***************************************************************************)
EXTENDS Wire, SequenceTheorems, TLAPS

\* What a server may put on the wire, by the constructors it uses.
LEMMA ServerMessages ==
    /\ \A vs \in SUBSET Nat : HandshakeBegin(vs) \in ServerMessage
    /\ \A ps \in SUBSET Protocols : HandshakeProtocols(ps) \in ServerMessage
    /\ \A q, i \in Nat : NewObject(q, i) \in ServerMessage
    /\ \A i \in Nat, m \in AllEvents : Generic(i, m, 0) \in ServerMessage
    /\ \A i \in Nat : FatalError(i) \in ServerMessage
    /\ \A q \in Nat : RoundtripDone(q) \in ServerMessage
BY DEF HandshakeBegin, HandshakeProtocols, NewObject, Generic, FatalError, RoundtripDone,
       ServerMessage

\* Sending well-formed messages keeps the queue to the client well formed.
LEMMA ServerSendsType ==
    ASSUME WireTypeOK, NEW msgs \in Seq(ServerMessage), ServerSends(msgs)
    PROVE  s2c' \in Seq(ServerMessage)
BY ConcatProperties DEF WireTypeOK, ServerSends

\* The same of a single message.
LEMMA ServerSendsOneType ==
    ASSUME WireTypeOK, NEW m \in ServerMessage, ServerSends(<<m>>)
    PROVE  s2c' \in Seq(ServerMessage)
<1>1. <<m>> \in Seq(ServerMessage)
  OBVIOUS
<1> QED
  BY <1>1, ServerSendsType

\* A read takes a prefix of what waits and leaves the rest.
LEMMA ReadSplitsQueue ==
    ASSUME NEW S, NEW queue \in Seq(S), NEW n \in ReadLengths(queue)
    PROVE  /\ SubSeq(queue, 1, n) \in Seq(S)
           /\ SubSeq(queue, n + 1, Len(queue)) \in Seq(S)
           /\ SubSeq(queue, 1, n) \o SubSeq(queue, n + 1, Len(queue)) = queue
<1>1. n \in 1 .. Len(queue) /\ Len(queue) \in Nat
  BY LenProperties DEF ReadLengths
<1>2. SubSeq(queue, 1, n) \in Seq(S) /\ SubSeq(queue, n + 1, Len(queue)) \in Seq(S)
  BY <1>1, SubSeqProperties
<1>3. 1 \in 1 .. Len(queue) + 1 /\ n \in 1 - 1 .. Len(queue) /\ Len(queue) \in n .. Len(queue)
  BY <1>1
<1>4. SubSeq(queue, 1, n) \o SubSeq(queue, n + 1, Len(queue)) = SubSeq(queue, 1, Len(queue))
  BY <1>3, ConcatAdjacentSubSeq
<1>5. SubSeq(queue, 1, Len(queue)) = queue
  BY SubSeqFull
<1> QED
  BY <1>2, <1>4, <1>5

\* What a client may put on the wire, by the constructors it uses.
LEMMA ClientMessages ==
    /\ Hello \in ClientMessage
    /\ \A v \in Nat : HandshakeAck(v) \in ClientMessage
    /\ \A q, v \in Nat, p \in Protocols : BindProtocol(q, p, v) \in ClientMessage
    /\ \A i, q \in Nat, m \in AllRequests : Generic(i, m, q) \in ClientMessage
    /\ \A q \in Nat : RoundtripRequest(q) \in ClientMessage
BY DEF Hello, HandshakeAck, BindProtocol, Generic, RoundtripRequest, ClientMessage

\* Sending well-formed messages keeps the queue to the server well formed.
LEMMA ClientSendsType ==
    ASSUME WireTypeOK, NEW msgs \in Seq(ClientMessage), ClientSends(msgs)
    PROVE  c2s' \in Seq(ClientMessage)
BY ConcatProperties DEF WireTypeOK, ClientSends

\* The same of a single message.
LEMMA ClientSendsOneType ==
    ASSUME WireTypeOK, NEW m \in ClientMessage, ClientSends(<<m>>)
    PROVE  c2s' \in Seq(ClientMessage)
<1>1. <<m>> \in Seq(ClientMessage)
  OBVIOUS
<1> QED
  BY <1>1, ClientSendsType

-----------------------------------------------------------------------------
(* What a queue holds, as a set *)

\* A queue of one message holds that message, the empty one nothing.
LEMMA RangeOfShort ==
    /\ \A m : Range(<<m>>) = {m}
    /\ Range(<<>>) = {}
BY DEF Range

\* What a queue holds has the type of its elements.
LEMMA RangeIsTyped ==
    ASSUME NEW S, NEW s \in Seq(S)
    PROVE  Range(s) \subseteq S
BY ElementOfSeq DEF Range

\* Taking the first message leaves the others.
LEMMA RangeSplits ==
    ASSUME NEW S, NEW s \in Seq(S), s # <<>>
    PROVE  Range(s) = {Head(s)} \cup Range(Tail(s))
<1>1. /\ Tail(s) \in Seq(S)
      /\ Len(s) \in Nat
      /\ Len(s) > 0
      /\ Len(Tail(s)) = Len(s) - 1
      /\ Head(s) = s[1]
      /\ \A k \in 1 .. Len(Tail(s)) : Tail(s)[k] = s[k + 1]
  BY HeadTailProperties, LenProperties
<1>2. Range(s) = {s[k] : k \in 1 .. Len(s)} /\ Range(Tail(s)) = {Tail(s)[k] : k \in 1 .. Len(Tail(s))}
  BY <1>1, RangeEquality
<1>3. ASSUME NEW k \in 1 .. Len(s)
      PROVE  s[k] = Head(s) \/ s[k] \in Range(Tail(s))
  <2>1. CASE k = 1
    BY <2>1, <1>1
  <2>2. CASE k # 1
    <3>1. k - 1 \in 1 .. Len(Tail(s)) /\ Tail(s)[k - 1] = s[k]
      BY <2>2, <1>1
    <3> QED
      BY <3>1, <1>2
  <2> QED
    BY <2>1, <2>2
<1>4. Head(s) \in Range(s)
  BY <1>1, <1>2
<1>5. ASSUME NEW k \in 1 .. Len(Tail(s))
      PROVE  Tail(s)[k] \in Range(s)
  <2>1. k + 1 \in 1 .. Len(s) /\ Tail(s)[k] = s[k + 1]
    BY <1>1
  <2> QED
    BY <2>1, <1>2
<1> QED
  BY <1>2, <1>3, <1>4, <1>5

\* A read takes some messages and leaves the others.
LEMMA RangeOfRead ==
    ASSUME NEW S, NEW queue \in Seq(S), NEW n \in ReadLengths(queue)
    PROVE  Range(queue) =
             Range(SubSeq(queue, 1, n)) \cup Range(SubSeq(queue, n + 1, Len(queue)))
<1>1. n \in 1 .. Len(queue) /\ Len(queue) \in Nat
  BY LenProperties DEF ReadLengths
<1>2. queue = SubSeq(queue, 1, n) \o SubSeq(queue, n + 1, Len(queue))
  <2>1. SubSeq(queue, 1, Len(queue)) = queue
    BY SubSeqFull
  <2>2. SubSeq(queue, 1, n) \o SubSeq(queue, n + 1, Len(queue)) = SubSeq(queue, 1, Len(queue))
    BY <1>1, ConcatAdjacentSubSeq
  <2> QED
    BY <2>1, <2>2
<1>3. SubSeq(queue, 1, n) \in Seq(S) /\ SubSeq(queue, n + 1, Len(queue)) \in Seq(S)
  BY ReadSplitsQueue
<1> QED
  BY <1>2, <1>3, RangeConcatenation

\* Whatever is written to either queue, nothing of it is lost and nothing else
\* comes in.
LEMMA ClientSendsRange ==
    ASSUME WireTypeOK, NEW msgs \in Seq(ClientMessage), ClientSends(msgs)
    PROVE  /\ Range(c2s) \subseteq Range(c2s')
           /\ Range(c2s') \subseteq Range(c2s) \cup Range(msgs)
BY RangeConcatenation DEF WireTypeOK, ClientSends

\* The server's side of the same: what it sends arrives while both ends are
\* open.
LEMMA ServerSendsRange ==
    ASSUME WireTypeOK, NEW msgs \in Seq(ServerMessage), ServerSends(msgs)
    PROVE  /\ Range(s2c) \subseteq Range(s2c')
           /\ Range(s2c') \subseteq Range(s2c) \cup Range(msgs)
           /\ clientOpen /\ serverOpen => Range(s2c') = Range(s2c) \cup Range(msgs)
BY RangeConcatenation DEF WireTypeOK, ServerSends

-----------------------------------------------------------------------------
(* Requests for objects *)

\* A message that asks for an object, and one that ends an object.
AsksFor(m) == m.type = "BIND_PROTOCOL" \/ (m.type = "GENERIC" /\ Creates(m.method))
Ends(m)    == m.type = "GENERIC" /\ IsDestructor(m.method)

\* The seqs a queue asks for, and that it asks for none of them twice.
SeqsAsked(s) == {s[k].seq : k \in {j \in 1 .. Len(s) : AsksFor(s[j])}}
AsksOnce(s)  ==
    \A j, k \in 1 .. Len(s) :
        AsksFor(s[j]) /\ AsksFor(s[k]) /\ s[j].seq = s[k].seq => j = k

\* A queue that holds no request asks for nothing.
LEMMA SilentAsksNothing ==
    ASSUME NEW S, NEW s \in Seq(S), \A m \in Range(s) : ~AsksFor(m)
    PROVE  AsksOnce(s) /\ SeqsAsked(s) = {}
<1>1. \A k \in 1 .. Len(s) : s[k] \in Range(s)
  BY RangeEquality
<1> QED
  BY <1>1 DEF AsksOnce, SeqsAsked

\* What a queue asks for is asked for by one of its messages.
LEMMA SeqsOfRange ==
    ASSUME NEW S, NEW s \in Seq(S)
    PROVE  SeqsAsked(s) = {m.seq : m \in {x \in Range(s) : AsksFor(x)}}
<1>1. Range(s) = {s[k] : k \in 1 .. Len(s)}
  BY RangeEquality
<1> QED
  BY <1>1 DEF SeqsAsked

\* Two queues that ask for different objects ask once when joined.
LEMMA AsksOnceJoined ==
    ASSUME NEW S, NEW s \in Seq(S), NEW t \in Seq(S), AsksOnce(s), AsksOnce(t),
           SeqsAsked(s) \cap SeqsAsked(t) = {}
    PROVE  /\ AsksOnce(s \o t)
           /\ SeqsAsked(s \o t) = SeqsAsked(s) \cup SeqsAsked(t)
<1>1. /\ Len(s) \in Nat
      /\ Len(t) \in Nat
      /\ Len(s \o t) = Len(s) + Len(t)
      /\ \A k \in 1 .. Len(s) : (s \o t)[k] = s[k]
      /\ \A k \in Len(s) + 1 .. Len(s) + Len(t) : (s \o t)[k] = t[k - Len(s)]
  BY ConcatProperties, LenProperties
<1>2. ASSUME NEW k \in 1 .. Len(s \o t)
      PROVE  \/ k \in 1 .. Len(s) /\ (s \o t)[k] = s[k]
             \/ k - Len(s) \in 1 .. Len(t) /\ k \in Int /\ (s \o t)[k] = t[k - Len(s)]
  BY <1>1
<1>3. \A k \in 1 .. Len(t) : k + Len(s) \in 1 .. Len(s \o t) /\ (s \o t)[k + Len(s)] = t[k]
  BY <1>1
<1>4. \A k \in 1 .. Len(s) : k \in 1 .. Len(s \o t) /\ (s \o t)[k] = s[k]
  BY <1>1
<1>5. SeqsAsked(s \o t) \subseteq SeqsAsked(s) \cup SeqsAsked(t)
  BY <1>2 DEF SeqsAsked
<1>6. SeqsAsked(s) \subseteq SeqsAsked(s \o t)
  BY <1>4 DEF SeqsAsked
<1>7. SeqsAsked(t) \subseteq SeqsAsked(s \o t)
  BY <1>3 DEF SeqsAsked
<1>8. ASSUME NEW j \in 1 .. Len(s \o t), NEW k \in 1 .. Len(s \o t), AsksFor((s \o t)[j]),
             AsksFor((s \o t)[k]), (s \o t)[j].seq = (s \o t)[k].seq
      PROVE  j = k
  <2>1. CASE j \in 1 .. Len(s) /\ k \in 1 .. Len(s)
    BY <1>4, <1>8, <2>1 DEF AsksOnce
  <2>2. CASE /\ j - Len(s) \in 1 .. Len(t)
             /\ k - Len(s) \in 1 .. Len(t)
             /\ (s \o t)[j] = t[j - Len(s)]
             /\ (s \o t)[k] = t[k - Len(s)]
    <3>1. j - Len(s) = k - Len(s)
      BY <1>8, <2>2 DEF AsksOnce
    <3> QED
      BY <1>1, <3>1
  <2>3. ASSUME NEW a \in 1 .. Len(s), NEW b \in 1 .. Len(t), AsksFor(s[a]), AsksFor(t[b]),
               s[a].seq = t[b].seq
        PROVE  FALSE
    BY <2>3 DEF SeqsAsked
  <2> QED
    BY <1>2, <1>8, <2>1, <2>2, <2>3
<1>9. AsksOnce(s \o t)
  BY <1>8 DEF AsksOnce
<1> QED
  BY <1>5, <1>6, <1>7, <1>9

\* Taken apart it asks for no object in both parts.
LEMMA AsksOnceApart ==
    ASSUME NEW S, NEW s \in Seq(S), NEW t \in Seq(S), AsksOnce(s \o t)
    PROVE  /\ AsksOnce(s)
           /\ AsksOnce(t)
           /\ SeqsAsked(s) \cap SeqsAsked(t) = {}
           /\ SeqsAsked(s \o t) = SeqsAsked(s) \cup SeqsAsked(t)
<1>1. /\ Len(s) \in Nat
      /\ Len(t) \in Nat
      /\ Len(s \o t) = Len(s) + Len(t)
      /\ \A k \in 1 .. Len(s) : (s \o t)[k] = s[k]
      /\ \A k \in Len(s) + 1 .. Len(s) + Len(t) : (s \o t)[k] = t[k - Len(s)]
  BY ConcatProperties, LenProperties
<1>2. \A k \in 1 .. Len(t) : /\ k + Len(s) \in 1 .. Len(s \o t)
                             /\ k + Len(s) \notin 1 .. Len(s)
                             /\ (s \o t)[k + Len(s)] = t[k]
  BY <1>1
<1>3. \A k \in 1 .. Len(s) : k \in 1 .. Len(s \o t) /\ (s \o t)[k] = s[k]
  BY <1>1
<1>4. AsksOnce(s)
  BY <1>3 DEF AsksOnce
<1>5. ASSUME NEW j \in 1 .. Len(t), NEW k \in 1 .. Len(t), AsksFor(t[j]), AsksFor(t[k]),
             t[j].seq = t[k].seq
      PROVE  j = k
  <2>1. j + Len(s) = k + Len(s)
    BY <1>2, <1>5 DEF AsksOnce
  <2> QED
    BY <1>1, <2>1
<1>6. ASSUME NEW a \in 1 .. Len(s), NEW b \in 1 .. Len(t), AsksFor(s[a]), AsksFor(t[b]),
             s[a].seq = t[b].seq
      PROVE  FALSE
  BY <1>2, <1>3, <1>6 DEF AsksOnce
<1>7. SeqsAsked(s) \cap SeqsAsked(t) = {}
  BY <1>6 DEF SeqsAsked
<1>8. AsksOnce(t)
  BY <1>5 DEF AsksOnce
<1>9. SeqsAsked(s \o t) = SeqsAsked(s) \cup SeqsAsked(t)
  BY <1>4, <1>7, <1>8, AsksOnceJoined
<1> QED
  BY <1>4, <1>7, <1>8, <1>9

\* Taking the first message leaves what the others ask for.
LEMMA AsksOnceTail ==
    ASSUME NEW S, NEW s \in Seq(S), s # <<>>, AsksOnce(s)
    PROVE  /\ AsksOnce(Tail(s))
           /\ SeqsAsked(Tail(s)) \subseteq SeqsAsked(s)
           /\ AsksFor(Head(s)) =>
                Head(s).seq \in SeqsAsked(s) /\ Head(s).seq \notin SeqsAsked(Tail(s))
<1>1. /\ Tail(s) \in Seq(S)
      /\ Len(s) \in Nat
      /\ Len(s) > 0
      /\ Len(Tail(s)) = Len(s) - 1
      /\ Head(s) = s[1]
      /\ \A k \in 1 .. Len(Tail(s)) : Tail(s)[k] = s[k + 1]
  BY HeadTailProperties, LenProperties
<1>2. \A k \in 1 .. Len(Tail(s)) :
        k + 1 \in 1 .. Len(s) /\ k + 1 # 1 /\ Tail(s)[k] = s[k + 1]
  BY <1>1
<1>3. 1 \in 1 .. Len(s)
  BY <1>1
<1>4. ASSUME NEW j \in 1 .. Len(Tail(s)), NEW k \in 1 .. Len(Tail(s)), AsksFor(Tail(s)[j]),
             AsksFor(Tail(s)[k]), Tail(s)[j].seq = Tail(s)[k].seq
      PROVE  j = k
  <2>1. j + 1 = k + 1
    BY <1>2, <1>4 DEF AsksOnce
  <2> QED
    BY <1>1, <2>1
<1>5. SeqsAsked(Tail(s)) \subseteq SeqsAsked(s)
  BY <1>2 DEF SeqsAsked
<1>6. ASSUME AsksFor(Head(s))
      PROVE  Head(s).seq \in SeqsAsked(s) /\ Head(s).seq \notin SeqsAsked(Tail(s))
  <2>1. Head(s).seq \in SeqsAsked(s)
    BY <1>1, <1>3, <1>6 DEF SeqsAsked
  <2>2. ASSUME NEW k \in 1 .. Len(Tail(s)), AsksFor(Tail(s)[k]), Tail(s)[k].seq = Head(s).seq
        PROVE  FALSE
    BY <1>1, <1>2, <1>3, <1>6, <2>2 DEF AsksOnce
  <2> QED
    BY <2>1, <2>2 DEF SeqsAsked
<1> QED
  BY <1>4, <1>5, <1>6 DEF AsksOnce

\* A read leaves what it does not take.
LEMMA AsksOnceRead ==
    ASSUME NEW S, NEW queue \in Seq(S), NEW n \in ReadLengths(queue), AsksOnce(queue)
    PROVE  LET taken == SubSeq(queue, 1, n)
               left  == SubSeq(queue, n + 1, Len(queue))
           IN  /\ AsksOnce(taken)
               /\ AsksOnce(left)
               /\ SeqsAsked(taken) \cap SeqsAsked(left) = {}
               /\ SeqsAsked(queue) = SeqsAsked(taken) \cup SeqsAsked(left)
<1>1. n \in 1 .. Len(queue) /\ Len(queue) \in Nat
  BY LenProperties DEF ReadLengths
<1>2. queue = SubSeq(queue, 1, n) \o SubSeq(queue, n + 1, Len(queue))
  <2>1. SubSeq(queue, 1, Len(queue)) = queue
    BY SubSeqFull
  <2>2. SubSeq(queue, 1, n) \o SubSeq(queue, n + 1, Len(queue)) = SubSeq(queue, 1, Len(queue))
    BY <1>1, ConcatAdjacentSubSeq
  <2> QED
    BY <2>1, <2>2
<1>3. SubSeq(queue, 1, n) \in Seq(S) /\ SubSeq(queue, n + 1, Len(queue)) \in Seq(S)
  BY ReadSplitsQueue
<1>4. ASSUME NEW a \in Seq(S), NEW b \in Seq(S), queue = a \o b
      PROVE  /\ AsksOnce(a)
             /\ AsksOnce(b)
             /\ SeqsAsked(a) \cap SeqsAsked(b) = {}
             /\ SeqsAsked(queue) = SeqsAsked(a) \cup SeqsAsked(b)
  BY <1>4, AsksOnceApart
<1> QED
  BY <1>2, <1>3, <1>4

\* A message alone asks for one object or for none.
LEMMA OneAsksOnce ==
    ASSUME NEW m
    PROVE  /\ AsksOnce(<<m>>)
           /\ AsksFor(m) => SeqsAsked(<<m>>) = {m.seq}
           /\ ~AsksFor(m) => SeqsAsked(<<m>>) = {}
<1>1. Len(<<m>>) = 1 /\ <<m>>[1] = m
  OBVIOUS
<1>2. 1 .. 1 = {1}
  OBVIOUS
<1>3. SeqsAsked(<<m>>) = {<<m>>[k].seq : k \in {j \in {1} : AsksFor(<<m>>[j])}}
  BY <1>1, <1>2 DEF SeqsAsked
<1>4. SeqsAsked(<<m>>) = {m.seq : k \in {j \in {1} : AsksFor(m)}}
  BY <1>1, <1>3
<1> QED
  BY <1>1, <1>2, <1>4 DEF AsksOnce

\* Sending what is not on the wire yet, or losing it, asks for nothing twice.
LEMMA ClientSendsOnce ==
    ASSUME WireTypeOK, NEW msgs \in Seq(ClientMessage), ClientSends(msgs),
           AsksOnce(c2s), AsksOnce(msgs), SeqsAsked(c2s) \cap SeqsAsked(msgs) = {}
    PROVE  /\ AsksOnce(c2s')
           /\ SeqsAsked(c2s') \subseteq SeqsAsked(c2s) \cup SeqsAsked(msgs)
BY AsksOnceJoined DEF ClientSends, WireTypeOK

-----------------------------------------------------------------------------
(* Two queues one after the other *)

\* The first message of the two is the first of the first.
LEMMA TailOfConcat ==
    ASSUME NEW S, NEW s \in Seq(S), NEW t \in Seq(S), s # <<>>
    PROVE  /\ s \o t # <<>>
           /\ Head(s \o t) = Head(s)
           /\ Tail(s \o t) = Tail(s) \o t
<1>1. /\ Len(s) \in Nat
      /\ Len(s) > 0
      /\ Len(t) \in Nat
      /\ s \o t \in Seq(S)
      /\ Len(s \o t) = Len(s) + Len(t)
      /\ \A k \in 1 .. Len(s) : (s \o t)[k] = s[k]
      /\ \A k \in Len(s) + 1 .. Len(s) + Len(t) : (s \o t)[k] = t[k - Len(s)]
  BY ConcatProperties, LenProperties, EmptySeq
<1>2. /\ Tail(s) \in Seq(S)
      /\ Len(Tail(s)) = Len(s) - 1
      /\ Head(s) = s[1]
      /\ \A k \in 1 .. Len(Tail(s)) : Tail(s)[k] = s[k + 1]
  BY HeadTailProperties
<1>3. s \o t # <<>>
  BY <1>1
<1>4. /\ Tail(s \o t) \in Seq(S)
      /\ Len(Tail(s \o t)) = Len(s \o t) - 1
      /\ Head(s \o t) = (s \o t)[1]
      /\ \A k \in 1 .. Len(Tail(s \o t)) : Tail(s \o t)[k] = (s \o t)[k + 1]
  BY <1>1, <1>3, HeadTailProperties
<1>5. /\ Tail(s) \o t \in Seq(S)
      /\ Len(Tail(s) \o t) = Len(s) - 1 + Len(t)
      /\ \A k \in 1 .. Len(s) - 1 : (Tail(s) \o t)[k] = Tail(s)[k]
      /\ \A k \in Len(s) .. Len(s) - 1 + Len(t) : (Tail(s) \o t)[k] = t[k - (Len(s) - 1)]
  BY <1>1, <1>2, ConcatProperties
<1>6. ASSUME NEW k \in 1 .. Len(Tail(s) \o t)
      PROVE  Tail(s \o t)[k] = (Tail(s) \o t)[k]
  <2>1. CASE k <= Len(s) - 1
    BY <1>1, <1>2, <1>4, <1>5, <2>1
  <2>2. CASE ~(k <= Len(s) - 1)
    <3>1. k \in Len(s) .. Len(s) - 1 + Len(t) /\ k + 1 \in Len(s) + 1 .. Len(s) + Len(t)
      BY <1>1, <1>5, <2>2
    <3>2. (k + 1) - Len(s) = k - (Len(s) - 1)
      BY <1>1, <3>1
    <3> QED
      BY <1>1, <1>4, <1>5, <3>1, <3>2
  <2> QED
    BY <2>1, <2>2
<1>7. Tail(s \o t) = Tail(s) \o t
  BY <1>1, <1>4, <1>5, <1>6, SeqEqual
<1> QED
  BY <1>1, <1>2, <1>3, <1>4, <1>7

-----------------------------------------------------------------------------
(* What comes first in a queue *)

\* A message of T is in the queue and none of A is ahead of it; or none of A is
\* in the queue at all.
Before(s, T, A) == \E k \in 1 .. Len(s) : s[k] \in T /\ \A j \in 1 .. k - 1 : s[j] \notin A
Avoids(s, A)    == \A k \in 1 .. Len(s) : s[k] \notin A

\* What comes later does not come first.
LEMMA BeforeGrows ==
    ASSUME NEW S, NEW s \in Seq(S), NEW t \in Seq(S), NEW T, NEW A
    PROVE  /\ Before(s, T, A) => Before(s \o t, T, A)
           /\ Avoids(s, A) /\ Avoids(t, A) => Avoids(s \o t, A)
           /\ Avoids(s, A) /\ Before(t, T, A) => Before(s \o t, T, A)
<1>1. /\ Len(s) \in Nat
      /\ Len(t) \in Nat
      /\ Len(s \o t) = Len(s) + Len(t)
      /\ \A k \in 1 .. Len(s) : (s \o t)[k] = s[k]
      /\ \A k \in Len(s) + 1 .. Len(s) + Len(t) : (s \o t)[k] = t[k - Len(s)]
  BY ConcatProperties, LenProperties
<1>2. ASSUME Before(s, T, A)
      PROVE  Before(s \o t, T, A)
  <2>1. PICK k \in 1 .. Len(s) : s[k] \in T /\ \A j \in 1 .. k - 1 : s[j] \notin A
    BY <1>2 DEF Before
  <2>2. k \in 1 .. Len(s \o t) /\ \A j \in 1 .. k - 1 : j \in 1 .. Len(s)
    BY <1>1
  <2> QED
    BY <1>1, <2>1, <2>2 DEF Before
<1>3. ASSUME NEW k \in 1 .. Len(s \o t), k \notin 1 .. Len(s)
      PROVE  /\ k \in Len(s) + 1 .. Len(s) + Len(t)
             /\ k - Len(s) \in 1 .. Len(t)
  BY <1>1, <1>3
<1>4. ASSUME Avoids(s, A), Avoids(t, A)
      PROVE  Avoids(s \o t, A)
  <2> SUFFICES ASSUME NEW k \in 1 .. Len(s \o t)
               PROVE  (s \o t)[k] \notin A
    BY DEF Avoids
  <2>1. CASE k \in 1 .. Len(s)
    BY <1>1, <1>4, <2>1 DEF Avoids
  <2>2. CASE k \notin 1 .. Len(s)
    BY <1>1, <1>3, <1>4, <2>2 DEF Avoids
  <2> QED
    BY <2>1, <2>2
<1>5. ASSUME Avoids(s, A), Before(t, T, A)
      PROVE  Before(s \o t, T, A)
  <2>1. PICK k \in 1 .. Len(t) : t[k] \in T /\ \A j \in 1 .. k - 1 : t[j] \notin A
    BY <1>5 DEF Before
  <2>2. /\ Len(s) + k \in Len(s) + 1 .. Len(s) + Len(t)
        /\ Len(s) + k \in 1 .. Len(s \o t)
        /\ (Len(s) + k) - Len(s) = k
    BY <1>1
  <2>3. (s \o t)[Len(s) + k] \in T
    BY <1>1, <2>1, <2>2
  <2>4. ASSUME NEW j \in 1 .. (Len(s) + k) - 1
        PROVE  (s \o t)[j] \notin A
    <3>1. CASE j \in 1 .. Len(s)
      BY <1>1, <1>5, <3>1 DEF Avoids
    <3>2. CASE j \notin 1 .. Len(s)
      <4>1. j \in Len(s) + 1 .. Len(s) + Len(t) /\ j - Len(s) \in 1 .. k - 1
        BY <1>1, <3>2
      <4> QED
        BY <1>1, <2>1, <4>1
    <3> QED
      BY <3>1, <3>2
  <2> QED
    BY <2>2, <2>3, <2>4 DEF Before
<1> QED
  BY <1>2, <1>4, <1>5

\* What comes first is taken, or comes first in the rest.
LEMMA FirstIsTaken ==
    ASSUME NEW S, NEW s \in Seq(S), s # <<>>, NEW T, NEW A
    PROVE  /\ Before(s, T, A) =>
                Head(s) \in T \/ (Head(s) \notin A /\ Before(Tail(s), T, A))
           /\ Avoids(s, A) => Head(s) \notin A /\ Avoids(Tail(s), A)
<1>1. /\ Len(s) \in Nat
      /\ Len(s) > 0
      /\ Len(Tail(s)) = Len(s) - 1
      /\ Head(s) = s[1]
      /\ \A k \in 1 .. Len(Tail(s)) : Tail(s)[k] = s[k + 1]
  BY HeadTailProperties, LenProperties
<1>2. ASSUME Before(s, T, A), Head(s) \notin T
      PROVE  Head(s) \notin A /\ Before(Tail(s), T, A)
  <2>1. PICK k \in 1 .. Len(s) : s[k] \in T /\ \A j \in 1 .. k - 1 : s[j] \notin A
    BY <1>2 DEF Before
  <2>2. k # 1 /\ 1 \in 1 .. k - 1 /\ k - 1 \in 1 .. Len(Tail(s)) /\ (k - 1) + 1 = k
    BY <1>1, <1>2, <2>1
  <2>3. Tail(s)[k - 1] \in T
    BY <1>1, <2>1, <2>2
  <2>4. ASSUME NEW j \in 1 .. (k - 1) - 1
        PROVE  Tail(s)[j] \notin A
    <3>1. j + 1 \in 1 .. k - 1 /\ j \in 1 .. Len(Tail(s))
      BY <1>1
    <3> QED
      BY <1>1, <2>1, <3>1
  <2> QED
    BY <1>1, <2>1, <2>2, <2>3, <2>4 DEF Before
<1>3. ASSUME Avoids(s, A)
      PROVE  Head(s) \notin A /\ Avoids(Tail(s), A)
  <2>1. 1 \in 1 .. Len(s) /\ \A k \in 1 .. Len(Tail(s)) : k + 1 \in 1 .. Len(s)
    BY <1>1
  <2> QED
    BY <1>1, <1>3, <2>1 DEF Avoids
<1> QED
  BY <1>2, <1>3

\* In a queue that avoids A, whatever there is comes before any of A.
LEMMA PresentIsBefore ==
    ASSUME NEW S, NEW s \in Seq(S), NEW T, NEW A, Avoids(s, A), NEW m \in Range(s), m \in T
    PROVE  Before(s, T, A)
<1>1. PICK k \in 1 .. Len(s) : s[k] = m
  BY RangeEquality
<1>2. \A j \in 1 .. k - 1 : j \in 1 .. Len(s)
  BY LenProperties
<1> QED
  BY <1>1, <1>2 DEF Before, Avoids

\* The fewer there are to be ahead of, the easier.
LEMMA BeforeFewer ==
    ASSUME NEW s, NEW T, NEW A, NEW B, B \subseteq A
    PROVE  /\ Before(s, T, A) => Before(s, T, B)
           /\ Avoids(s, A) => Avoids(s, B)
BY DEF Before, Avoids

\* Appending twice is appending once.
LEMMA AppendsTwice ==
    ASSUME NEW S, NEW s \in Seq(S), NEW t \in Seq(S), NEW u \in Seq(S)
    PROVE  s \o (t \o u) = (s \o t) \o u
BY ConcatAssociative

-----------------------------------------------------------------------------
(* Calls on an object in the order they travel *)

\* A message that ends object i.
EndsAt(m, i) == Ends(m) /\ m.object = i

\* What ends an object is the last call on it in the sequence.
EndsComeLast(s) ==
    \A k \in 1 .. Len(s) : \A j \in 1 .. k - 1 :
        s[k].type = "GENERIC" => ~EndsAt(s[j], s[k].object)

\* It stays so when the first message is taken, and none of the others calls
\* what that one ends.
LEMMA EndsComeLastTail ==
    ASSUME NEW S, NEW s \in Seq(S), s # <<>>, EndsComeLast(s)
    PROVE  /\ EndsComeLast(Tail(s))
           /\ \A m \in Range(Tail(s)) : m.type = "GENERIC" => ~EndsAt(Head(s), m.object)
<1> DEFINE t == Tail(s)
<1>1. /\ t \in Seq(S)
      /\ Head(s) = s[1]
      /\ Len(s) \in Nat
      /\ Len(t) = Len(s) - 1
      /\ \A k \in 1 .. Len(t) : t[k] = s[k + 1]
  BY HeadTailProperties, LenProperties
<1>2. \A k \in 1 .. Len(t) : k + 1 \in 1 .. Len(s) /\ 1 \in 1 .. (k + 1) - 1
  BY <1>1
<1> HIDE DEF t
<1>3. ASSUME NEW k \in 1 .. Len(t), NEW j \in 1 .. k - 1, t[k].type = "GENERIC"
      PROVE  ~EndsAt(t[j], t[k].object)
  <2>1. j + 1 \in 1 .. (k + 1) - 1 /\ j \in 1 .. Len(t)
    BY <1>1
  <2> QED
    BY <1>1, <1>2, <1>3, <2>1 DEF EndsComeLast
<1>4. ASSUME NEW k \in 1 .. Len(t), t[k].type = "GENERIC"
      PROVE  ~EndsAt(Head(s), t[k].object)
  BY <1>1, <1>2, <1>4 DEF EndsComeLast
<1>5. Range(t) = {t[k] : k \in 1 .. Len(t)}
  BY <1>1, RangeEquality
<1>6. EndsComeLast(t)
  BY <1>3 DEF EndsComeLast
<1> QED
  BY <1>4, <1>5, <1>6 DEF t

\* Two sequences of which the first ends nothing the second calls make one.
LEMMA EndsComeLastJoined ==
    ASSUME NEW S, NEW s \in Seq(S), NEW t \in Seq(S), EndsComeLast(s), EndsComeLast(t),
           \A n \in Range(s), m \in Range(t) : m.type = "GENERIC" => ~EndsAt(n, m.object)
    PROVE  EndsComeLast(s \o t)
<1> DEFINE u == s \o t
<1>1. /\ Len(s) \in Nat
      /\ Len(t) \in Nat
      /\ Len(u) = Len(s) + Len(t)
      /\ \A k \in 1 .. Len(s) : u[k] = s[k] /\ s[k] \in Range(s)
      /\ \A k \in 1 .. Len(t) : u[k + Len(s)] = t[k] /\ t[k] \in Range(t)
  BY ConcatProperties, LenProperties, RangeEquality
<1> SUFFICES ASSUME NEW k \in 1 .. Len(u), NEW j \in 1 .. k - 1, u[k].type = "GENERIC"
             PROVE  ~EndsAt(u[j], u[k].object)
  BY DEF EndsComeLast
<1> HIDE DEF u
<1>2. CASE k \in 1 .. Len(s)
  <2>1. j \in 1 .. Len(s)
    BY <1>1, <1>2
  <2> QED
    BY <1>1, <1>2, <2>1 DEF EndsComeLast
<1>3. CASE k \notin 1 .. Len(s)
  <2>1. PICK i \in 1 .. Len(t) : k = i + Len(s)
    <3>1. k - Len(s) \in 1 .. Len(t) /\ k = (k - Len(s)) + Len(s)
      BY <1>1, <1>3
    <3> QED
      BY <3>1
  <2>2. CASE j \in 1 .. Len(s)
    BY <1>1, <2>1, <2>2
  <2>3. CASE j \notin 1 .. Len(s)
    <3>1. PICK h \in 1 .. i - 1 : j = h + Len(s)
      <4>1. j - Len(s) \in 1 .. i - 1 /\ j = (j - Len(s)) + Len(s)
        BY <1>1, <2>1, <2>3
      <4> QED
        BY <4>1
    <3>2. h \in 1 .. Len(t)
      BY <1>1
    <3> QED
      BY <1>1, <2>1, <3>1, <3>2 DEF EndsComeLast
  <2> QED
    BY <2>2, <2>3
<1> QED
  BY <1>2, <1>3
=============================================================================
