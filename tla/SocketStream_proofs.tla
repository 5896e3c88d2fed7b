------------------------ MODULE SocketStream_proofs ------------------------
(***************************************************************************)
(* Theorems about the bytes of a connection, for every size of the buffer, *)
(* of the kernel's pieces and queues, and of the messages.                 *)
(***************************************************************************)
EXTENDS SocketStream, WellFoundedInduction, TLAPS

\* One step of one end.
Acts(e) == SendMessage(e) \/ Goes(e) \/ Quit(e)

\* A non-empty set of numbers has a least one.
LEMMA LeastExists ==
    ASSUME NEW T \in SUBSET Nat, T # {}
    PROVE  \E x \in T : \A y \in T : x <= y
<1> DEFINE R == OpToRel(<, Nat)
<1>1. \E x \in T : \A y \in T : <<y, x>> \notin R
  <2>1. IsWellFoundedOn(R, Nat)
    BY NatLessThanWellFounded
  <2> HIDE DEF R
  <2> QED
    BY <2>1, WFMin
<1>2. PICK x \in T : \A y \in T : <<y, x>> \notin R
  BY <1>1
<1>3. ASSUME NEW y \in T PROVE x <= y
  <2>1. x \in Nat /\ y \in Nat
    OBVIOUS
  <2>2. <<y, x>> \notin {p \in Nat \X Nat : p[1] < p[2]}
    BY <1>2 DEF OpToRel
  <2> QED
    BY <2>1, <2>2
<1> QED
  BY <1>3

\* Every end has another for its peer.
LEMMA Peers == \A e \in Ends : Peer(e) \in Ends /\ Peer(e) # e /\ Peer(Peer(e)) = e
BY DEF Ends, Peer

-----------------------------------------------------------------------------
\* Giving the peer up keeps the types of what it changes.
LEMMA GiveUpType ==
    ASSUME TypeOK, NEW e \in Ends, NEW why \in {"hangup", "bad", "malformed"}, GiveUp(e, why)
    PROVE  /\ sent' \in [Ends -> Seq(Lengths)]
           /\ rest' \in [Ends -> Nat]
           /\ doing' \in [Ends -> {"running", "writing", "reading"}]
           /\ open' \in [Ends -> BOOLEAN]
           /\ outcome' \in [Ends -> {"none", "quit", "hangup", "bad", "malformed"}]
<1>1. outcome' \in [Ends -> {"none", "quit", "hangup", "bad", "malformed"}]
  BY DEF TypeOK, GiveUp
<1>2. CASE e = "server" /\ why \in {"bad", "malformed"}
  <2>1. /\ sent' = [sent EXCEPT ![e] = Append(@, FatalLength)]
        /\ rest' = [rest EXCEPT ![e] = FatalLength]
        /\ doing' = [doing EXCEPT ![e] = "writing"]
        /\ open' = open
    BY <1>2 DEF GiveUp
  <2>2. FatalLength \in Lengths /\ FatalLength \in Nat
    BY StreamAssumption DEF StreamAssumption
  <2> QED
    BY <1>1, <2>1, <2>2 DEF TypeOK
<1>3. CASE ~(e = "server" /\ why \in {"bad", "malformed"})
  <2>1. /\ open' = [open EXCEPT ![e] = FALSE]
        /\ doing' = [doing EXCEPT ![e] = "running"]
        /\ UNCHANGED <<sent, rest>>
    BY <1>3 DEF GiveUp
  <2> QED
    BY <1>1, <2>1 DEF TypeOK
<1> QED
  BY <1>2, <1>3

\* Each step of each end keeps the type invariant.
LEMMA TypeStep == TypeOK /\ [Next]_vars => TypeOK'
<1> SUFFICES ASSUME TypeOK, [Next]_vars PROVE TypeOK'
  OBVIOUS
<1> USE DEF TypeOK
<1>1. ASSUME NEW e \in Ends, Acts(e) PROVE TypeOK'
  <2>1. CASE SendMessage(e)
    BY <2>1, StreamAssumption DEF SendMessage, StreamAssumption
  <2>2. CASE QueueChunk(e)
    <3> DEFINE n == Least(Chunk, rest[e])
    <3>1. n \in Nat /\ rest[e] - n \in Nat
      <4>1. rest[e] \in Nat /\ Chunk \in Nat
        BY StreamAssumption DEF StreamAssumption
      <4> QED
        BY <4>1 DEF Least
    <3>2. /\ written' = [written EXCEPT ![e] = @ + n]
          /\ rest' = [rest EXCEPT ![e] = @ - n]
          /\ ends' = ends \/ ends' = [ends EXCEPT ![e] = @ \cup {written[e] + n}]
          /\ doing' = doing \/ doing' = [doing EXCEPT ![e] = "running"]
          /\ UNCHANGED <<sent, torn, read, handled, open, outcome, garbled>>
      BY <2>2 DEF QueueChunk
    <3> HIDE DEF n
    <3>3. written' \in [Ends -> Nat] /\ \A d \in Ends : written[d] <= written'[d]
      BY <3>1, <3>2
    <3>4. rest' \in [Ends -> Nat]
      BY <3>1, <3>2
    <3>5. ends' \in [Ends -> SUBSET Nat]
      <4>1. written[e] + n \in Nat /\ ends \in [Ends -> SUBSET Nat]
        BY <3>1
      <4> HIDE DEF TypeOK
      <4> QED
        BY <4>1, <3>2
    <3>6. \A d \in Ends : handled'[d] <= read'[d] /\ read'[d] <= written'[d]
      BY <3>2, <3>3
    <3> QED
      BY <3>2, <3>3, <3>4, <3>5, <3>6
  <2>3. CASE StopPartly(e)
    BY <2>3 DEF StopPartly
  <2>4. CASE SendFails(e)
    BY <2>4 DEF SendFails
  <2>10. CASE Poll(e)
    BY <2>10 DEF Poll
  <2>5. CASE Receive(e)
    <3> DEFINE p == Peer(e)
               n == Least(Buffer, Waiting(p))
    <3>1. p \in Ends /\ n \in Nat /\ read[p] + n <= written[p]
      <4>1. p \in Ends
        BY Peers
      <4>2. /\ Buffer \in Nat /\ read[p] \in Nat /\ written[p] \in Nat
            /\ read[p] <= written[p]
        BY <4>1, StreamAssumption DEF StreamAssumption
      <4> HIDE DEF p, TypeOK
      <4> QED
        BY <4>1, <4>2 DEF Least, Waiting
    <3>2. /\ read' = [read EXCEPT ![p] = @ + n]
          /\ doing' = doing \/ doing' = [doing EXCEPT ![e] = "running"]
          /\ UNCHANGED <<sent, rest, written, ends, torn, handled, open, outcome, garbled>>
      BY <2>5 DEF Receive
    <3> HIDE DEF n, p
    <3>3. read' \in [Ends -> Nat]
      BY <3>1, <3>2
    <3>4. \A d \in Ends : handled'[d] <= read'[d] /\ read'[d] <= written'[d]
      BY <3>1, <3>2
    <3> QED
      BY <3>2, <3>3, <3>4
  <2>6. CASE ReceiveWouldBlock(e)
    BY <2>6, GiveUpType DEF ReceiveWouldBlock
  <2>7. CASE ReceiveEnd(e)
    <3>1. CASE GiveUp(e, "bad") \/ GiveUp(e, "hangup")
      BY <2>7, <3>1, GiveUpType DEF ReceiveEnd
    <3>2. CASE doing' = [doing EXCEPT ![e] = "running"] /\ UNCHANGED <<sent, rest, open, outcome>>
      BY <2>7, <3>2 DEF ReceiveEnd
    <3> QED
      BY <2>7, <3>1, <3>2 DEF ReceiveEnd
  <2>8. CASE HandleMessage(e)
    <3> DEFINE p == Peer(e)
    <3>1. p \in Ends
      BY Peers
    <3>2. CASE \E x \in WholeMessage(e) \cup Misread(e) :
                 /\ handled' = [handled EXCEPT ![p] = x]
                 /\ garbled' \in {garbled, [garbled EXCEPT ![e] = TRUE]}
                 /\ UNCHANGED <<sent, rest, doing, open, outcome>>
      <4>1. PICK x \in WholeMessage(e) \cup Misread(e) :
                 /\ handled' = [handled EXCEPT ![p] = x]
                 /\ garbled' \in {garbled, [garbled EXCEPT ![e] = TRUE]}
                 /\ UNCHANGED <<sent, rest, doing, open, outcome>>
        BY <3>2
      <4>2. x \in Nat /\ x <= read[p]
        BY <3>1 DEF WholeMessage, Misread
      <4>3. UNCHANGED <<written, ends, torn, read>>
        BY <2>8 DEF HandleMessage
      <4> HIDE DEF p
      <4> QED
        BY <3>1, <4>1, <4>2, <4>3
    <3>3. CASE GiveUp(e, "malformed") /\ UNCHANGED <<handled, garbled>>
      BY <2>8, <3>3, GiveUpType DEF HandleMessage
    <3> QED
      BY <2>8, <3>2, <3>3 DEF HandleMessage
  <2>9. CASE Drop(e) \/ Quit(e)
    BY <2>9 DEF Drop, Quit
  <2> QED
    BY <1>1, <2>1, <2>2, <2>3, <2>4, <2>5, <2>6, <2>7, <2>8, <2>9, <2>10 DEF Acts, Goes
<1>2. CASE UNCHANGED vars
  BY <1>2 DEF vars
<1> QED
  BY <1>1, <1>2 DEF Next, Acts

\* Every variable always has its type, and nothing is read before it was
\* written or handled before it was read.
THEOREM TypeCorrect == Spec => []TypeOK
<1>1. Init => TypeOK
  BY DEF Init, TypeOK
<1> QED
  BY <1>1, TypeStep, PTL DEF Spec

-----------------------------------------------------------------------------
(* Full reads *)

\* An end that reads has not given its peer up.
Trusting == \A e \in Ends : doing[e] = "reading" => outcome[e] = "none"

\* What e has to take apart is a number of full buffers.
FullReads(e) == \E k \in 0 .. read[Peer(e)] : Got(e) = k * Buffer

\* The condition OnlyFullReadsGoOn puts on e.
Suspects(e) == doing[e] = "reading" \/ (outcome[e] = "bad" /\ ~WasReset(e))

\* A read begins with an end that is content, and giving up ends it.
LEMMA TrustingStep == TypeOK /\ Trusting /\ [Next]_vars => Trusting'
<1> SUFFICES ASSUME TypeOK, Trusting, [Next]_vars PROVE Trusting'
  OBVIOUS
<1>1. ASSUME NEW e \in Ends, Acts(e) PROVE Trusting'
  BY <1>1 DEF TypeOK, Trusting, Acts, Goes, SendMessage, QueueChunk, StopPartly, SendFails, Poll,
     Receive, ReceiveWouldBlock, ReceiveEnd, HandleMessage, GiveUp, Drop, Quit
<1>2. CASE UNCHANGED vars
  BY <1>2 DEF vars, Trusting
<1> QED
  BY <1>1, <1>2 DEF Next, Acts

\* A read that goes on filled its buffer; any other leaves the condition.
LEMMA FullReadsOwnStep ==
    ASSUME TypeOK, Trusting, NEW e \in Ends, Acts(e), Suspects(e) => FullReads(e)
    PROVE  Suspects(e)' => FullReads(e)'
<1> SUFFICES ASSUME Suspects(e)' PROVE FullReads(e)'
  OBVIOUS
<1> DEFINE p == Peer(e)
<1>1. p \in Ends /\ p # e
  BY Peers
<1>2. CASE UNCHANGED <<read, handled>> /\ Suspects(e)
  BY <1>2 DEF FullReads, Got
<1>3. CASE Poll(e)
  <2>1. Got(e) = 0 /\ UNCHANGED <<read, handled>> /\ read[p] \in Nat
    BY <1>1, <1>3 DEF Poll, TypeOK
  <2>2. 0 \in 0 .. read[p] /\ 0 = 0 * Buffer
    BY <2>1, StreamAssumption DEF StreamAssumption
  <2> QED
    BY <2>1, <2>2 DEF FullReads, Got
<1>4. CASE Receive(e)
  <2> DEFINE n == Least(Buffer, Waiting(p))
  <2>1. PICK k \in 0 .. read[p] : Got(e) = k * Buffer
    BY <1>4 DEF Receive, Suspects, FullReads
  <2>2. RereadAfter(n)
    <3>1. ~RereadAfter(n) => doing'[e] = "running" /\ outcome'[e] = "none"
      BY <1>4 DEF Receive, Trusting, TypeOK
    <3> QED
      BY <3>1 DEF Suspects
  <2>3. n = Buffer
    BY <2>2 DEF RereadAfter
  <2>4. read'[p] = read[p] + Buffer /\ handled'[p] = handled[p]
    BY <1>1, <1>4, <2>3 DEF Receive, TypeOK
  <2>5. /\ Buffer \in Nat \ {0} /\ read[p] \in Nat /\ handled[p] \in Nat /\ k \in Nat
        /\ k <= read[p] /\ read[p] - handled[p] = k * Buffer
    BY <1>1, <2>1, StreamAssumption DEF TypeOK, StreamAssumption, Got
  <2>6. (k + 1) * Buffer = k * Buffer + Buffer
    BY <2>5
  <2>7. k + 1 \in 0 .. read'[p]
    BY <2>4, <2>5
  <2>8. read'[p] - handled'[p] = (k + 1) * Buffer
    <3> DEFINE m == k * Buffer
    <3>1. m \in Nat /\ read[p] - handled[p] = m /\ (k + 1) * Buffer = m + Buffer
      BY <2>5, <2>6
    <3> HIDE DEF m
    <3> QED
      BY <2>4, <2>5, <3>1
  <2> QED
    BY <2>7, <2>8 DEF FullReads, Got
<1>5. CASE QueueChunk(e) \/ StopPartly(e) \/ SendFails(e) \/ SendMessage(e) \/ Drop(e) \/ Quit(e)
  <2>1. /\ UNCHANGED <<read, handled>>
        /\ doing'[e] # "reading"
        /\ outcome'[e] \in {outcome[e], "quit"}
    BY <1>5 DEF QueueChunk, StopPartly, SendFails, SendMessage, Drop, Quit, TypeOK
  <2>2. WasReset(e) => WasReset(e)'
    BY <1>1, <1>5 DEF WasReset, Waiting, QueueChunk, StopPartly, SendFails, SendMessage, Drop,
       Quit, TypeOK
  <2>3. Suspects(e)
    BY <2>1, <2>2 DEF Suspects
  <2> QED
    BY <1>2, <2>1, <2>3
<1>6. CASE ReceiveWouldBlock(e) \/ ReceiveEnd(e)
  <2>1. UNCHANGED <<read, handled>> /\ doing[e] = "reading"
    BY <1>6 DEF ReceiveWouldBlock, ReceiveEnd
  <2> QED
    BY <1>2, <2>1 DEF Suspects
<1>7. CASE HandleMessage(e)
  <2>1. doing'[e] # "reading" /\ outcome'[e] \in {"none", "malformed"}
    BY <1>7 DEF HandleMessage, GiveUp, TypeOK
  <2> QED
    BY <2>1 DEF Suspects
<1> QED
  BY <1>3, <1>4, <1>5, <1>6, <1>7 DEF Acts, Goes

\* What its peer does changes nothing of that: a peer that has closed its end
\* does nothing any more.
LEMMA FullReadsPeerStep ==
    ASSUME TypeOK, NEW e \in Ends, Acts(Peer(e)), Suspects(e) => FullReads(e)
    PROVE  Suspects(e)' => FullReads(e)'
<1> DEFINE p == Peer(e)
<1>1. p \in Ends /\ p # e /\ Peer(p) = e
  BY Peers
<1>2. open[p]
  BY DEF Acts, Goes, SendMessage, QueueChunk, StopPartly, SendFails, Poll,
     Receive, ReceiveWouldBlock, ReceiveEnd, HandleMessage, Drop, Quit
<1>3. /\ doing'[e] = doing[e] /\ outcome'[e] = outcome[e]
      /\ read'[p] = read[p] /\ handled'[p] = handled[p]
  <2> HIDE DEF p
  <2>1. Acts(p)
    BY DEF p
  <2> QED
    BY <1>1, <2>1 DEF TypeOK, Acts, Goes, SendMessage, QueueChunk, StopPartly, SendFails, Poll,
       Receive, ReceiveWouldBlock, ReceiveEnd, HandleMessage, GiveUp, Drop, Quit
<1>4. ~WasReset(e)
  BY <1>2 DEF WasReset
<1> QED
  BY <1>3, <1>4 DEF Suspects, FullReads, Got

\* A read that goes on, and one a client takes for a bad message though its peer
\* is there, has so far returned full buffers only.
THEOREM FullReadsOnly == Spec => []OnlyFullReadsGoOn
<1>1. Init => Trusting /\ \A e \in Ends : Suspects(e) => FullReads(e)
  BY DEF Init, Trusting, Suspects
<1>2. TypeOK /\ Trusting /\ (\A e \in Ends : Suspects(e) => FullReads(e)) /\ [Next]_vars
        => (\A e \in Ends : Suspects(e) => FullReads(e))'
  <2> SUFFICES ASSUME TypeOK, Trusting, \A e \in Ends : Suspects(e) => FullReads(e),
                      [Next]_vars, NEW e \in Ends
               PROVE  Suspects(e)' => FullReads(e)'
    OBVIOUS
  <2>1. CASE Acts(e)
    BY <2>1, FullReadsOwnStep
  <2>2. CASE Acts(Peer(e))
    BY <2>2, FullReadsPeerStep
  <2>3. CASE UNCHANGED vars
    BY <2>3 DEF vars, Suspects, FullReads, Got, WasReset, Waiting
  <2> QED
    BY <2>1, <2>2, <2>3 DEF Next, Acts, Ends, Peer
<1>3. (\A e \in Ends : Suspects(e) => FullReads(e)) => OnlyFullReadsGoOn
  BY DEF Suspects, FullReads, OnlyFullReadsGoOn
<1> QED
  BY <1>1, <1>2, <1>3, TrustingStep, TypeCorrect, PTL DEF Spec

-----------------------------------------------------------------------------
(* Whole messages *)

\* Of a writer whose messages each fit in one piece of the kernel's: it is never
\* stopped in the middle of one, and its peer, unless it is reading, has read up
\* to the end of one and handled up to the end of one.
Tidy(e) ==
    /\ torn[e] = {}
    /\ doing[e] = "writing" => rest[e] <= Chunk /\ ~Begun(e)
    /\ written[e] \in ends[e] \cup {0}
    /\ handled[e] \in ends[e] \cup {0}
    /\ doing[Peer(e)] # "reading" => read[e] \in ends[e] \cup {0}
    /\ outcome[Peer(e)] # "malformed"
    /\ garbled[Peer(e)] = FALSE

\* What e has sent only grows.
LEMMA ShortBefore ==
    ASSUME TypeOK, NEW e \in Ends, NEW n \in Nat, SendsShort(e)',
           sent'[e] = sent[e] \/ sent'[e] = Append(sent[e], n)
    PROVE  SendsShort(e)
<1> sent[e] \in Seq(Lengths)
  BY DEF TypeOK
<1>1. CASE sent'[e] = sent[e]
  BY <1>1 DEF SendsShort
<1>2. CASE sent'[e] = Append(sent[e], n)
  <2> SUFFICES ASSUME NEW i \in DOMAIN sent[e] PROVE sent[e][i] <= Chunk
    BY DEF SendsShort
  <2>1. i \in DOMAIN sent'[e] /\ sent'[e][i] = sent[e][i]
    BY <1>2
  <2> QED
    BY <2>1 DEF SendsShort
<1> QED
  BY <1>1, <1>2

\* A message that was only begun to be sent is whole.
Undertaken(e) == \E n \in Lengths : sent'[e] = Append(sent[e], n) /\ rest'[e] = n

\* What an end's step does to what it writes, unless it is the kernel's.
LEMMA WriterFrame ==
    ASSUME TypeOK, NEW e \in Ends, Acts(e), ~QueueChunk(e), ~StopPartly(e)
    PROVE  /\ UNCHANGED <<torn, written, ends>>
           /\ sent'[e] = sent[e] \/ Undertaken(e)
           /\ doing'[e] = "writing" => Undertaken(e)
<1>1. ASSUME NEW why \in {"hangup", "bad", "malformed"}, GiveUp(e, why)
      PROVE  /\ sent'[e] = sent[e] \/ Undertaken(e)
             /\ doing'[e] = "writing" => Undertaken(e)
  <2>1. FatalLength \in Lengths
    BY StreamAssumption DEF StreamAssumption
  <2> QED
    BY <1>1, <2>1 DEF GiveUp, TypeOK, Undertaken
<1>2. CASE SendMessage(e)
  BY <1>2 DEF SendMessage, TypeOK, Undertaken
<1>3. CASE SendFails(e) \/ Poll(e) \/ Receive(e) \/ Drop(e) \/ Quit(e)
  BY <1>3 DEF SendFails, Poll, Receive, Drop, Quit, TypeOK
<1>4. CASE ReceiveWouldBlock(e) \/ ReceiveEnd(e) \/ HandleMessage(e)
  BY <1>1, <1>4 DEF ReceiveWouldBlock, ReceiveEnd, HandleMessage, TypeOK
<1> QED
  BY <1>2, <1>3, <1>4 DEF Acts, Goes

\* Nor does it touch what the peer has done with what e wrote.
LEMMA ReaderFrame ==
    ASSUME TypeOK, NEW e \in Ends, Acts(e)
    PROVE  /\ handled'[e] = handled[e] /\ read'[e] = read[e]
           /\ doing'[Peer(e)] = doing[Peer(e)]
           /\ outcome'[Peer(e)] = outcome[Peer(e)]
           /\ garbled'[Peer(e)] = garbled[Peer(e)]
<1> DEFINE p == Peer(e)
<1>1. p \in Ends /\ p # e
  BY Peers
<1> HIDE DEF p
<1>2. /\ handled' = handled \/ \E x : handled' = [handled EXCEPT ![p] = x]
      /\ read' = read \/ \E x : read' = [read EXCEPT ![p] = x]
      /\ doing' = doing \/ \E x : doing' = [doing EXCEPT ![e] = x]
      /\ outcome' = outcome \/ \E x : outcome' = [outcome EXCEPT ![e] = x]
      /\ garbled' = garbled \/ \E x : garbled' = [garbled EXCEPT ![e] = x]
  BY DEF p, Acts, Goes, SendMessage, QueueChunk, StopPartly, SendFails, Poll, Receive,
     ReceiveWouldBlock, ReceiveEnd, HandleMessage, GiveUp, Drop, Quit
<1>3. /\ handled'[e] = handled[e] /\ read'[e] = read[e]
      /\ doing'[p] = doing[p] /\ outcome'[p] = outcome[p] /\ garbled'[p] = garbled[p]
  BY <1>1, <1>2 DEF TypeOK
<1> QED
  BY <1>3 DEF p

\* Such a writer hands each message to the kernel whole.
LEMMA TidyWriterStep ==
    ASSUME TypeOK, NEW e \in Ends, Acts(e), SendsShort(e)', SendsShort(e) => Tidy(e)
    PROVE  Tidy(e)'
<1> sent[e] \in Seq(Lengths) /\ Lengths \subseteq Nat \ {0}
  BY StreamAssumption DEF TypeOK, StreamAssumption
<1>1. CASE ~QueueChunk(e) /\ ~StopPartly(e)
  <2>1. Tidy(e)
    BY <1>1, WriterFrame, ShortBefore DEF Undertaken
  <2>2. Undertaken(e) => rest'[e] <= Chunk /\ ~Begun(e)'
    <3> SUFFICES ASSUME NEW n \in Lengths, sent'[e] = Append(sent[e], n), rest'[e] = n
                 PROVE  rest'[e] <= Chunk /\ ~Begun(e)'
      BY DEF Undertaken
    <3>1. Len(sent'[e]) \in DOMAIN sent'[e] /\ sent'[e][Len(sent'[e])] = n
      OBVIOUS
    <3> QED
      BY <3>1 DEF SendsShort, Begun
  <2> QED
    BY <1>1, <2>1, <2>2, WriterFrame, ReaderFrame DEF Tidy
<1>2. CASE QueueChunk(e)
  <2>1. sent' = sent /\ torn' = torn /\ doing[e] = "writing"
    BY <1>2 DEF QueueChunk
  <2>2. Tidy(e)
    BY <2>1, ShortBefore
  <2>3. rest[e] \in Nat /\ Chunk \in Nat /\ rest[e] <= Chunk
    BY <2>1, <2>2, StreamAssumption DEF Tidy, TypeOK, StreamAssumption
  <2>4. Least(Chunk, rest[e]) = rest[e]
    BY <2>3 DEF Least
  <2>5. /\ written'[e] = written[e] + rest[e]
        /\ ends'[e] = ends[e] \cup {written[e] + rest[e]}
        /\ doing'[e] = "running"
    BY <1>2, <2>4 DEF QueueChunk, TypeOK
  <2> QED
    BY <2>1, <2>2, <2>5, ReaderFrame DEF Tidy
<1>3. CASE StopPartly(e)
  <2>1. sent' = sent /\ doing[e] = "writing" /\ Begun(e)
    BY <1>3 DEF StopPartly
  <2>2. Tidy(e)
    BY <2>1, ShortBefore
  <2> QED
    BY <2>1, <2>2 DEF Tidy
<1> QED
  BY <1>1, <1>2, <1>3

\* Where the last message read ends there is one that can be handled.
LEMMA WholeMessageThere ==
    ASSUME TypeOK, NEW e \in Ends, NEW p \in Ends, Peer(e) = p, torn[p] = {}, garbled[e] = FALSE,
           read[p] \in ends[p] \cup {0}, handled[p] < read[p]
    PROVE  WholeMessage(e) # {}
<1> DEFINE T == {x \in ends[p] : handled[p] < x /\ x <= read[p]}
<1>1. /\ ends[p] \subseteq Nat /\ handled[p] \in Nat /\ read[p] \in Nat
  BY DEF TypeOK
<1>2. T \in SUBSET Nat /\ read[p] \in T
  BY <1>1
<1>3. PICK x \in T : \A y \in T : x <= y
  <2> HIDE DEF T
  <2> QED
    BY <1>2, LeastExists
<1>4. \A y \in ends[p] \cup torn[p] : y <= handled[p] \/ x <= y
  <2> SUFFICES ASSUME NEW y \in ends[p], ~(y <= handled[p]) PROVE x <= y
    OBVIOUS
  <2>1. CASE y <= read[p]
    BY <1>1, <1>3, <2>1
  <2>2. CASE read[p] < y
    BY <1>1, <1>3, <2>2
  <2> QED
    BY <1>1, <2>1, <2>2
<1>5. x \in WholeMessage(e)
  BY <1>3, <1>4 DEF WholeMessage
<1> QED
  BY <1>5

\* The reader stops reading only where the writer's last message ends, and
\* then takes one message off after the other.
LEMMA TidyReaderStep ==
    ASSUME TypeOK, NEW e \in Ends, NEW p \in Ends, Peer(e) = p, Peer(p) = e, p # e,
           Acts(e), Tidy(p)
    PROVE  Tidy(p)'
<1>1. UNCHANGED <<torn[p], rest[p], sent[p], written[p], ends[p], doing[p]>>
  BY DEF Acts, Goes, TypeOK, SendMessage, QueueChunk, StopPartly, SendFails, Poll, Receive,
     ReceiveWouldBlock, ReceiveEnd, HandleMessage, GiveUp, Drop, Quit
<1>2. CASE SendMessage(e) \/ QueueChunk(e) \/ StopPartly(e) \/ SendFails(e) \/ Poll(e)
             \/ Drop(e) \/ Quit(e)
  <2>1. /\ doing[e] # "reading"
        /\ UNCHANGED <<handled, read, garbled>>
        /\ outcome'[e] = outcome[e] \/ outcome'[e] = "quit"
    BY <1>2 DEF TypeOK, SendMessage, QueueChunk, StopPartly, SendFails, Poll, Drop, Quit
  <2> QED
    BY <1>1, <2>1 DEF Tidy, Begun
<1>3. CASE Receive(e)
  <2> DEFINE n == Least(Buffer, Waiting(p))
  <2>1. UNCHANGED <<handled, garbled, outcome>>
    BY <1>3 DEF Receive
  <2>2. read'[p] = read[p] + n
    BY <1>3 DEF Receive, TypeOK
  <2>3. ~RereadAfter(n) \/ doing'[e] = "reading"
    BY <1>3 DEF Receive
  <2>4. ~RereadAfter(n) => read'[p] = written[p]
    <3>1. Buffer \in Nat /\ read[p] \in Nat /\ written[p] \in Nat /\ read[p] <= written[p]
      BY StreamAssumption DEF TypeOK, StreamAssumption
    <3> QED
      BY <2>2, <3>1 DEF RereadAfter, Least, Waiting
  <2> QED
    BY <1>1, <2>1, <2>3, <2>4 DEF Tidy, Begun
<1>4. CASE ReceiveWouldBlock(e) \/ ReceiveEnd(e)
  <2>1. Waiting(p) = 0 /\ UNCHANGED <<handled, read, garbled>>
    BY <1>4 DEF ReceiveWouldBlock, ReceiveEnd
  <2>2. read[p] = written[p]
    BY <2>1 DEF Waiting, TypeOK
  <2>3. outcome'[e] \in {outcome[e], "bad", "hangup"}
    BY <1>4 DEF ReceiveWouldBlock, ReceiveEnd, GiveUp, TypeOK
  <2> QED
    BY <1>1, <2>1, <2>2, <2>3 DEF Tidy, Begun
<1>5. CASE HandleMessage(e)
  <2>1. doing[e] = "running" /\ read[p] \in ends[p] \cup {0} /\ UNCHANGED read
    BY <1>5 DEF HandleMessage, Tidy
  <2>2. handled[p] < read[p]
    BY <1>5 DEF HandleMessage, Unparsed, Got, TypeOK
  <2>3. WholeMessage(e) # {}
    BY <2>1, <2>2, WholeMessageThere DEF Tidy
  <2>4. PICK x \in WholeMessage(e) :
          handled' = [handled EXCEPT ![p] = x] /\ UNCHANGED <<doing, outcome, garbled>>
    BY <1>5, <2>3 DEF HandleMessage
  <2>5. x \in ends[p] /\ handled'[p] = x
    BY <2>4 DEF WholeMessage, TypeOK
  <2> QED
    BY <1>1, <2>1, <2>4, <2>5 DEF Tidy, Begun
<1> QED
  BY <1>2, <1>3, <1>4, <1>5 DEF Acts, Goes

\* Nor does a reader's step change how long the messages of its peer are.
LEMMA ShortSame ==
    ASSUME TypeOK, NEW e \in Ends, NEW p \in Ends, p # e, Acts(e)
    PROVE  SendsShort(p)' = SendsShort(p)
<1>1. sent'[p] = sent[p]
  BY DEF Acts, Goes, TypeOK, SendMessage, QueueChunk, StopPartly, SendFails, Poll, Receive,
     ReceiveWouldBlock, ReceiveEnd, HandleMessage, GiveUp, Drop, Quit
<1> QED
  BY <1>1 DEF SendsShort

\* However reads and writes interleave, a reader of short messages finds whole
\* ones only, and where they are: it neither takes its peer for malformed nor
\* bytes of one message for those of another.
THEOREM OnlyWholeMessages == Spec => []WholeMessagesOnly
<1>1. Init => \A e \in Ends : SendsShort(e) => Tidy(e)
  BY Peers DEF Init, Tidy
<1>2. TypeOK /\ (\A e \in Ends : SendsShort(e) => Tidy(e)) /\ [Next]_vars
        => (\A e \in Ends : SendsShort(e) => Tidy(e))'
  <2> SUFFICES ASSUME TypeOK, \A e \in Ends : SendsShort(e) => Tidy(e), [Next]_vars,
                      NEW e \in Ends, SendsShort(e)'
               PROVE  Tidy(e)'
    OBVIOUS
  <2>1. CASE Acts(e)
    BY <2>1, TidyWriterStep
  <2>2. CASE Acts(Peer(e))
    <3>1. Peer(e) \in Ends /\ Peer(e) # e /\ Peer(Peer(e)) = e
      BY Peers
    <3>2. SendsShort(e)
      BY <2>2, <3>1, ShortSame
    <3> QED
      BY <2>2, <3>1, <3>2, TidyReaderStep
  <2>3. CASE UNCHANGED vars
    BY <2>3 DEF vars, SendsShort, Tidy, Begun
  <2> QED
    BY <2>1, <2>2, <2>3 DEF Next, Acts, Ends, Peer
<1>3. (\A e \in Ends : SendsShort(e) => Tidy(e)) => WholeMessagesOnly
  BY Peers DEF Tidy, WholeMessagesOnly
<1> QED
  BY <1>1, <1>2, <1>3, TypeCorrect, PTL DEF Spec
=============================================================================
