---------------------------- MODULE SocketStream ----------------------------
(***************************************************************************)
(* The bytes of one connection: sendMessage hands a message to the kernel, *)
(* which queues it in chunks; parseFromFd reads through a fixed buffer for *)
(* as long as a read fills it; handleMessage then takes the bytes apart    *)
(* and has no use for half a message.                                      *)
(*                                                                         *)
(* A byte is a position in the stream of the end that wrote it.  What      *)
(* matters of a message is where in that stream it ends.  The client's     *)
(* socket does not block, the one a server accepted does.                  *)
(***************************************************************************)
EXTENDS Naturals, Sequences, FiniteSets

CONSTANTS
    Buffer,     \* BUFFER_SIZE, 8192 bytes
    Chunk,      \* the most the kernel queues in one piece
    Capacity,   \* for each end, the queued bytes from which its writes must wait
    Lengths,    \* lengths of messages
    FatalLength,\* the length of CFatalErrorMessage
    MaxSent     \* bound on the messages an end sends

Ends    == {"client", "server"}
Peer(e) == IF e = "client" THEN "server" ELSE "client"

ASSUME StreamAssumption ==
    /\ Buffer \in Nat \ {0}
    /\ Chunk \in Nat \ {0}
    /\ Capacity \in [Ends -> Nat \ {0}]
    /\ Lengths \subseteq Nat \ {0}
    /\ FatalLength \in Lengths
    /\ MaxSent \in [Ends -> Nat]

VARIABLES
    sent,    \* sent[e]: the lengths of the messages e gave to sendMessage
    rest,    \* rest[e]: bytes of the last of them the kernel has not taken
    written, \* written[e]: bytes of e the kernel took
    ends,    \* ends[e]: where in them a message ends
    torn,    \* torn[e]: where in them a message stops without its tail
    read,    \* read[e]: bytes of e its peer has read
    handled, \* handled[e]: bytes of e its peer has taken apart
    doing,   \* doing[e]: running, or inside writing or reading
    open,    \* open[e]: e has its file descriptor
    outcome, \* outcome[e]: why e gave its peer up
    garbled  \* garbled[e]: e took bytes of one message for those of another

vars == <<sent, rest, written, ends, torn, read, handled, doing, open, outcome, garbled>>

Init ==
    /\ sent = [e \in Ends |-> <<>>]
    /\ rest = [e \in Ends |-> 0]
    /\ written = [e \in Ends |-> 0]
    /\ ends = [e \in Ends |-> {}]
    /\ torn = [e \in Ends |-> {}]
    /\ read = [e \in Ends |-> 0]
    /\ handled = [e \in Ends |-> 0]
    /\ doing = [e \in Ends |-> "running"]
    /\ open = [e \in Ends |-> TRUE]
    /\ outcome = [e \in Ends |-> "none"]
    /\ garbled = [e \in Ends |-> FALSE]

Least(m, n) == IF m < n THEN m ELSE n
Waiting(e)  == written[e] - read[e]     \* bytes of e in the kernel
Got(e)      == read[Peer(e)] - handled[Peer(e)]  \* bytes e has to take apart
HasRoom(e)  == Waiting(e) < Capacity[e]
Begun(e)    == rest[e] < sent[e][Len(sent[e])]

\* The end closed its descriptor while bytes of its peer were unread.
WasReset(e) == ~open[Peer(e)] /\ Waiting(e) > 0

-----------------------------------------------------------------------------
(* sendMessage *)

\* An application, or a handler in the middle of a batch, sends a message.
SendMessage(e) ==
    /\ open[e] /\ doing[e] = "running" /\ outcome[e] = "none"
    /\ Len(sent[e]) < MaxSent[e]
    /\ \E n \in Lengths :
         /\ sent' = [sent EXCEPT ![e] = Append(@, n)]
         /\ rest' = [rest EXCEPT ![e] = n]
    /\ doing' = [doing EXCEPT ![e] = "writing"]
    /\ UNCHANGED <<written, ends, torn, read, handled, open, outcome, garbled>>

\* The kernel takes a chunk, of whatever size, while its queue is below the
\* limit; sendmsg returns when it has taken the whole message.  A client that
\* finds no room at first polls until there is (EAGAIN), a server blocks.
QueueChunk(e) ==
    /\ open[e] /\ doing[e] = "writing" /\ open[Peer(e)]
    /\ HasRoom(e)
    /\ LET n == Least(Chunk, rest[e])
       IN  /\ written' = [written EXCEPT ![e] = @ + n]
           /\ rest' = [rest EXCEPT ![e] = @ - n]
           /\ IF rest[e] = n
                THEN /\ ends' = [ends EXCEPT ![e] = @ \cup {written[e] + n}]
                     /\ doing' = [doing EXCEPT ![e] = "running"]
                ELSE UNCHANGED <<ends, doing>>
    /\ UNCHANGED <<sent, torn, read, handled, open, outcome, garbled>>

\* A socket that does not block returns how much it took when it has no more
\* room; that is not an error, and the rest of the message is never sent.
StopPartly(e) ==
    /\ e = "client"
    /\ open[e] /\ doing[e] = "writing" /\ open[Peer(e)]
    /\ ~HasRoom(e) /\ Begun(e)
    /\ rest' = [rest EXCEPT ![e] = 0]
    /\ torn' = [torn EXCEPT ![e] = @ \cup {written[e]}]
    /\ doing' = [doing EXCEPT ![e] = "running"]
    /\ UNCHANGED <<sent, written, ends, read, handled, open, outcome, garbled>>

\* The peer is gone: sendmsg fails, or returns what it had taken.
SendFails(e) ==
    /\ open[e] /\ doing[e] = "writing" /\ ~open[Peer(e)]
    /\ rest' = [rest EXCEPT ![e] = 0]
    /\ doing' = [doing EXCEPT ![e] = "running"]
    /\ UNCHANGED <<sent, written, ends, torn, read, handled, open, outcome, garbled>>

-----------------------------------------------------------------------------
(* parseFromFd, called when poll found the socket readable *)

Poll(e) ==
    /\ open[e] /\ doing[e] = "running" /\ outcome[e] = "none"
    /\ Got(e) = 0
    /\ Waiting(Peer(e)) > 0 \/ ~open[Peer(e)]
    /\ doing' = [doing EXCEPT ![e] = "reading"]
    /\ UNCHANGED <<sent, rest, written, ends, torn, read, handled, open, outcome, garbled>>

\* Mutant: one read is enough.
RereadAfter_Never(n) == FALSE
\* Mutant: read on until there is nothing, as an edge triggered loop would.
RereadAfter_Always(n) == n <= Buffer

\* Mutant: the whole buffer is appended, not what was received.
Receive_WholeBuffer(e) ==
    /\ open[e] /\ doing[e] = "reading"
    /\ Waiting(Peer(e)) > 0
    /\ read' = [read EXCEPT ![Peer(e)] = @ + Buffer]
    /\ doing' = [doing EXCEPT ![e] = "running"]
    /\ UNCHANGED <<sent, rest, written, ends, torn, handled, open, outcome, garbled>>

\* recvmsg returns what there is, up to the size of the buffer; after a read
\* that filled it there is another.
RereadAfter(n) == n = Buffer

Receive(e) ==
    /\ open[e] /\ doing[e] = "reading"
    /\ Waiting(Peer(e)) > 0
    /\ LET n == Least(Buffer, Waiting(Peer(e)))
       IN  /\ read' = [read EXCEPT ![Peer(e)] = @ + n]
           /\ IF RereadAfter(n) THEN UNCHANGED doing
              ELSE doing' = [doing EXCEPT ![e] = "running"]
    /\ UNCHANGED <<sent, rest, written, ends, torn, handled, open, outcome, garbled>>

\* What an end does about its peer.  A client disconnects at once, or, at the
\* end of the stream, is let go by the application dispatchEvents returns false
\* to; a server tells why, and drops the client after the dispatch.
GiveUp(e, why) ==
    /\ outcome' = [outcome EXCEPT ![e] = why]
    /\ IF e = "server" /\ why \in {"bad", "malformed"}
         THEN /\ sent' = [sent EXCEPT ![e] = Append(@, FatalLength)]
              /\ rest' = [rest EXCEPT ![e] = FatalLength]
              /\ doing' = [doing EXCEPT ![e] = "writing"]
              /\ UNCHANGED open
         ELSE /\ open' = [open EXCEPT ![e] = FALSE]
              /\ doing' = [doing EXCEPT ![e] = "running"]
              /\ UNCHANGED <<sent, rest>>

\* With nothing to read recvmsg says so on the client's socket (EAGAIN), which
\* parseFromFd takes for a bad message.  On the server's it blocks.
ReceiveWouldBlock(e) ==
    /\ e = "client"
    /\ open[e] /\ doing[e] = "reading" /\ open[Peer(e)]
    /\ Waiting(Peer(e)) = 0
    /\ GiveUp(e, "bad")
    /\ UNCHANGED <<written, ends, torn, read, handled, garbled>>

\* The peer closed its end: an error if it left bytes unread, else the end of
\* the stream, which only ends the connection if nothing was read before it.
ReceiveEnd(e) ==
    /\ open[e] /\ doing[e] = "reading" /\ ~open[Peer(e)]
    /\ Waiting(Peer(e)) = 0
    /\ IF WasReset(e) THEN GiveUp(e, "bad")
       ELSE IF Got(e) = 0 THEN GiveUp(e, "hangup")
       ELSE /\ doing' = [doing EXCEPT ![e] = "running"]
            /\ UNCHANGED <<sent, rest, open, outcome>>
    /\ UNCHANGED <<written, ends, torn, read, handled, garbled>>

-----------------------------------------------------------------------------
(* handleMessage *)

\* Where the message at the head of what e read ends, if all of it is there.
WholeMessage(e) ==
    LET s == Peer(e)
    IN  {x \in ends[s] :
           /\ ~garbled[e]
           /\ handled[s] < x /\ x <= read[s]
           /\ \A y \in ends[s] \cup torn[s] : y <= handled[s] \/ x <= y}

\* Where a message without its tail may seem to end among the bytes behind it.
Misread(e) ==
    LET s == Peer(e)
    IN  {x \in handled[s] + 1 .. read[s] :
           garbled[e] \/ \E y \in torn[s] : handled[s] < y /\ y < x}

\* Mutant: the loop stops before the last byte.
Unparsed_OffByOne(e) == Got(e) > 1
Unparsed(e) == Got(e) > 0

HandleMessage(e) ==
    /\ open[e] /\ doing[e] = "running" /\ outcome[e] = "none"
    /\ Unparsed(e)
    /\ \/ \E x \in WholeMessage(e) :
            /\ handled' = [handled EXCEPT ![Peer(e)] = x]
            /\ UNCHANGED <<sent, rest, doing, open, outcome, garbled>>
       \/ /\ WholeMessage(e) = {}
          /\ \E x \in Misread(e) : handled' = [handled EXCEPT ![Peer(e)] = x]
          /\ garbled' = [garbled EXCEPT ![e] = TRUE]
          /\ UNCHANGED <<sent, rest, doing, open, outcome>>
       \/ /\ WholeMessage(e) = {}
          /\ GiveUp(e, "malformed")
          /\ UNCHANGED <<handled, garbled>>
    /\ UNCHANGED <<written, ends, torn, read>>

\* Mutant: only a hangup makes the dispatch look for clients to drop.
NeedsRecheck_OnHangup(e) == outcome[e] = "hangup"
NeedsRecheck(e) == outcome[e] # "none"

\* dispatchExistingConnections drops a client that erred.
Drop(e) ==
    /\ open[e] /\ doing[e] = "running" /\ NeedsRecheck(e)
    /\ open' = [open EXCEPT ![e] = FALSE]
    /\ UNCHANGED <<sent, rest, written, ends, torn, read, handled, doing, outcome, garbled>>

\* The application lets its end go.
Quit(e) ==
    /\ open[e] /\ doing[e] = "running" /\ outcome[e] = "none"
    /\ open' = [open EXCEPT ![e] = FALSE]
    /\ outcome' = [outcome EXCEPT ![e] = "quit"]
    /\ UNCHANGED <<sent, rest, written, ends, torn, read, handled, doing, garbled>>

-----------------------------------------------------------------------------
\* What an end does whether or not its application asks for more.
Goes(e) ==
    \/ QueueChunk(e) \/ StopPartly(e) \/ SendFails(e)
    \/ Poll(e) \/ Receive(e) \/ ReceiveWouldBlock(e) \/ ReceiveEnd(e)
    \/ HandleMessage(e) \/ Drop(e)

Next == \E e \in Ends : SendMessage(e) \/ Goes(e) \/ Quit(e)

\* The kernel moves bytes when it can, and both applications run event loops.
Fairness == \A e \in Ends : WF_vars(Goes(e))

Spec == Init /\ [][Next]_vars /\ Fairness

-----------------------------------------------------------------------------
\* The type invariant; nobody reads what was not written.
TypeOK ==
    /\ sent \in [Ends -> Seq(Lengths)]
    /\ rest \in [Ends -> Nat]
    /\ written \in [Ends -> Nat]
    /\ ends \in [Ends -> SUBSET Nat]
    /\ torn \in [Ends -> SUBSET Nat]
    /\ read \in [Ends -> Nat]
    /\ handled \in [Ends -> Nat]
    /\ doing \in [Ends -> {"running", "writing", "reading"}]
    /\ open \in [Ends -> BOOLEAN]
    /\ outcome \in [Ends -> {"none", "quit", "hangup", "bad", "malformed"}]
    /\ garbled \in [Ends -> BOOLEAN]
    /\ \A e \in Ends : handled[e] <= read[e] /\ read[e] <= written[e]

\* Every message e sent fits in one piece of the kernel's.
SendsShort(e) == \A i \in DOMAIN sent[e] : sent[e][i] <= Chunk

\* However reads and writes interleave, and although a read stops wherever the
\* buffer is full, handleMessage finds whole messages only, and finds them where
\* they are, as long as no message of the peer is longer than the kernel's chunk.
WholeMessagesOnly ==
    \A e \in Ends :
      SendsShort(Peer(e)) => outcome[e] # "malformed" /\ ~garbled[e]

\* What a call of parseFromFd has read before its last read is a number of full
\* buffers.  So a client takes a peer that is there for bad, and a server waits
\* in recvmsg, with its other clients behind it, for exactly those batches.
OnlyFullReadsGoOn ==
    \A e \in Ends :
      \/ doing[e] = "reading"
      \/ outcome[e] = "bad" /\ ~WasReset(e)
      => \E k \in 0 .. read[Peer(e)] : Got(e) = k * Buffer

\* The server waits in a second recvmsg of a dispatch.
Stalled(e) == e = "server" /\ doing[e] = "reading" /\ Got(e) > 0

\* A client's write returns: a server that does not fill the client's queue goes
\* on reading, even one that waits in recvmsg, for then there is room.
ClientWriteReturns == (doing["client"] = "writing") ~> (doing["client"] # "writing")

\* What was sent is handled, unless the reader gave up or stalled on a full read.
BytesAreHandled ==
    \A e \in Ends :
      (open[e] /\ handled[Peer(e)] < written[Peer(e)])
        ~> (~open[e] \/ outcome[e] # "none" \/ handled[Peer(e)] = written[Peer(e)] \/ Stalled(e))

\* docs/WIRE.md: content can be any length.  A peer that is there and whose
\* messages are whole is not taken for a bad one.
ContentOfAnyLength ==
    \A e \in Ends :
      open[Peer(e)] /\ outcome[Peer(e)] = "none" /\ SendsShort(Peer(e)) => outcome[e] # "bad"
=============================================================================
