------------------------------- MODULE Codec --------------------------------
(***************************************************************************)
(* One batch: an end writes messages, calls through code generated from    *)
(* its description among them; the bytes arrive, perhaps without the last  *)
(* of them, and the other end takes them apart message by message and      *)
(* calls the listeners generated from its own description.                 *)
(***************************************************************************)
EXTENDS Naturals, Sequences, Scanner, Marshal

CONSTANTS
    Samples,       \* for each direction, messages to write: fixed ones, and calls
    Descriptions,  \* of the object that is called
    Boundaries,    \* numbers to write with variable length
    ObjectId,      \* its id
    NewSeq,        \* the sequence number of an object to make
    MaxBatch       \* bound on the messages of a batch

VARIABLES
    dir,     \* the direction the batch goes
    theirs,  \* the description of the end that reads
    sent,    \* the messages written, by their places among the samples
    data,    \* SSocketRawParsedMessage::data
    fds,     \* SSocketRawParsedMessage::fds
    cut,     \* the last bytes did not arrive with this batch
    phase,   \* writing, parsing, or how parsing ended: ok, malformed, erred, stray
    needle,  \* where in the data the next message starts
    taken    \* what was taken from the batch

vars == <<dir, theirs, sent, data, fds, cut, phase, needle, taken>>

Init ==
    /\ dir \in {"c2s", "s2c"}
    /\ theirs \in DOMAIN Descriptions
    /\ sent = <<>> /\ data = <<>> /\ fds = <<>>
    /\ cut = FALSE
    /\ phase = "writing"
    /\ needle = 1
    /\ taken = <<>>

\* The end that writes has the first description.
Mine      == Descriptions[1]
Theirs    == Descriptions[theirs]
Sample(i) == Samples[dir][i]
IsCall(s) == s.kind = "call"

-----------------------------------------------------------------------------
\* The bytes and descriptors of a message: of one of the fixed ones, or of a call
\* through generated code on an object that has its id or waits for it.
Marshalled(s) ==
    IF ~IsCall(s) THEN [data |-> Written(s.message, s.vals), fds |-> <<>>]
    ELSE LET c == Send(Mine, dir, s.method, s.vals)
             m == call(SMethods(Mine, dir), c.idx, IF s.waits THEN 0 ELSE ObjectId, NewSeq, c.va)
         IN  IF s.waits THEN [m EXCEPT !.data = resolveSeq(@, ObjectId)] ELSE m

Write ==
    /\ phase = "writing"
    /\ Len(sent) < MaxBatch
    /\ \E i \in DOMAIN Samples[dir] :
         LET m == Marshalled(Sample(i))
         IN  /\ sent' = Append(sent, i)
             /\ data' = data \o m.data
             /\ fds' = fds \o m.fds
    /\ UNCHANGED <<dir, theirs, cut, phase, needle, taken>>

\* All of the batch arrives, or it stops somewhere in its last message.
Arrive ==
    /\ phase = "writing" /\ sent # <<>>
    /\ LET last == Len(Marshalled(Sample(sent[Len(sent)])).data)
       IN  \E lost \in 0 .. last - 1 :
             /\ data' = SubSeq(data, 1, Len(data) - lost)
             /\ cut' = (lost > 0)
    /\ phase' = "parsing"
    /\ UNCHANGED <<dir, theirs, sent, fds, needle, taken>>

-----------------------------------------------------------------------------
(* parseSingleMessage *)

Reads == IF dir = "c2s" THEN ServerReads ELSE ClientReads

\* A message r of this code was read, or what is there is none.
Takes(code, r) ==
    IF r.len = 0 THEN phase' = "malformed" /\ UNCHANGED <<needle, taken>>
    ELSE /\ needle' = needle + r.len
         /\ taken' = Append(taken, [code |-> code, vals |-> r.val])
         /\ UNCHANGED phase

ParseFixed ==
    \E message \in Reads :
      /\ message.code = data[needle]
      /\ Takes(message.code, Parsed(message, data, needle))
      /\ UNCHANGED fds

\* onGeneric: the listener for message m gets c.  A call that does not fit its
\* method makes a server give the client up; a client leaves it out.
onGeneric(m, c) ==
    IF c.ok
      THEN /\ \E k \in Listener(Theirs, dir, m.method) :
                taken' = Append(taken, [code |-> GENERIC, object |-> m.object, method |-> k,
                                        vals |-> Received(Theirs, dir, k, c.va)])
           /\ UNCHANGED phase
      ELSE /\ phase' = IF dir = "c2s" THEN "erred" ELSE phase
           /\ taken' = Append(taken, [code |-> 0])

TakesGeneric(m) ==
    IF m.len = 0 THEN phase' = "malformed" /\ UNCHANGED <<needle, taken, fds>>
    ELSE /\ needle' = needle + m.len
         /\ fds' = SubSeq(fds, Len(m.fds) + 1, Len(fds))
         /\ onGeneric(m, called(SMethods(Theirs, dir), m.method, m.data, m.fds))

ParseGeneric ==
    /\ data[needle] = GENERIC
    /\ TakesGeneric(GenericMessage(data, needle, fds))

\* A code no message of this direction has.
ParseUnknown ==
    /\ data[needle] # GENERIC
    /\ \A message \in Reads : message.code # data[needle]
    /\ phase' = "malformed"
    /\ UNCHANGED <<needle, taken, fds>>

Parse ==
    /\ phase = "parsing" /\ needle <= Len(data)
    /\ ParseFixed \/ ParseGeneric \/ ParseUnknown
    /\ UNCHANGED <<dir, theirs, sent, data, cut>>

\* The end of handleMessage: descriptors nobody took are an error.
Finish ==
    /\ phase = "parsing" /\ needle > Len(data)
    /\ phase' = IF fds = <<>> THEN "ok" ELSE "stray"
    /\ UNCHANGED <<dir, theirs, sent, data, fds, cut, needle, taken>>

Next == Write \/ Arrive \/ Parse \/ Finish

Spec == Init /\ [][Next]_vars

-----------------------------------------------------------------------------
\* Numbers of up to 28 bits come back from their bytes, and nothing of what
\* follows is taken with them.
VarIntsReadBack ==
    \A n \in Boundaries :
      LET bytes == encodeVarInt(n)
      IN  /\ parseVarInt(bytes, 1) = [num |-> n, size |-> Len(bytes)]
          /\ parseVarInt(bytes \o data, 1) = [num |-> n, size |-> Len(bytes)]

\* What the i-th message says to the one who reads it.
Says(i) ==
    LET s   == Sample(sent[i])
        seq == IF IsCall(s) /\ scanProtocol(Mine, dir)[s.method].returns
                 /\ dir = "c2s" THEN <<NewSeq>> ELSE <<>>
    IN  IF IsCall(s)
          THEN [code |-> GENERIC, object |-> ObjectId, method |-> s.method, vals |-> seq \o s.vals]
          ELSE [code |-> s.message.code, vals |-> s.vals]

\* Between ends built from one description, what is taken is what was sent: the
\* same messages in their order, the same methods with the same arguments, and
\* every descriptor with the argument it was given for.
TakenAsSent ==
    theirs = 1 => Len(taken) <= Len(sent) /\ \A i \in DOMAIN taken : taken[i] = Says(i)

\* The lists and arrays of a message that are as long as they may not be.
Oversized(s) ==
    IF IsCall(s)
      THEN \E j \in DOMAIN s.vals :
             /\ IsArray(scanProtocol(Mine, dir)[s.method].args[j])
             /\ Len(s.vals[j]) >= MaxArray
      ELSE \/ s.message = CHandshakeBeginMessage /\ Len(s.vals[1]) >= MaxVersions
           \/ s.message = CHandshakeProtocolsMessage /\ Len(s.vals[1]) >= MaxProtocols
           \/ s.message = CBindProtocolMessage /\ s.vals[3] = 0

\* Between ends built from one description a batch that arrived whole is taken
\* whole, unless it has a list of the size the reader does not take.
WholeIsTaken ==
    theirs = 1 /\ ~cut /\ phase \notin {"writing", "parsing", "ok"}
      => \E i \in DOMAIN sent : Oversized(Sample(sent[i]))

\* A message that did not arrive whole is never taken, whatever its type and
\* wherever it stops.
CutIsNotTaken == cut => phase # "ok" /\ Len(taken) < Len(sent)

\* Ends built from different descriptions may miss each other's calls, but no
\* listener is called with arguments other than those its own description has.
ListenersGetTheirTypes ==
    \A i \in DOMAIN taken :
      taken[i].code = GENERIC =>
        LET s  == Sample(sent[i])
            my == scanProtocol(Mine, dir)[s.method].args
            th == scanProtocol(Theirs, dir)[taken[i].method].args
        IN  \A j \in DOMAIN th : j \in DOMAIN my /\ th[j] = my[j]
=============================================================================
