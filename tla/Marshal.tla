------------------------------ MODULE Marshal -------------------------------
(***************************************************************************)
(* IWireObject::call, which turns C arguments into the bytes and the       *)
(* descriptors of a generic message by the table of the method, the        *)
(* constructor of CGenericProtocolMessage, which finds the end of one and  *)
(* takes its descriptors, and IWireObject::called, which checks the bytes  *)
(* against the receiver's table and calls the listener with what is there. *)
(***************************************************************************)
EXTENDS Naturals, Sequences, SequencesExt, Messages

CONSTANT MaxArray  \* 10000

GENERIC  == 100
WordLike == {UINT, INT, F32, OBJECT, SEQ}

-----------------------------------------------------------------------------
(* call *)

\* One C argument, or two for an array, written by the parameters left to do.
RECURSIVE Arguments(_, _)
Arguments(params, va) ==
    IF params = <<>> THEN [data |-> <<>>, fds |-> <<>>]
    ELSE LET magic == Head(params)
             isArr == magic = ARRAY
             of    == IF isArr THEN params[2] ELSE END
             rest  == Arguments(SubSeq(params, IF isArr THEN 3 ELSE 2, Len(params)),
                                SubSeq(va, IF isArr THEN 3 ELSE 2, Len(va)))
             data  == CASE magic = FD       -> <<FD>>
                        [] magic = VARCHAR  -> <<VARCHAR>> \o Bytes(va[1])
                        [] magic \in WordLike -> <<magic>> \o Word(va[1])
                        [] isArr ->
                             <<ARRAY, of>> \o encodeVarInt(va[2])
                               \o FlattenSeq([j \in 1 .. va[2] |->
                                    CASE of = FD      -> <<>>
                                      [] of = VARCHAR -> Bytes(va[1][j])
                                      [] OTHER        -> Word(va[1][j])])
             fds   == CASE magic = FD -> <<va[1]>> [] isArr /\ of = FD -> va[1] [] OTHER -> <<>>
         IN  [data |-> data \o rest.data, fds |-> fds \o rest.fds]

\* The message of a call: object, number, the sequence number of the object to
\* make if there is one, arguments.  Which calls get this far (the method exists
\* and is not too new, the object is not destroyed) is ClientCalls' and
\* ServerEmits' part.
call(methods, id, object, seq, va) ==
    LET method == methods[id + 1]
        args   == Arguments(method.params, va)
    IN  [data |-> <<GENERIC, OBJECT>> \o Word(object) \o <<UINT>> \o Word(id)
                    \o (IF method.returnsType THEN <<SEQ>> \o Word(seq) ELSE <<>>)
                    \o args.data \o <<END>>,
         fds  |-> args.fds]

\* Mutant: only the message's own m_object is set.
resolveSeq_Forgets(data, id) == data

\* A call that waited for its object's id gets it written over the 0 it had.
resolveSeq(data, id) == SubSeq(data, 1, 2) \o Word(id) \o SubSeq(data, 7, Len(data))

-----------------------------------------------------------------------------
(* CGenericProtocolMessage *)

Unfit == [ok |-> FALSE]

\* The bytes of num strings in a row.
RECURSIVE StringsSize(_, _, _)
StringsSize(d, i, num) ==
    IF num = 0 \/ i > Len(d) THEN 0
    ELSE LET n    == parseVarInt(d, i)
             size == n.size + n.num
         IN  size + StringsSize(d, i + size, num - 1)

\* Mutant: an array of descriptors takes its bytes for the elements.
Elements_FdBytes(d, i, of, num) ==
    IF of = VARCHAR THEN StringsSize(d, i, num) ELSE 4 * num

\* The bytes of an array's elements: descriptors have none.
Elements(d, i, of, num) ==
    IF of = FD THEN 0 ELSE IF of = VARCHAR THEN StringsSize(d, i, num) ELSE 4 * num

\* The descriptors of num elements.
Descriptors(of, num) == IF of = FD THEN num ELSE 0

TooMany(num) == num >= MaxArray

\* From the argument at i to END, of arguments that took so many of the nfds
\* descriptors: where END is, and how many they took in all.
RECURSIVE Walk(_, _, _, _)
Walk(d, i, taken, nfds) ==
    IF i > Len(d) \/ taken > nfds THEN Unfit
    ELSE CASE d[i] = END         -> [ok |-> TRUE, end |-> i, fds |-> taken]
           [] d[i] \in WordLike  -> Walk(d, i + 5, taken, nfds)
           [] d[i] = VARCHAR     ->
                LET n == parseVarInt(d, i + 1) IN Walk(d, i + 1 + n.size + n.num, taken, nfds)
           [] d[i] = FD          -> Walk(d, i + 1, taken + 1, nfds)
           [] d[i] = ARRAY /\ i < Len(d) /\ d[i + 1] \in WordLike \cup {VARCHAR, FD} ->
                LET n     == parseVarInt(d, i + 2)
                    first == i + 2 + n.size
                IN  IF TooMany(n.num) THEN Unfit
                    ELSE Walk(d, first + Elements(d, first, d[i + 1], n.num),
                              taken + Descriptors(d[i + 1], n.num), nfds)
           [] OTHER              -> Unfit

\* The message at i, among fds the descriptors that came with what was read.
GenericMessage(d, i, fds) ==
    IF ~(At(d, i, GENERIC) /\ At(d, i + 1, OBJECT) /\ At(d, i + 6, UINT)) THEN [len |-> 0]
    ELSE LET w == Walk(d, i + 11, 0, Len(fds))
         IN  IF ~w.ok THEN [len |-> 0]
             ELSE [len    |-> w.end - i + 1,
                   object |-> WordAt(d, i + 2),
                   method |-> WordAt(d, i + 7),
                   data   |-> SubSeq(d, i + 11, w.end),
                   fds    |-> SubSeq(fds, 1, w.fds)]

-----------------------------------------------------------------------------
(* called *)

\* Mutant: nothing is compared.
Matches_Never(params, d, i) == TRUE

\* The check of the data at i against the parameters.
RECURSIVE Matches(_, _, _)
Matches(params, d, i) ==
    IF params = <<>> THEN TRUE
    ELSE IF d[i] # Head(params) THEN FALSE
    ELSE CASE d[i] = FD -> Matches(Tail(params), d, i + 1)
           [] d[i] \in WordLike -> Matches(Tail(params), d, i + 5)
           [] d[i] = VARCHAR ->
                LET n == parseVarInt(d, i + 1) IN Matches(Tail(params), d, i + 1 + n.size + n.num)
           [] d[i] = ARRAY ->
                LET n     == parseVarInt(d, i + 2)
                    first == i + 2 + n.size
                IN  /\ d[i + 1] = params[2]
                    /\ n.num <= MaxArray
                    /\ Matches(SubSeq(params, 3, Len(params)), d,
                               first + Elements(d, first, d[i + 1], n.num))

\* The C arguments the data at i holds, by its own magics; the descriptors come
\* from fds in the order the arguments name them.
RECURSIVE Values(_, _, _)
Values(d, i, fds) ==
    IF d[i] = END THEN <<>>
    ELSE CASE d[i] = FD -> <<Head(fds)>> \o Values(d, i + 1, Tail(fds))
           [] d[i] \in WordLike -> <<WordAt(d, i + 1)>> \o Values(d, i + 5, fds)
           [] d[i] = VARCHAR ->
                LET n == parseVarInt(d, i + 1)
                    k == i + 1 + n.size
                IN  <<SubSeq(d, k, k + n.num - 1)>> \o Values(d, k + n.num, fds)
           [] d[i] = ARRAY ->
                LET n     == parseVarInt(d, i + 2)
                    first == i + 2 + n.size
                    size  == Elements(d, first, d[i + 1], n.num)
                    elems == IF d[i + 1] = FD THEN SubSeq(fds, 1, n.num)
                             ELSE ReadElements(d, first, d[i + 1], n.num).val
                IN  <<elems, n.num>>
                      \o Values(d, first + size,
                                IF d[i + 1] = FD THEN SubSeq(fds, n.num + 1, Len(fds)) ELSE fds)

\* What the listener of the method gets, or that the peer erred.
called(methods, id, data, fds) ==
    IF id >= Len(methods) THEN Unfit
    ELSE LET method == methods[id + 1]
             params == (IF method.returnsType THEN <<SEQ>> ELSE <<>>) \o method.params
         IN  IF Matches(params, data, 1)
               THEN [ok |-> TRUE, va |-> Values(data, 1, fds)]
               ELSE Unfit
=============================================================================
