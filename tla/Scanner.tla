------------------------------ MODULE Scanner -------------------------------
(***************************************************************************)
(* hyprwire-scanner: the description of an object is a list of methods of  *)
(* both directions in the order of the file; what is generated from it are *)
(* the tables of SMethod that the library marshals by, the functions that  *)
(* call a method with C arguments, and those the library calls with them.  *)
(***************************************************************************)
EXTENDS Naturals, Sequences, SequencesExt, Messages

\* An argument's type in a description: a name, and for "array x" that of x.
Simple(name) == [name |-> name, of |-> "none"]
ArrayOf(name) == [name |-> "array", of |-> name]

strToMagic(name) ==
    CASE name = "varchar"          -> VARCHAR
      [] name \in {"uint", "enum"} -> UINT
      [] name = "int"              -> INT
      [] name = "f32"              -> F32
      [] name = "fd"               -> FD
      [] name = "array"            -> ARRAY
      [] OTHER                     -> END

\* The methods of a direction, numbered in the order of the file.
scanProtocol(object, dir) ==
    LET methods == SelectSeq(object, LAMBDA m : m.dir = dir)
    IN  [k \in DOMAIN methods |->
           [idx     |-> k - 1,
            args    |-> [j \in DOMAIN methods[k].args |->
                           [magic   |-> strToMagic(methods[k].args[j].name),
                            arrType |-> strToMagic(methods[k].args[j].of)]],
            returns |-> methods[k].returns]]

IsArray(arg) == arg.magic = ARRAY

\* The parameter list of an SMethod: an array takes two places of it.
magicToString(arg) == IF IsArray(arg) THEN <<ARRAY, arg.arrType>> ELSE <<arg.magic>>

\* The tables of the generated specification.  A method the server calls has no
\* returnsType there, whatever its description says.
SMethods(object, dir) ==
    LET methods == scanProtocol(object, dir)
    IN  [k \in DOMAIN methods |->
           [params      |-> FlattenSeq([j \in DOMAIN methods[k].args |->
                                          magicToString(methods[k].args[j])]),
            returnsType |-> dir = "c2s" /\ methods[k].returns]]

-----------------------------------------------------------------------------
\* The generated sendX of the k-th method: the number it calls, and its
\* arguments for C, where a vector becomes a pointer and a length.
Send(object, dir, k, vals) ==
    LET method == scanProtocol(object, dir)[k]
    IN  [idx |-> method.idx,
         va  |-> FlattenSeq([j \in DOMAIN vals |->
                               IF IsArray(method.args[j]) THEN <<vals[j], Len(vals[j])>>
                               ELSE <<vals[j]>>])]

\* The generated constructor listens for every method it may be called with; the
\* listener for number idx is that of the method which has the number.
Listener(object, dir, idx) ==
    {k \in DOMAIN scanProtocol(object, dir) : scanProtocol(object, dir)[k].idx = idx}

\* The generated x_methodN: a pointer and a length become a vector again.
RECURSIVE FromC(_, _)
FromC(args, va) ==
    IF args = <<>> THEN <<>>
    ELSE IF IsArray(Head(args))
      THEN <<SubSeq(va[1], 1, va[2])>> \o FromC(Tail(args), SubSeq(va, 3, Len(va)))
    ELSE <<va[1]>> \o FromC(Tail(args), Tail(va))

\* What the application's function gets: the sequence number of the object to
\* make comes first on a server.
Received(object, dir, k, va) ==
    LET method == scanProtocol(object, dir)[k]
        seq    == IF dir = "c2s" /\ method.returns THEN 1 ELSE 0
    IN  SubSeq(va, 1, seq) \o FromC(method.args, SubSeq(va, seq + 1, Len(va)))
=============================================================================
