----------------------------- MODULE MCValueFlow ----------------------------
(***************************************************************************)
(* Programs for ValueFlow.  In the first family main registers two values  *)
(* with two functions that may each do anything with their parameters,     *)
(* calling one another included; in the second it hands them to a chain of *)
(* one to four wrappers that ends in a map.                                *)
(***************************************************************************)
EXTENDS ValueFlow

Func(f)     == [k |-> "fn", f |-> f]
Param(i)    == [k |-> "param", i |-> i]
Cell        == [k |-> "cell", c |-> 1]
Load        == [k |-> "load", c |-> 1]
Element     == [k |-> "element", map |-> "m"]
Made        == [k |-> "made", map |-> "m"]
Closure(f, v)   == [k |-> "closure", f |-> f, binds |-> <<v>>]
Wrapped(f, v)   == [k |-> "result", f |-> f, args |-> <<v>>]
Impl(t)         == [k |-> "impl", type |-> t]

Call(v, how)    == [op |-> "call", value |-> v, callee |-> 0, args |-> <<>>, how |-> how]
CallTo(f, args) == [op |-> "call", value |-> Func(f), callee |-> f, args |-> args, how |-> "call"]
Go(v, f)        == [op |-> "call", value |-> v, callee |-> f, args |-> <<>>, how |-> "go"]
Store(addr, v)  == [op |-> "store", addr |-> addr, val |-> v]
Update(v)       == [op |-> "update", map |-> "m", val |-> v]
Return(v)       == [op |-> "return", vals |-> <<v>>]

Fn(params, code) == [params |-> params, code |-> code, generic |-> FALSE,
                     bound |-> FALSE, results |-> {}]

\* A wrapper of its parameter and the closure it returns; a bound method.
Wrapper(closure) == Fn(1, <<Store(Cell, Param(1)), Return(Closure(closure, Cell))>>)
Calling == Fn(0, <<Call([k |-> "free", i |-> 1], "call")>>)
Bound(f) == [Fn(0, <<CallTo(f, <<>>)>>) EXCEPT !.bound = TRUE]

\* What a function with two parameters does with them, g being the other one.
Bodies(g) ==
    {<<>>, <<Call(Param(1), "call")>>, <<Call(Param(2), "go")>>,
     <<CallTo(g, <<Param(1), Param(2)>>)>>, <<CallTo(g, <<Param(2), Param(1)>>)>>,
     <<CallTo(g, <<Param(1), Param(2)>>), Call(Param(1), "defer")>>,
     <<Store(Field("h"), Param(1))>>, <<Update(Param(2))>>, <<Return(Param(1))>>,
     <<Store(Cell, Param(1)), CallTo(g, <<Load, Param(2)>>)>>,
     <<Store(Cell, Param(1)), Call(Closure(7, Cell), "call")>>}

Callbacks ==
    {[fn |-> <<Fn(0, IF first = 2 THEN <<two, three>> ELSE <<three, two>>),
               Fn(2, a), Fn(2, b), Fn(0, <<>>), Fn(0, <<>>),
               Wrapper(7), Calling, Bound(5)>>,
      nodes |-> {1}, fields |-> <<"h">>, method |-> <<>>, predicates |-> <<>>]
      : first \in {2, 3}, a \in Bodies(3), b \in Bodies(2),
        two \in {CallTo(2, <<Wrapped(6, Func(4)), Closure(8, Impl("t"))>>)},
        three \in {CallTo(3, <<Func(5), Func(4)>>)}}

\* r1 ends in the map; r2, r3 and r4 hand on what they are given.
Ends == {<<Update(Param(1))>>, <<Update(Param(1)), Update(Param(2))>>,
         <<Store(Cell, Param(2)), Update(Closure(12, Cell))>>}
Pass(f, i, j) == Fn(2, <<CallTo(f, <<Param(i), Param(j)>>)>>)

Reader == <<Call(Element, "go"), Store(Field("made"), Made),
            Call(Field("made"), "invoke"), Call(Field("h"), "call"),
            Call(Field("h"), "defer"), Call(Global("v"), "invoke"),
            Call(Global("w"), "call"), Go(Closure(11, Impl("t")), 0), Go(Func(7), 7)>>

Maps ==
    {[fn |-> <<Fn(0, <<CallTo(depth + 1, <<Wrapped(13, Func(6)), Func(7)>>),
                       Store(Field("h"), Func(6)), Store(Global("v"), Impl("t")),
                       Store(Global("w"), Func(9)), Update(Func(10))>>),
               Fn(2, r1), Pass(2, i, 3 - i), Pass(3, 1, 2), Pass(4, 2, 1),
               [Fn(0, <<>>) EXCEPT !.results = {"t"}], Fn(0, <<>>),
               Fn(0, Reader), Fn(0, <<>>), [Fn(0, <<>>) EXCEPT !.generic = TRUE],
               Bound(9), Calling, Wrapper(12)>>,
      nodes |-> nodes, fields |-> <<"h">>, method |-> [t \in {"t"} |-> 9],
      predicates |-> <<[key |-> "h", dispatch |-> d]>>]
      : depth \in 1..4, r1 \in Ends, i \in {1, 2}, nodes \in {{1}, {1, 8}}, d \in {0, 7}}

MCInputs == Callbacks \cup Maps
=============================================================================
