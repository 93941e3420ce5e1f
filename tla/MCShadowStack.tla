----------------------------- MODULE MCShadowStack -----------------------------
(* main f calls g; both may call a wrapped library function, and g itself. *)
EXTENDS ShadowStack

CONSTANTS f, g, ext

Numbered == Type(<<"i", "p">>)
Pair == Type(<<"p", "p">>)
Ints == [array |-> TRUE, elems |-> <<"i", "i">>]
Pointers == [array |-> TRUE, elems |-> <<"p", "p">>]

CallOf(fun, ret, args) == [op |-> "call", fun |-> fun, ret |-> ret, args |-> args]
CallExt(o) == CallOf(ext, Pointer, <<o>>)
AccessTo(o) == [op |-> "access", val |-> o]
Ret(o) == [op |-> "ret", val |-> o]
SelectFrom(ty, yes, no) == [op |-> "select", ty |-> ty, yes |-> yes, no |-> no]
SelectOf(yes, no) == SelectFrom(Pointer, yes, no)
ExtractAt(o, k) == [op |-> "extract", val |-> o, k |-> k]
InsertInto(ty, agg, o, k) == [op |-> "insert", ty |-> ty, agg |-> agg, val |-> o, k |-> k]
Br == [op |-> "br"]

Wrapper == [params |-> <<"p">>, ret |-> Pointer, body |-> <<>>]

\* What g may be.
PointerBodies == {
  <<Ret(Arg(1))>>,
  <<Ret(Global)>>,
  <<SelectOf(Arg(1), Arg(2)), AccessTo(Inst(1)), Ret(Inst(1))>>,
  <<Br, Ret(Arg(2)), CallOf(g, Pointer, <<Arg(2), Arg(1)>>), Ret(Inst(3))>>,
  <<CallExt(Arg(1)), AccessTo(Inst(1)), Ret(Arg(2))>>}

Of(params, ret, body) == [params |-> params, ret |-> ret, body |-> body]

MCCallees ==
  {Of(<<"p", "p">>, Pointer, body) : body \in PointerBodies} \cup
  { Of(<<"i", "p">>, Pointer, <<AccessTo(Arg(2)), Ret(Arg(2))>>),
    Of(<<"i", "p">>, Integer, <<AccessTo(Arg(2)), Ret(NoPointer)>>),
    Of(<<"i">>, Integer, <<Ret(NoPointer)>>),
    Of(<<"p", "p">>, Numbered,
       <<InsertInto(Numbered, Undef(1), Arg(2), 2), AccessTo(Arg(1)), Ret(Inst(1))>>),
    Of(<<"p", "p">>, Pair,
       <<InsertInto(Pair, Undef(1), Arg(2), 1), InsertInto(Pair, Inst(1), Arg(1), 2),
         Ret(Inst(2))>>),
    Of(<<"p", "i">>, Pair,
       <<CallExt(Arg(1)), InsertInto(Pair, Undef(2), Arg(1), 2),
         InsertInto(Pair, Inst(2), Inst(1), 1), Ret(Inst(3))>>),
    Of(<<"i", "p">>, Ints,
       <<InsertInto(Ints, Undef(1), NoPointer, 1), AccessTo(Arg(2)), Ret(Inst(1))>>),
    Of(<<"p">>, Pointers, <<InsertInto(Pointers, Undef(1), Arg(1), 2), Ret(Inst(1))>>) }

\* f calls g with its own arguments, in either order, and goes on.
CallsOf(callee) ==
  {CallOf(g, callee.ret, [j \in DOMAIN callee.params |->
                            IF callee.params[j] = "i" THEN NoPointer ELSE args[j]]) :
     args \in {<<Arg(1), Arg(2)>>, <<Arg(2), Arg(1)>>, <<Global, Arg(1)>>}}

\* What f does with the pointer o at instruction i.
After(i, o) == {
  <<AccessTo(o)>>,
  <<SelectOf(Arg(1), o), AccessTo(Inst(i + 1))>>,
  <<CallExt(o), AccessTo(Inst(i + 1)), AccessTo(o)>> }

AfterCall(callee) ==
  CASE callee.ret = Pointer ->
         After(1, Inst(1)) \cup
         {<<CallOf(g, Pointer, [j \in DOMAIN callee.params |->
                                  IF callee.params[j] = "i" THEN NoPointer
                                                            ELSE Inst(1)]),
            AccessTo(Inst(2)), AccessTo(Inst(1))>>}
    [] callee.ret = Numbered ->
         {<<ExtractAt(Inst(1), 2)>> \o rest : rest \in After(2, Inst(2))}
    [] callee.ret = Pair ->
         {<<ExtractAt(Inst(1), 2)>> \o rest : rest \in After(2, Inst(2))}
           \cup {<<ExtractAt(Inst(1), 1), AccessTo(Inst(2))>>}
    [] OTHER -> {<<AccessTo(Arg(1))>>, <<CallExt(Arg(1)), AccessTo(Inst(2))>>}

MainBody(call, rest) == Of(<<"p", "p">>, Integer, <<call>> \o rest \o <<Ret(NoPointer)>>)

Program(main, callee) ==
  [fun \in Function |-> IF fun = f THEN main ELSE IF fun = g THEN callee ELSE Wrapper]

MCPrograms ==
  UNION {{Program(MainBody(call, rest), callee) :
            call \in CallsOf(callee), rest \in AfterCall(callee) \cup {<<>>}} :
         callee \in MCCallees}

\* The result of a select behind the call is used before that of the call.
MCSelectFirst ==
  {Program(MainBody(CallOf(g, Pointer, <<Arg(1), Arg(2)>>),
                    <<SelectOf(Arg(1), Arg(2)), AccessTo(Inst(2)), AccessTo(Inst(1))>>),
           Of(<<"p", "p">>, Pointer, body)) : body \in PointerBodies}
=============================================================================
