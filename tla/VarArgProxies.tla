---------------------------- MODULE VarArgProxies ----------------------------
(***************************************************************************)
(* Bounds of variadic arguments. The bounds of a call's arguments are in   *)
(* its frame of the shadow stack. For a va_list that walks over them the   *)
(* run-time keeps a proxy object with the slot of the next pointer, and    *)
(* SoftBound keeps a variable with the proxy beside each value through     *)
(* which a function gets at a va_list: its own lists, arguments, results   *)
(* of calls, and loads, which share one. A step is an operation of the     *)
(* program with the code inserted for it.                                  *)
(*   lib/instrumentation_mechanisms/SoftBoundMechanism.cpp 741-1174,       *)
(*   1436-1551, 1646-1673; lib/instrumentation_policies/                   *)
(*   PointerBoundsPolicy.cpp 122-180                                       *)
(* A phi or select of lists chooses between the variables, so it is the    *)
(* value that it chose.                                                    *)
(***************************************************************************)
EXTENDS Integers, Sequences, FiniteSets

Code == INSTANCE ShadowStackCode

CONSTANTS
  Signatures, \* calls: the function, which of its parameters are va_lists,
              \* whether it is variadic, the types of the variadic arguments
  Locals,     \* va_lists that a function allocates
  Loads,      \* va_lists that it loads
  Cells,      \* places in memory for the address of a va_list
  MaxDepth, MaxSteps  \* active calls, operations of the program

Type == {"p", "i"}
Signature ==
  [fun : [params : Seq(Type), ret : [array : BOOLEAN, elems : Seq(Type)]],
   lists : SUBSET Nat, variadic : BOOLEAN, varargs : Seq(Type)]

ASSUME SignatureAssumption ==
  /\ Signatures \subseteq Signature
  /\ \A s \in Signatures :
       s.lists \subseteq {j \in DOMAIN s.fun.params : s.fun.params[j] = "p"}
ASSUME LocalsAssumption == IsFiniteSet(Locals)
ASSUME BoundAssumption == MaxDepth \in Nat \ {0} /\ MaxSteps \in Nat

Place(kind, n) == [kind |-> kind, n |-> n]
Null == Place("null", 0)
Result == Place("result", 0)
Shared == Place("shared", 0)   \* proxyAllocs: the variable of all loads
Params == UNION {{Place("param", j) : j \in s.lists} : s \in Signatures}

\* The values that are addresses of va_lists, and the variables with proxies.
Values == {Place("local", n) : n \in Locals} \cup {Place("load", n) : n \in Loads}
            \cup Params \cup {Result, Null}
Variables == (Values \ {Place("load", n) : n \in Loads}) \cup {Shared}
InMemory == {Place("cell", n) : n \in Cells}

NoList == [call |-> 0, n |-> 0]      \* the n-th list of an active call
Lists == [call : 1 .. MaxDepth, n : Locals]
\* A list is at an argument of an active call, or has not been started. An
\* argument stands for its bounds as well.
NoArgument == [call |-> 0, at |-> 0]
Arguments == [call : 1 .. MaxDepth, at : Nat]
NoProxy == 0

VARIABLES
  stack,   \* active calls with their lists, the lists that values refer to,
           \* the variables, the frame of the shadow stack, and the last load
  heap,    \* proxies: whose frame, the next slot, not yet freed
  memory, table,  \* in each cell a list, and the proxy the run-time has for it
  got,     \* the last pointer argument gotten, and the bounds for it
  stale,   \* variables and cells whose list was started, copied to or ended
           \* through another value since
  misused, \* what the program did that the inserted code does not follow
  steps

vars == <<stack, heap, memory, table, got, stale, misused, steps>>

-----------------------------------------------------------------------------
(* Slots *)

\* Mutation: slots of returned pointers are not skipped.
FirstVarArgOfParams(fun) == Cardinality({j \in DOMAIN fun.params : fun.params[j] = "p"})

\* determineShadowStackLocationFirstVarArg
FirstVarArg(fun) ==
  Code!NumberOfPointers(fun.ret)
    + Cardinality({j \in DOMAIN fun.params : fun.params[j] = "p"})

Types(s) == s.fun.params \o s.varargs

CallOf(s) == [ret |-> s.fun.ret,
              args |-> [j \in DOMAIN Types(s) |->
                          IF Types(s)[j] = "p" THEN Code!Global ELSE Code!NoPointer]]

\* What handleCallInvariant stores for argument j of the call: a proxy for a
\* va_list, bounds for other pointers.
Entry(proxy, arg) == [proxy |-> proxy, arg |-> arg]
NoEntry == Entry(NoProxy, NoArgument)

\* The slots 0 .. size - 1 of a call of s in which `proxies` belong to its lists.
Slots(s, depth, proxies, size) ==
  LET call == CallOf(s)
      Stored(j) == IF j \in s.lists THEN Entry(proxies[j], NoArgument)
                   ELSE IF j <= Len(s.fun.params) THEN NoEntry
                   ELSE Entry(NoProxy, [call |-> depth, at |-> j - Len(s.fun.params)])
      In(slot) == {j \in DOMAIN Types(s) : Types(s)[j] = "p" /\ Code!CallSlot(call, j) = slot}
  IN [slot \in 0 .. size - 1 |->
        IF In(slot) = {} THEN NoEntry ELSE Stored(CHOOSE j \in In(slot) : TRUE)]

Frame(s, depth, proxies) == Slots(s, depth, proxies, Code!FrameSize(CallOf(s)))

-----------------------------------------------------------------------------
(* Active calls *)

Top == Len(stack)
Here == stack[Top]

\* A function that is entered: proxies of arguments come from the frame.
Enter(s, depth, frame, refs) ==
  [of |-> s,
   lists |-> [n \in Locals |-> NoArgument],
   ref |-> [v \in Values \cup {Shared} |->
              IF v.kind = "local" THEN [call |-> depth, n |-> v.n]
              ELSE IF v.kind = "param" /\ v.n \in s.lists THEN refs[v.n]
              ELSE NoList],
   proxy |-> [v \in Variables |->
                IF v.kind = "param" /\ v.n \in s.lists
                  THEN frame[Code!ArgumentSlot(s.fun, v.n)].proxy ELSE NoProxy],
   frame |-> frame,
   loaded |-> Shared]

Init ==
  /\ \E s \in Signatures :
       /\ s.lists = {}
       /\ stack = <<Enter(s, 1, Frame(s, 1, <<>>), <<>>)>>
  /\ heap = <<>>
  /\ memory = [m \in InMemory |-> NoList] /\ table = [m \in InMemory |-> NoProxy]
  /\ got = [arg |-> NoArgument, bounds |-> NoArgument]
  /\ stale = {} /\ misused = {} /\ steps = 0

\* The variable that the witness of a value refers to.
Variable(v) == IF v.kind = "load" THEN Shared ELSE v
ProxyOf(v) == Here.proxy[Variable(v)]
Ref(v) == Here.ref[v]
Content(list) == stack[list.call].lists[list.n]
IsStarted(v) == Ref(v) # NoList /\ Content(Ref(v)) # NoArgument
IsLive(p) == p # NoProxy /\ heap[p].live /\ heap[p].call <= Top

IsStale(v) == <<Top, Variable(v)>> \in stale
\* Another va_list was loaded since.
IsOverwritten(v) == v.kind = "load" /\ v # Here.loaded

\* All places that refer to a list.
Aliases(list) ==
  {a \in (1 .. Top) \X Variables : stack[a[1]].ref[a[2]] = list}
    \cup {<<0, m>> : m \in {m \in InMemory : memory[m] = list}}

Executes == steps < MaxSteps /\ steps' = steps + 1

\* The proxies of S are used, those of L to follow the list.
Using(S, L, others) ==
  misused' = misused \cup others
               \cup {"overwritten" : v \in {v \in S : IsOverwritten(v)}}
               \cup {"restarted" : v \in {v \in L : IsStale(v)}}

\* The list of v gets a new position and its variable a new proxy.
Restarted(v, content, proxy) ==
  /\ stack' = [stack EXCEPT ![Ref(v).call].lists[Ref(v).n] = content,
                            ![Top].proxy[Variable(v)] = proxy]
  /\ stale' = (stale \cup Aliases(Ref(v))) \ {<<Top, Variable(v)>>}

Unended(v) == IF IsStarted(v) THEN {"unended"} ELSE {}

-----------------------------------------------------------------------------
(* Operations on lists *)

\* va_start: initializeVaListProxy
VaStart(v) ==
  /\ Executes /\ Here.of.variadic /\ Ref(v) # NoList
  /\ heap' = Append(heap, [call |-> Top, slot |-> FirstVarArg(Here.of.fun), live |-> TRUE])
  /\ Restarted(v, [call |-> Top, at |-> 1], Len(heap'))
  /\ Using({v}, {}, Unended(v))
  /\ UNCHANGED <<memory, table, got>>

\* Mutation: source and target have the same proxy.
VaCopySharing(d, s) ==
  /\ Executes /\ Ref(d) # NoList /\ IsStarted(s) /\ Ref(d) # Ref(s)
  /\ heap' = heap
  /\ Restarted(d, Content(Ref(s)), ProxyOf(s))
  /\ Using({d, s}, {s}, Unended(d))
  /\ UNCHANGED <<memory, table, got>>

\* va_copy: copyVaListProxy
VaCopy(d, s) ==
  /\ Executes /\ Ref(d) # NoList /\ IsStarted(s) /\ Ref(d) # Ref(s)
  /\ heap' = Append(heap, IF IsLive(ProxyOf(s)) THEN heap[ProxyOf(s)]
                          ELSE [call |-> Top, slot |-> 0, live |-> FALSE])
  /\ Restarted(d, Content(Ref(s)), Len(heap'))
  /\ Using({d, s}, {s}, Unended(d))
  /\ UNCHANGED <<memory, table, got>>

\* Mutation: the proxy is not freed.
VaEndForgetting(v) ==
  /\ Executes /\ IsStarted(v)
  /\ heap' = heap
  /\ Restarted(v, NoArgument, ProxyOf(v))
  /\ Using({v}, {v}, {})
  /\ UNCHANGED <<memory, table, got>>

\* va_end: freeVaListProxy
VaEnd(v) ==
  /\ Executes /\ IsStarted(v)
  /\ heap' = IF IsLive(ProxyOf(v)) THEN [heap EXCEPT ![ProxyOf(v)].live = FALSE] ELSE heap
  /\ Restarted(v, NoArgument, ProxyOf(v))
  /\ Using({v}, {v}, {})
  /\ UNCHANGED <<memory, table, got>>

\* The next argument of the list of v has type ty.
IsNext(v, ty) ==
  /\ IsStarted(v)
  /\ Content(Ref(v)).at \in DOMAIN stack[Content(Ref(v)).call].of.varargs
  /\ stack[Content(Ref(v)).call].of.varargs[Content(Ref(v)).at] = ty

Advanced(v) == stack' = [stack EXCEPT ![Ref(v).call].lists[Ref(v).n].at = @ + 1]

\* va_arg of a pointer: handleInvariant for the load that gets it asks the
\* proxy for the next bounds. They are put in two variables of the function,
\* which are read right behind that load.
VaArgPointer(v) ==
  LET p == ProxyOf(v) IN
  /\ Executes /\ IsNext(v, "p")
  /\ Advanced(v)
  /\ IF IsLive(p) /\ heap[p].slot \in DOMAIN stack[heap[p].call].frame
       THEN got' = [arg |-> Content(Ref(v)),
                    bounds |-> stack[heap[p].call].frame[heap[p].slot].arg]
       ELSE got' = [arg |-> Content(Ref(v)), bounds |-> NoArgument]
  /\ heap' = IF IsLive(p) THEN [heap EXCEPT ![p].slot = @ + 1] ELSE heap
  /\ Using({v}, {v}, {})
  /\ UNCHANGED <<memory, table, stale>>

\* va_arg of anything else: no target.
VaArgOther(v) ==
  /\ Executes /\ IsNext(v, "i")
  /\ Advanced(v)
  /\ UNCHANGED <<heap, memory, table, got, stale, misused>>

-----------------------------------------------------------------------------
(* Lists are handed on *)

\* The address of a list is stored: insertVarArgMetadataStore
StoreList(v, m) ==
  /\ Executes
  /\ memory' = [memory EXCEPT ![m] = Ref(v)]
  /\ table' = [table EXCEPT ![m] = ProxyOf(v)]
  /\ stale' = IF IsStale(v) THEN stale \cup {<<0, m>>} ELSE stale \ {<<0, m>>}
  /\ Using({v}, {}, {})
  /\ UNCHANGED <<stack, heap, got>>

\* The address of a list is loaded: insertVarArgMetadataLoad
LoadList(v, m) ==
  /\ Executes
  /\ stack' = [stack EXCEPT ![Top].ref[v] = memory[m], ![Top].ref[Shared] = memory[m],
                            ![Top].proxy[Shared] = table[m], ![Top].loaded = v]
  /\ stale' = IF <<0, m>> \in stale THEN stale \cup {<<Top, Shared>>}
                                    ELSE stale \ {<<Top, Shared>>}
  /\ UNCHANGED <<heap, memory, table, got, misused>>

\* Lists are passed: handleCallInvariant, and insertVarArgWitness in the callee.
Call(s, given) ==
  LET frame == Frame(s, Top + 1, [j \in s.lists |-> ProxyOf(given[j])]) IN
  /\ Executes /\ Top < MaxDepth
  /\ stack' = Append(stack, Enter(s, Top + 1, frame, [j \in s.lists |-> Ref(given[j])]))
  /\ stale' = stale \cup {<<Top + 1, Place("param", j)>> : j \in {j \in s.lists : IsStale(given[j])}}
  /\ Using({given[j] : j \in s.lists}, {}, {})
  /\ UNCHANGED <<heap, memory, table, got>>

\* What is left of a list, or of a reference to one, when the call ends.
Survives(content) == IF content.call = Top THEN NoArgument ELSE content
Remaining(list) == IF list.call = Top THEN NoList ELSE list

Lost == {"unended" : c \in {c \in 1 .. Top : \E n \in Locals :
           \/ stack[c].lists[n].call = Top
           \/ c = Top /\ stack[c].lists[n] # NoArgument}}

ReturnsList == Code!NumberOfPointers(Here.of.fun.ret) = 1

\* The callers when the call on top returns; `proxy` is what the shadow stack
\* has for a list that is returned.
Callers(list, proxy) ==
  [c \in 1 .. Top - 1 |->
     LET caller == [stack[c] EXCEPT
                      !.lists = [n \in Locals |-> Survives(stack[c].lists[n])],
                      !.ref = [v \in DOMAIN @ |-> Remaining(@[v])]]
     IN IF c = Top - 1 /\ ReturnsList
          THEN [caller EXCEPT !.ref[Result] = Remaining(list), !.proxy[Result] = proxy]
          ELSE caller]

\* A function that returns a list stores the proxy in the first slot.
Return(v) ==
  /\ Executes /\ Top > 1
  /\ ReturnsList \/ v = Null
  /\ stack' = Callers(Ref(v), ProxyOf(v))
  /\ memory' = [m \in InMemory |-> Remaining(memory[m])]
  /\ stale' =
       LET left == {a \in stale : a[1] # Top} IN
       IF ~ReturnsList THEN left
       ELSE IF IsStale(v) THEN left \cup {<<Top - 1, Result>>}
       ELSE left \ {<<Top - 1, Result>>}
  /\ Using({v}, {}, Lost)
  /\ UNCHANGED <<heap, table, got>>

\* The values that a function can use.
Usable == {v \in Values : v.kind = "param" => v.n \in Here.of.lists}

Next ==
  \/ \E v \in Usable : VaStart(v) \/ VaEnd(v) \/ VaArgPointer(v) \/ VaArgOther(v) \/ Return(v)
  \/ \E d, s \in Usable : VaCopy(d, s)
  \/ \E v \in Usable, m \in InMemory : StoreList(v, m)
  \/ \E v \in Values, m \in InMemory : v.kind = "load" /\ LoadList(v, m)
  \/ \E s \in Signatures : \E given \in [s.lists -> Usable] : Call(s, given)

Spec == Init /\ [][Next]_vars

-----------------------------------------------------------------------------
(***************************************************************************)
(* Properties.                                                             *)
(***************************************************************************)

\* Active calls, lists, variables and proxies keep their types; a frame has a
\* slot for each pointer that is passed or returned.
TypeOK ==
  /\ \A c \in 1 .. Top :
       /\ stack[c].of \in Signatures
       /\ stack[c].lists \in [Locals -> Arguments \cup {NoArgument}]
       /\ stack[c].ref \in [Values \cup {Shared} -> Lists \cup {NoList}]
       /\ stack[c].proxy \in [Variables -> 0 .. Len(heap)]
       /\ stack[c].frame \in
            [0 .. Code!NumberOfPointers(stack[c].of.fun.ret)
                    + Cardinality({j \in DOMAIN Types(stack[c].of) : Types(stack[c].of)[j] = "p"}) - 1
               -> [proxy : 0 .. Len(heap), arg : Arguments \cup {NoArgument}]]
  /\ heap \in Seq([call : 1 .. MaxDepth, slot : Nat, live : BOOLEAN])
  /\ memory \in [InMemory -> Lists \cup {NoList}] /\ table \in [InMemory -> 0 .. Len(heap)]
  /\ stale \subseteq (1 .. Top) \X Variables \cup {0} \X InMemory

\* Programs that the inserted code can follow: a list is started, copied to
\* and ended through one value only, as long as others refer to it, and of two
\* lists that are loaded the older one is not used any more.
Followed == misused \cap {"restarted", "overwritten"} = {}

\* The proxy p is where a list with this content is.
InStep(p, content) ==
  /\ IsLive(p) /\ heap[p].call = content.call
  /\ LET s == stack[content.call].of IN
     heap[p].slot = FirstVarArg(s.fun)
       + Cardinality({k \in 1 .. content.at - 1 : s.varargs[k] = "p"})

\* Through whatever value a function reaches a list, passed, returned, stored
\* or loaded, the proxy it finds there is as far as the list itself.
ProxiesAreInStep ==
  Followed =>
    /\ \A c \in 1 .. Top, v \in Variables :
         LET list == stack[c].ref[v] IN
         list # NoList /\ <<c, v>> \notin stale /\ Content(list) # NoArgument
           => InStep(stack[c].proxy[v], Content(list))
    /\ \A m \in InMemory :
         memory[m] # NoList /\ <<0, m>> \notin stale /\ Content(memory[m]) # NoArgument
           => InStep(table[m], Content(memory[m]))

\* Every pointer gotten from a list has its own bounds ("a proxy object that
\* provides metadata for the va_started va_list", SoftBoundMechanism.h 141).
VarArgBoundsAreRight == Followed => got.bounds = got.arg

\* There is one proxy for each started list: va_end frees that of the list,
\* also when it was moved to by va_copy ("Delete the proxy object at this point
\* as well", SoftBoundMechanism.h 153).
ProxiesAreFreed ==
  misused = {} =>
    Cardinality({p \in DOMAIN heap : heap[p].live})
      = Cardinality({a \in (1 .. Top) \X Locals : stack[a[1]].lists[a[2]] # NoArgument})
=============================================================================
