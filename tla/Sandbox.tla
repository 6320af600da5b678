-------------------------------- MODULE Sandbox --------------------------------
(***************************************************************************)
(* User programs: the compiler from infix text to byte code                *)
(* (sandbox/compiler.hpp), the interpreter and its limits                  *)
(* (sandbox/program.hpp), the lowering to WebAssembly                      *)
(* (wasm/wasm_emit.hpp, wasm_runner.hpp) and the detectors that run either *)
(* (vision/sandboxed_detector.hpp, wasm/wasm_detector.hpp).                *)
(*                                                                         *)
(* A text is a sequence of tokens; the spelling of names and numbers and   *)
(* the white space between tokens are left out.  Numbers are those of a    *)
(* floating-point format whose spacing is one: a quotient is rounded       *)
(* toward zero and keeps its sign, and both engines compute with the       *)
(* infinities, the negative zero and NaN, each as its instructions do.     *)
(* Precision and overflow are left out.                                    *)
(***************************************************************************)
EXTENDS Integers, Sequences, SequencesExt

CONSTANTS
  Names,        \* the inputs of the ABI, in order: <<"x", "y", "z">>
  Literals,     \* number tokens, with their values
  Tokens,       \* what a user may type
  MaxTokens,    \* bound: the length of a text
  Channels,     \* expressions a capability expects
  MaxOps, MaxStack, Fuel,   \* the limits of the two engines
  Inputs,       \* what the inputs may be when the program runs, in order
  Workspace     \* the values an answer may have

VARIABLE source

-------------------------------------------------------------------------------
(* Compiler.  A rule of the grammar, started at a token, gives the code it *)
(* emits and the token it stopped at; of a call also how many arguments.   *)

Instr(op, arg) == [op |-> op, arg |-> arg]

Arity == [abs |-> 1, min |-> 2, max |-> 2, clamp |-> 3]

(* The parameters of a lowered program.                                    *)
Params == 3

Comma     == ","   \* between the arguments of a call
Semicolon == ";"   \* between expressions

Punctuation == {"+", "-", "*", "/", "(", ")", Comma, "end"}

(* The names are the parameters; a name, a number and a mark differ.       *)
ASSUME SandboxAssumption ==
  /\ Names \in Seq(STRING) /\ Len(Names) = Params
  /\ \A j, k \in DOMAIN Names : Names[j] = Names[k] => j = k
  /\ Literals \in [DOMAIN Literals -> Int]
  /\ \A k \in DOMAIN Names : Names[k] \notin Punctuation \cup DOMAIN Literals
  /\ \A t \in DOMAIN Literals : t \notin Punctuation \cup DOMAIN Arity
  /\ Inputs \subseteq [1..Params -> Int]
  /\ Channels \in Nat /\ MaxOps \in Nat /\ MaxStack \in Nat /\ Fuel \in Nat

Parsed(at, code) == [ok |-> TRUE, at |-> at, code |-> code, argc |-> 0]
Fail(at) == [ok |-> FALSE, at |-> at, code |-> <<>>, argc |-> 0]

(* peek() after skip_ws().                                                 *)
Tok(s, i) == IF i <= Len(s) THEN s[i] ELSE "end"

Emit(r, ins) == IF r.ok THEN [r EXCEPT !.code = Append(@, ins)] ELSE r

(* One rule, and then another where it stopped.                            *)
Joined(r, next) == IF r.ok THEN [next EXCEPT !.code = r.code \o @] ELSE r

Expect(s, r, token) ==
  IF ~r.ok THEN r
  ELSE IF Tok(s, r.at) = token THEN [r EXCEPT !.at = @ + 1] ELSE Fail(r.at)

(* p has what the rules give at the other tokens.                          *)

Expr(s, p, i) == LET t == p[<<"term", i>>] IN Joined(t, p[<<"sum", t.at>>])

(* Mutated form of Sum: the rest of the sum is the right operand.          *)
Sum_ToTheRight(s, p, i) ==
  IF Tok(s, i) \notin {"+", "-"} THEN Parsed(i, <<>>)
  ELSE Emit(p[<<"expr", i + 1>>], Instr(Tok(s, i), 0))

(* expr() loops over the operators, term after term.                       *)
Sum(s, p, i) ==
  IF Tok(s, i) \notin {"+", "-"} THEN Parsed(i, <<>>)
  ELSE LET t == p[<<"term", i + 1>>]
       IN  Joined(Emit(t, Instr(Tok(s, i), 0)), p[<<"sum", t.at>>])

Term(s, p, i) == LET f == p[<<"factor", i>>] IN Joined(f, p[<<"product", f.at>>])

Product(s, p, i) ==
  IF Tok(s, i) \notin {"*", "/"} THEN Parsed(i, <<>>)
  ELSE LET f == p[<<"factor", i + 1>>]
       IN  Joined(Emit(f, Instr(Tok(s, i), 0)), p[<<"product", f.at>>])

Call(s, p, i) ==
  LET a == p[<<"args", i + 2>>]
      r == Expect(s, a, ")")
  IN  IF ~r.ok THEN r
      ELSE IF s[i] \in DOMAIN Arity /\ Arity[s[i]] = a.argc
      THEN Parsed(r.at, Append(r.code, Instr(s[i], 0)))
      ELSE Fail(a.at)

Identifier(s, p, i) ==
  IF Tok(s, i + 1) = "(" THEN Call(s, p, i)
  ELSE IF Contains(Names, s[i])
  THEN Parsed(i + 1, <<Instr("load", CHOOSE k \in DOMAIN Names : Names[k] = s[i])>>)
  ELSE Fail(i + 1)

(* A parenthesis, a sign, a number, a name or a call.                      *)
Factor(s, p, i) ==
  LET t == Tok(s, i)
  IN  CASE t = "(" -> Expect(s, p[<<"expr", i + 1>>], ")")
        [] t = "-" -> Emit(p[<<"factor", i + 1>>], Instr("neg", 0))
        [] t \in DOMAIN Literals -> Parsed(i + 1, <<Instr("const", Literals[t])>>)
        [] t \in DOMAIN Arity \/ Contains(Names, t) -> Identifier(s, p, i)
        [] OTHER -> Fail(i)

Args(s, p, i) ==
  LET e == p[<<"expr", i>>]
  IN  IF ~e.ok \/ Tok(s, e.at) # Comma THEN [e EXCEPT !.argc = 1]
      ELSE LET more == p[<<"args", e.at + 1>>]
           IN  [Joined(e, more) EXCEPT !.argc = more.argc + 1]

Rules == {"expr", "sum", "term", "product", "factor", "args"}

Rule(s, p, q) ==
  LET i == q[2]
  IN  CASE q[1] = "expr"    -> Expr(s, p, i)
        [] q[1] = "sum"     -> Sum(s, p, i)
        [] q[1] = "term"    -> Term(s, p, i)
        [] q[1] = "product" -> Product(s, p, i)
        [] q[1] = "factor"  -> Factor(s, p, i)
        [] q[1] = "args"    -> Args(s, p, i)

Parse(s) == LET p[q \in Rules \X (1..(Len(s) + 1))] == Rule(s, p, q) IN p

ParseChannel(s) ==
  LET r == Parse(s)[<<"expr", 1>>]
  IN  IF r.ok /\ r.at # Len(s) + 1 THEN Fail(r.at) ELSE r

(* The expressions of a text, the blank ones dropped.                      *)
Closed(part) == IF part.cur = <<>> THEN part.segs ELSE Append(part.segs, part.cur)

Split(s) ==
  LET part[n \in 0..Len(s)] ==
        IF n = 0 THEN [segs |-> <<>>, cur |-> <<>>]
        ELSE IF s[n] = Semicolon THEN [segs |-> Closed(part[n - 1]), cur |-> <<>>]
        ELSE [part[n - 1] EXCEPT !.cur = Append(@, s[n])]
  IN  Closed(part[Len(s)])

(* The program, as a set of at most one: empty when the text is refused.   *)
Compiled(s, expected) ==
  LET segs == Split(s)
      parsed == [k \in DOMAIN segs |-> ParseChannel(segs[k])]
  IN  IF Len(segs) = expected /\ \A k \in DOMAIN segs : parsed[k].ok
      THEN {[k \in DOMAIN segs |-> parsed[k].code]}
      ELSE {}

-------------------------------------------------------------------------------
(* Numbers, written as quotients: an integer has the denominator 1, the    *)
(* negative zero -1, an infinity and NaN have 0.                           *)

Number(n) == <<n, 1>>
MinusZero == <<0, -1>>
Infinity  == <<1, 0>>
NaN       == <<0, 0>>

Finite(a)   == a[2] # 0
Negative(a) == a[1] < 0 \/ a[2] < 0
Absolute(n) == IF n < 0 THEN -n ELSE n
Neg(a)      == IF a[1] = 0 THEN <<0, -a[2]>> ELSE <<-a[1], a[2]>>

(* The comparison of C++: the zeros are equal, and NaN is in no order.     *)
Less(a, b) ==
  IF Finite(a) /\ Finite(b) THEN a[1] < b[1]
  ELSE /\ a # b /\ a # NaN /\ b # NaN
       /\ a = Neg(Infinity) \/ b = Infinity

Added(a, b) ==
  IF Finite(a) /\ Finite(b)
  THEN IF a = MinusZero /\ b = MinusZero THEN MinusZero ELSE Number(a[1] + b[1])
  ELSE IF Finite(b) \/ a = b THEN a
  ELSE IF Finite(a) THEN b ELSE NaN

(* The number of size p / q: p and q may be zero.                          *)
Signed(negative, p, q) ==
  LET size == IF q # 0 THEN Number(p \div q) ELSE IF p = 0 THEN NaN ELSE Infinity
  IN  IF negative THEN Neg(size) ELSE size

Opposite(a, b) == Negative(a) # Negative(b)

Multiplied(a, b) == Signed(Opposite(a, b), Absolute(a[1] * b[1]), Absolute(a[2] * b[2]))
Divided(a, b)    == Signed(Opposite(a, b), Absolute(a[1] * b[2]), Absolute(a[2] * b[1]))

(* What both engines compute alike.                                        *)
Arithmetic(op, a) ==
  CASE op = "neg" -> Neg(a[1])
    [] op = "+"   -> Added(a[1], a[2])
    [] op = "-"   -> Added(a[1], Neg(a[2]))
    [] op = "*"   -> Multiplied(a[1], a[2])
    [] op = "/"   -> Divided(a[1], a[2])

(* The interpreter compares: a NaN fails every comparison and is dropped   *)
(* or kept by where it stands, and the zeros are not told apart.           *)
Apply(op, a) ==
  CASE op = "abs"   -> IF Less(a[1], Number(0)) THEN Neg(a[1]) ELSE a[1]
    [] op = "min"   -> IF Less(a[1], a[2]) THEN a[1] ELSE a[2]
    [] op = "max"   -> IF Less(a[2], a[1]) THEN a[1] ELSE a[2]
    [] op = "clamp" -> IF Less(a[1], a[2]) THEN a[2] ELSE IF Less(a[3], a[1]) THEN a[3] ELSE a[1]
    [] OTHER        -> Arithmetic(op, a)

(* f64.abs, f64.min and f64.max: the sign is cleared, a NaN is passed on,  *)
(* and the negative zero is below the other.                               *)
Below(a, b) == Less(a, b) \/ (a = MinusZero /\ b = Number(0))

WasmApply(op, a) ==
  CASE op = "abs" -> IF Negative(a[1]) THEN Neg(a[1]) ELSE a[1]
    [] op \in {"min", "max"} /\ NaN \in {a[1], a[2]} -> NaN
    [] op = "min" /\ NaN \notin {a[1], a[2]} -> IF Below(a[1], a[2]) THEN a[1] ELSE a[2]
    [] op = "max" /\ NaN \notin {a[1], a[2]} -> IF Below(a[1], a[2]) THEN a[2] ELSE a[1]
    [] OTHER -> Arithmetic(op, a)

Operands(op) ==
  IF op = "neg" THEN 1 ELSE IF op \in DOMAIN Arity THEN Arity[op] ELSE 2

-------------------------------------------------------------------------------
(* eval_channel(): one pass over the code, under the two limits.           *)

Machine == [status |-> "running", ops |-> 0, stack |-> <<>>]

Refuse(m, why) == [m EXCEPT !.status = why]

Push(m, v, limit) ==
  IF Len(m.stack) >= limit THEN Refuse(m, "overflow")
  ELSE [m EXCEPT !.stack = Append(@, v)]

(* The operands on top of the stack, and the result in their place.        *)
Top(stack, n) == SubSeq(stack, Len(stack) - n + 1, Len(stack))

Reduce(m, n, v) ==
  IF Len(m.stack) < n THEN Refuse(m, "underflow")
  ELSE [m EXCEPT !.stack = Append(SubSeq(@, 1, Len(@) - n), v)]

Carried(m, ins, in, lim) ==
  LET n == Operands(ins.op)
  IN  CASE ins.op = "const" -> Push(m, Number(ins.arg), lim.stack)
        [] ins.op = "load"  -> IF ins.arg > Len(in) THEN Refuse(m, "range")
                               ELSE Push(m, Number(in[ins.arg]), lim.stack)
        [] OTHER -> Reduce(m, n, Apply(ins.op, Top(m.stack, n)))

(* Mutated form of Exec: the operation that uses the budget up is refused. *)
Exec_OffByOne(m, ins, in, lim) ==
  IF m.status # "running" THEN m
  ELSE IF m.ops + 1 >= lim.ops THEN Refuse(m, "budget")
  ELSE Carried([m EXCEPT !.ops = @ + 1], ins, in, lim)

Exec(m, ins, in, lim) ==
  IF m.status # "running" THEN m
  ELSE IF m.ops + 1 > lim.ops THEN Refuse(m, "budget")
  ELSE Carried([m EXCEPT !.ops = @ + 1], ins, in, lim)

(* The machine after so many instructions.                                 *)
Machines(code, in, lim) ==
  LET m[n \in 0..Len(code)] ==
        IF n = 0 THEN Machine ELSE Exec(m[n - 1], code[n], in, lim)
  IN  m

EvalChannel(code, in, lim) ==
  LET m == Machines(code, in, lim)[Len(code)]
  IN  IF m.status # "running" THEN m
      ELSE Refuse(m, IF Len(m.stack) = 1 THEN "ok" ELSE "shape")

-------------------------------------------------------------------------------
(* emit() and the engine that runs its result.  Locals 1 to Params are the *)
(* inputs, the next two the scratch of a clamp.                            *)

(* Mutated form of Lower: the bounds are popped in the order they appear.  *)
Lower_BoundsSwapped(ins) ==
  IF ins.op # "clamp" THEN <<ins>>
  ELSE <<Instr("set", Params + 1), Instr("set", Params + 2),
         Instr("load", Params + 1), Instr("max", 0), Instr("load", Params + 2), Instr("min", 0)>>

(* One instruction each, but a clamp is max with the low and min with the  *)
(* high bound.                                                             *)
Lower(ins) ==
  IF ins.op # "clamp" THEN <<ins>>
  ELSE <<Instr("set", Params + 2), Instr("set", Params + 1),
         Instr("load", Params + 1), Instr("max", 0), Instr("load", Params + 2), Instr("min", 0)>>

(* One instruction costs one unit of fuel, shared by the channels of a     *)
(* call.  A stack that does not fit is what validation refuses.            *)
WasmStep(m, ins) ==
  IF m.status # "running" THEN m
  ELSE IF m.fuel = 0 THEN Refuse(m, "trap")
  ELSE LET next == [m EXCEPT !.fuel = @ - 1]
       IN  CASE ins.op = "const" -> [next EXCEPT !.stack = Append(@, Number(ins.arg))]
             [] ins.op = "load"  -> [next EXCEPT !.stack = Append(@, m.locals[ins.arg])]
             [] ins.op = "set"   ->
                  IF m.stack = <<>> THEN Refuse(m, "invalid")
                  ELSE [next EXCEPT !.locals[ins.arg] = Last(m.stack), !.stack = Front(@)]
             [] OTHER -> LET n == Operands(ins.op)
                         IN  Reduce(next, n, WasmApply(ins.op, Top(m.stack, n)))

WasmSteps(m, lowered) ==
  LET w[n \in 0..Len(lowered)] ==
        IF n = 0 THEN m ELSE WasmStep(w[n - 1], lowered[n])
  IN  w[Len(lowered)]

WasmStart(in, fuel) ==
  [status |-> "running", fuel |-> fuel, stack |-> <<>>,
   locals |-> [k \in 1..(Params + 2) |-> Number(IF k <= Len(in) THEN in[k] ELSE 0)]]

(* What is emitted for one instruction follows what is for the last one.   *)
WasmCall(code, in, fuel) ==
  LET w[n \in 0..Len(code)] ==
        IF n = 0 THEN WasmStart(in, fuel) ELSE WasmSteps(w[n - 1], Lower(code[n]))
      m == w[Len(code)]
  IN  IF m.status # "running" THEN m
      ELSE Refuse(m, IF Len(m.stack) = 1 THEN "ok" ELSE "invalid")

(* eval(): one store, one call per channel.                                *)
WasmEval(program, in) ==
  LET eval[n \in 0..Len(program)] ==
        IF n = 0 THEN [ok |-> TRUE, fuel |-> Fuel, out |-> <<>>]
        ELSE LET acc == eval[n - 1]
                 m   == WasmCall(program[n], in, acc.fuel)
             IN  IF acc.ok /\ m.status = "ok"
                 THEN [ok |-> TRUE, fuel |-> m.fuel, out |-> Append(acc.out, m.stack[1])]
                 ELSE [acc EXCEPT !.ok = FALSE]
  IN  eval[Len(program)]

(* run(): one value per channel, or the first refusal.                     *)
Run(program, in, lim) ==
  LET m == [k \in DOMAIN program |-> EvalChannel(program[k], in, lim)]
  IN  IF \A k \in DOMAIN m : m[k].status = "ok"
      THEN [ok |-> TRUE, out |-> [k \in DOMAIN m |-> m[k].stack[1]]]
      ELSE [ok |-> FALSE, out |-> <<>>]

(* What a detector makes of either result: a position inside the workspace *)
(* or nothing.  A position of either zero is the same place.               *)
Position(result) ==
  IF result.ok /\ \A k \in DOMAIN result.out :
                    Finite(result.out[k]) /\ result.out[k][1] \in Workspace
  THEN {[k \in DOMAIN result.out |-> result.out[k][1]]} ELSE {}

Detect(program, in)     == Position(Run(program, in, [ops |-> MaxOps, stack |-> MaxStack]))
WasmDetect(program, in) == Position(WasmEval(program, in))

-------------------------------------------------------------------------------
(* A user types, token by token, and starts over.                          *)

(* A text refused at one of its tokens stays refused however it goes on.   *)
Open(s) ==
  LET segs == Split(s)
  IN  \A k \in DOMAIN segs :
        LET r == ParseChannel(segs[k])
        IN  r.ok \/ (k = Len(segs) /\ Last(s) # Semicolon /\ r.at > Len(segs[k]))

SandboxInit == source = <<>>

(* Bound: a text leaves room for the parentheses it has to close.          *)
Unclosed(s) ==
  Len(SelectSeq(s, LAMBDA t : t = "(")) - Len(SelectSeq(s, LAMBDA t : t = ")"))

Type ==
  /\ Open(source)
  /\ \E t \in Tokens : source' = Append(source, t)
  /\ Len(source') + Unclosed(source') <= MaxTokens

StartOver == source # <<>> /\ source' = <<>>

SandboxNext == StartOver \/ Type

SandboxSpec == SandboxInit /\ [][SandboxNext]_source

-------------------------------------------------------------------------------
(* Reference: what the grammar makes of the tokens from i to j of a text,  *)
(* as the set of the values its readings have.                             *)
(*   sum     = product { ("+" | "-") product }                             *)
(*   product = factor { ("*" | "/") factor }                               *)
(*   factor  = number | name | "(" sum ")" | "-" factor | f "(" list ")"   *)
(*   list    = sum { "," sum }                                             *)

Kinds == {"sum", "product", "factor", "list"}

Marks(s, i, j, tokens) == {k \in i..j : s[k] \in tokens}

(* What an operator, a list, a sign, a call and a token make of the        *)
(* readings of their parts.                                                *)
Both(op, left, right) == {Apply(op, <<a, b>>) : a \in left, b \in right}
Single(left) == {<<a>> : a \in left}
Listed(left, right) == {Cons(a, l) : a \in left, l \in right}
Negated(right) == {Apply("neg", <<a>>) : a \in right}
Called(name, lists) == {Apply(name, l) : l \in {l \in lists : Len(l) = Arity[name]}}
Atom(t, in) == {Number(Literals[n]) : n \in {t} \cap DOMAIN Literals} \cup
               {Number(in[k]) : k \in {k \in DOMAIN Names : Names[k] = t}}

(* r has the readings of the shorter parts of the text.                    *)
SumOf(s, r, i, j) ==
  r[<<"product", i, j>>] \cup
  UNION {Both(s[k], r[<<"sum", i, k - 1>>], r[<<"product", k + 1, j>>]) :
           k \in Marks(s, i + 1, j - 1, {"+", "-"})}

ProductOf(s, r, i, j) ==
  r[<<"factor", i, j>>] \cup
  UNION {Both(s[k], r[<<"product", i, k - 1>>], r[<<"factor", k + 1, j>>]) :
           k \in Marks(s, i + 1, j - 1, {"*", "/"})}

FactorOf(s, in, r, i, j) ==
  CASE i > j -> {}
    [] i = j -> Atom(s[i], in)
    [] i < j /\ s[i] = "-" -> Negated(r[<<"factor", i + 1, j>>])
    [] i < j /\ s[i] = "(" /\ s[j] = ")" -> r[<<"sum", i + 1, j - 1>>]
    [] i + 1 < j /\ s[i] \in DOMAIN Arity /\ s[i + 1] = "(" /\ s[j] = ")" ->
         Called(s[i], r[<<"list", i + 2, j - 1>>])
    [] OTHER -> {}

ListOf(s, r, i, j) ==
  Single(r[<<"sum", i, j>>]) \cup
  UNION {Listed(r[<<"sum", i, k - 1>>], r[<<"list", k + 1, j>>]) :
           k \in Marks(s, i, j, {Comma})}

Reading(s, in, r, q) ==
  CASE q[1] = "sum"     -> SumOf(s, r, q[2], q[3])
    [] q[1] = "product" -> ProductOf(s, r, q[2], q[3])
    [] q[1] = "factor"  -> FactorOf(s, in, r, q[2], q[3])
    [] q[1] = "list"    -> ListOf(s, r, q[2], q[3])

Readings(s, in) ==
  LET r[q \in Kinds \X (1..(Len(s) + 1)) \X (0..Len(s))] == Reading(s, in, r, q) IN r

Read(s, in) == Readings(s, in)[<<"sum", 1, Len(s)>>]

-------------------------------------------------------------------------------
(* Properties                                                              *)

(* The compiler accepts a text exactly when each of its expressions has a  *)
(* reading, and there are as many as the capability expects; the program   *)
(* then computes what the reading says, for every input, on any machine as *)
(* large as the text.                                                      *)
CompiledMeansSource ==
  \A in \in Inputs :
    LET segs == Split(source)
        programs == Compiled(source, Channels)
    IN  IF Len(segs) = Channels /\ \A k \in DOMAIN segs : Read(segs[k], in) # {}
        THEN \E p \in programs : \A k \in DOMAIN segs :
               LET m == EvalChannel(p[k], in, [ops |-> Len(source), stack |-> Len(source)])
               IN  m.status = "ok" /\ Read(segs[k], in) = {m.stack[1]}
        ELSE programs = {}

(* What the stack holds after so many instructions of a channel.           *)
Heights(code) ==
  LET h[n \in 0..Len(code)] ==
        IF n = 0 THEN 0
        ELSE IF code[n].op \in {"const", "load"} THEN h[n - 1] + 1
        ELSE h[n - 1] + 1 - Operands(code[n].op)
  IN  h

(* Of a compiled program the limits are all that can go wrong: the stack   *)
(* never runs dry and is never left with more than the result.  A channel  *)
(* is refused exactly when it is longer than the budget or needs a deeper  *)
(* stack, and not one operation earlier or later.                          *)
RefusedForLimitsOnly ==
  \A p \in Compiled(source, Channels), in \in Inputs, k \in 1..Channels,
     ops \in 1..MaxOps, stack \in 1..MaxStack :
    (EvalChannel(p[k], in, [ops |-> ops, stack |-> stack]).status = "ok")
      <=> /\ Len(p[k]) <= ops
          /\ \A n \in DOMAIN p[k] : Heights(p[k])[n] <= stack

(* Operands of which both engines make the same.  Of neither zero that is  *)
(* negative nor NaN are min, max and clamp sure, and of a clamp the bounds *)
(* have to be in order.                                                    *)
Plain(a) == a # NaN /\ a # MinusZero

SameInBoth(op, a) ==
  CASE op = "abs"   -> a[1] # MinusZero
    [] op \in {"min", "max"} -> \A k \in DOMAIN a : Plain(a[k])
    [] op = "clamp" -> (\A k \in DOMAIN a : Plain(a[k])) /\ ~Less(a[3], a[2])
    [] OTHER        -> TRUE

(* Each instruction of a channel meets such operands when it is run.       *)
FedAlike(code, in, lim) ==
  \A n \in DOMAIN code :
    SameInBoth(code[n].op, Top(Machines(code, in, lim)[n - 1].stack, Operands(code[n].op)))

(* A program that runs within the limits of both engines is answered alike *)
(* by both, the interpreter and its lowering, as long as they do the same  *)
(* with what its instructions meet: it may divide by zero and carry the    *)
(* infinities and the NaN on through sums, products and quotients.         *)
EnginesAgree ==
  \A p \in Compiled(source, Channels), in \in Inputs :
    LET lim == [ops |-> MaxOps, stack |-> MaxStack]
    IN  /\ Run(p, in, lim).ok
        /\ WasmEval(p, in).ok
        /\ \A k \in DOMAIN p : FedAlike(p[k], in, lim)
        => Detect(p, in) = WasmDetect(p, in)

(* The claim of wasm_emit.hpp:16, a lowered program has the same numeric   *)
(* meaning as the interpreter gives it, without that condition.            *)
SameNumericMeaning ==
  \A p \in Compiled(source, Channels), in \in Inputs :
    /\ Run(p, in, [ops |-> MaxOps, stack |-> MaxStack]).ok
    /\ WasmEval(p, in).ok
    => Detect(p, in) = WasmDetect(p, in)

===============================================================================
