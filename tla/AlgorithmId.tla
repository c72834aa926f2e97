----------------------------- MODULE AlgorithmId -----------------------------
(***************************************************************************)
(* How a text such as "bwt:encode(coder = gamma)" selects a compressor:    *)
(* the parser (util/algorithm_parser/AlgorithmAST.hpp), the declarations    *)
(* algorithms make of their options (Meta.hpp), the evaluation of the      *)
(* parsed text against them (AlgorithmStringParser.hpp) and the registry    *)
(* of compiled combinations (Registry.hpp).                                *)
(*                                                                         *)
(* A text is a sequence of tokens, pairs of a kind and a word: <<"id", w>>, *)
(* <<"str", w>> in quotes, <<"num", w>>, and punctuation <<":", "">>.      *)
(* None stands for an error: an exception or a failed CHECK.               *)
(***************************************************************************)
EXTENDS Integers, Sequences, FiniteSets, SequencesExt

CONSTANT None

Punct(p) == <<p, "">>
Token(s, i) == IF i <= Len(s) THEN s[i] ELSE Punct("end")
-----------------------------------------------------------------------------
(* ast::Value is a string, or the invocation of an algorithm with arguments *)
(* that may have a keyword.                                                 *)

StringValue(w) == [inv |-> FALSE, name |-> w, args |-> <<>>]
Invocation(name, args) == [inv |-> TRUE, name |-> name, args |-> args]
EmptyValue == StringValue("")
IsEmpty(v) == v.name = ""
Positional(v) == [kw |-> "", val |-> v]
Keyword(k, v) == [kw |-> k, val |-> v]

Parsed(v, next) == [val |-> v, next |-> next]

RECURSIVE ParseSingleValue(_, _), ParseChain(_, _, _), ParseArgs(_, _, _, _)

\* parse_single_value.  A number must be followed by something else.
ParseSingleValue(s, i) ==
  LET t == Token(s, i)
  IN  CASE t[1] = "str" \/ (t[1] = "num" /\ i < Len(s)) -> Parsed(StringValue(t[2]), i + 1)
        [] t[1] = "id" ->
             IF t[2] \in {"true", "false"} THEN Parsed(StringValue(t[2]), i + 1)
             ELSE IF Token(s, i + 1) = Punct("(") THEN ParseArgs(s, t[2], i + 2, <<>>)
             ELSE Parsed(Invocation(t[2], <<>>), i + 1)
        [] OTHER -> None

\* parse_value: val1 : val2 : val3 is chain(chain(val1, val2), val3).
ParseChain(s, val1, i) ==
  IF Token(s, i) # Punct(":") THEN Parsed(val1, i)
  ELSE LET val2 == ParseSingleValue(s, i + 1)
       IN  IF val2 = None THEN None
           ELSE ParseChain(s, Invocation("chain", <<Positional(val1), Positional(val2.val)>>),
                           val2.next)
ParseValue(s, i) ==
  LET val1 == ParseSingleValue(s, i)
  IN  IF val1 = None THEN None ELSE ParseChain(s, val1.val, val1.next)

\* parse_arg: a value, or a keyword, = and a value.
ParseArg(s, i) ==
  LET named == Token(s, i)[1] = "id" /\ Token(s, i + 1) = Punct("=")
      val == ParseValue(s, IF named THEN i + 2 ELSE i)
  IN  IF val = None THEN None
      ELSE [arg |-> IF named THEN Keyword(s[i][2], val.val) ELSE Positional(val.val),
            next |-> val.next]

\* The arguments behind an opening bracket; a comma may precede the closing one.
ParseArgs(s, name, i, args) ==
  LET start == IF args = <<>> THEN i ELSE i + 1
      arg == ParseArg(s, start)
  IN  IF Token(s, i) = Punct(")") THEN Parsed(Invocation(name, args), i + 1)
      ELSE IF args # <<>> /\ Token(s, i) # Punct(",") THEN None
      ELSE IF Token(s, start) = Punct(")") THEN Parsed(Invocation(name, args), start + 1)
      ELSE IF arg = None THEN None
      ELSE ParseArgs(s, name, arg.next, Append(args, arg.arg))

\* What follows the value is not looked at.
Parse(s) == LET v == ParseValue(s, 1) IN IF v = None THEN None ELSE v.val

RECURSIVE Printed(_)

\* Mutant: keywords are not printed.
PrintedArgPlain(arg) == Printed(arg.val)

PrintedArg(arg) ==
  IF arg.kw = "" THEN Printed(arg.val) ELSE <<<<"id", arg.kw>>, Punct("=")>> \o Printed(arg.val)

\* Value::to_string
Printed(v) ==
  IF ~v.inv THEN <<<<"str", v.name>>>>
  ELSE IF v.args = <<>> THEN <<<<"id", v.name>>>>
  ELSE <<<<"id", v.name>>, Punct("(")>>
         \o FlattenSeq([i \in DOMAIN v.args |->
              (IF i = 1 THEN <<>> ELSE <<Punct(",")>>) \o PrintedArg(v.args[i])])
         \o <<Punct(")")>>
-----------------------------------------------------------------------------
(* Meta: a type, a name, options, the arguments that are fixed when the      *)
(* program is compiled, and the metas those come from.                       *)

NoFlags == [escape |-> {}, null |-> FALSE]

NewMeta(type, name) ==
  [type |-> type, name |-> name, options |-> <<>>, static |-> Invocation(name, <<>>),
   subs |-> <<>>, flags |-> NoFlags]

Option(name, static, type, has, default) ==
  [name |-> name, static |-> static, type |-> type, has |-> has, default |-> default]

\* option(..).dynamic(default), .dynamic() and .dynamic_compressor()
Dynamic(m, name, default) ==
  [m EXCEPT !.options = Append(@, Option(name, FALSE, "string", TRUE, StringValue(default)))]
DynamicNoDefault(m, name) ==
  [m EXCEPT !.options = Append(@, Option(name, FALSE, "string", FALSE, EmptyValue))]
DynamicCompressor(m, name) ==
  [m EXCEPT !.options = Append(@, Option(name, FALSE, "compressor", FALSE, EmptyValue))]

\* option(..).templated<T>()
Templated(m, name, T) ==
  [m EXCEPT !.subs = Append(@, T),
            !.static.args = Append(@, Keyword(name, T.static)),
            !.options = Append(@, Option(name, TRUE, T.type, FALSE, EmptyValue))]

\* build_ast_value_for_default
DefaultValue(D) ==
  Invocation(D.name, [i \in DOMAIN D.options |-> Keyword(D.options[i].name, D.options[i].default)])

\* option(..).templated<T, D>(): the default is what D declares.
TemplatedWithDefault(m, name, T, D) ==
  [m EXCEPT !.subs = @ \o <<T, D>>,
            !.static.args = Append(@, Keyword(name, T.static)),
            !.options = Append(@, Option(name, TRUE, D.type, TRUE, DefaultValue(D)))]

\* input_restrictions, needs_sentinel_terminator, uses_textds
WithFlags(m, flags) ==
  [m EXCEPT !.flags = [escape |-> @.escape \cup flags.escape, null |-> @.null \/ flags.null]]

\* build_def
Declaration(m) == [name |-> m.name, args |-> m.options, flags |-> m.flags]

RECURSIVE GatherTypes(_, _)

\* gather_types: the algorithms of each type; two of one name must be declared
\* alike.
GatherTypes(types, m) ==
  LET known == IF m.type \in DOMAIN types THEN types[m.type] ELSE <<>>
      same == {d \in ToSet(known) : d.name = m.name}
      more == IF same = {} THEN Append(known, Declaration(m)) ELSE known
      grown == (m.type :> more) @@ types
      Gather(acc, sub) == IF acc = None THEN None ELSE GatherTypes(acc, sub)
  IN  IF \E d \in same : d.args # m.options THEN None
      ELSE FoldLeft(Gather, grown, m.subs)
-----------------------------------------------------------------------------
(* Evaluation.  An OptionValue is a string, or an algorithm with the values of *)
(* its options and the pattern of those that were fixed at compile time.       *)

NoPattern == [name |-> "", args |-> <<>>]
StringOption(w) == [alg |-> FALSE, name |-> w, opts |-> <<>>, static |-> NoPattern, flags |-> NoFlags]

IsStatic(option) == option.static

\* Step 1 of eval: the option each argument is for.
ArgumentNames(v, decl) ==
  LET keyworded == {i \in DOMAIN v.args : v.args[i].kw # ""}
      Name(i) == IF v.args[i].kw # "" THEN v.args[i].kw
                 ELSE IF (\A k \in keyworded : i < k) /\ i <= Len(decl.args)
                 THEN decl.args[i].name ELSE None
      names == [i \in DOMAIN v.args |-> Name(i)]
      known == {decl.args[k].name : k \in DOMAIN decl.args}
  IN  IF \A i \in DOMAIN names : names[i] # None /\ names[i] \in known THEN names ELSE None

\* The value that the fixed arguments give an option: they name the fixed
\* options of the declaration, all of them and in their order.
FixedValue(fixed, option) == fixed.args[CHOOSE i \in DOMAIN fixed.args : fixed.args[i].kw = option.name].val
FixedFits(fixed, decl) ==
  LET statics == SelectSeq(decl.args, IsStatic)
  IN  /\ fixed.inv /\ fixed.name = decl.name
      /\ [i \in DOMAIN fixed.args |-> fixed.args[i].kw] = [i \in DOMAIN statics |-> statics[i].name]

\* Step 2: what an option is evaluated from: the last argument for it, what is
\* fixed, or its default.
OptionSource(v, names, option, fixed) ==
  LET given == {i \in DOMAIN names : names[i] = option.name}
  IN  IF given # {} THEN v.args[CHOOSE i \in given : \A k \in given : k <= i].val
      ELSE IF ~IsEmpty(fixed) /\ option.static THEN FixedValue(fixed, option)
      ELSE IF option.has THEN option.default ELSE EmptyValue

\* The only element of a set that has one.
The(S) == CHOOSE x \in S : TRUE

RECURSIVE Eval(_, _, _, _, _)

\* Step 3: the value of an algorithm from the values of its options, with the
\* pattern of the fixed ones.
OptionValueOf(decl, options, values) ==
  LET fixed == SelectSeq([i \in DOMAIN options |-> <<options[i], values[i]>>],
                         LAMBDA ov : IsStatic(ov[1]))
  IN  [alg |-> TRUE, name |-> decl.name, flags |-> decl.flags,
       opts |-> FoldLeft(LAMBDA f, i : (options[i].name :> values[i]) @@ f, <<>>,
                         [i \in DOMAIN options |-> i]),
       static |-> [name |-> decl.name,
                   args |-> FoldLeft(LAMBDA a, ov : Append(a, [name |-> ov[1].name,
                                                               alg |-> ov[2].static]),
                                     <<>>, fixed)]]

EvalOption(v, names, o, types, pattern, fixed) ==
  The({IF IsEmpty(source) THEN None
       ELSE Eval(source, o.type, types, pattern,
                 IF ~IsEmpty(fixed) /\ o.static THEN FixedValue(fixed, o) ELSE EmptyValue) :
       source \in {OptionSource(v, names, o, fixed)}})

EvalInvocation(v, decl, types, pattern, fixed) ==
  LET options == IF pattern THEN SelectSeq(decl.args, IsStatic) ELSE decl.args
      Values(names) == FoldLeft(LAMBDA vs, o : Append(vs, EvalOption(v, names, o, types, pattern, fixed)),
                                <<>>, options)
  IN  IF ~IsEmpty(fixed) /\ ~FixedFits(fixed, decl) THEN None
      ELSE The({IF names = None THEN None
                ELSE The({IF None \in ToSet(values) THEN None
                          ELSE OptionValueOf(decl, options, values) : values \in {Values(names)}}) :
                names \in {ArgumentNames(v, decl)}})

\* eval: v as a value of the type; of a pattern only the fixed options count.
Eval(v, type, types, pattern, fixed) ==
  LET named == IF v.inv /\ type \in DOMAIN types
               THEN {d \in ToSet(types[type]) : d.name = v.name} ELSE {}
  IN  IF type = "string" THEN IF v.inv THEN None ELSE StringOption(v.name)
      ELSE IF named = {} THEN None
      ELSE The({EvalInvocation(v, d, types, pattern, fixed) : d \in named})
-----------------------------------------------------------------------------
(* Registry: the declarations, and the patterns that were compiled. *)

EmptyRegistry == [types |-> <<>>, registered |-> {}]
PatternOf(m, types) ==
  LET av == Eval(m.static, "compressor", types, TRUE, EmptyValue)
  IN  IF av = None THEN None ELSE av.static

\* register_algorithm: not twice.
Registered(reg, m) ==
  The({The({IF pattern = None \/ pattern \in reg.registered THEN None
            ELSE [types |-> types, registered |-> reg.registered \cup {pattern}] :
            pattern \in {IF types = None THEN None ELSE PatternOf(m, types)}}) :
       types \in {GatherTypes(reg.types, m)}})

\* parse_algorithm_id
ParseAlgorithmId(reg, text) ==
  The({IF v = None THEN None ELSE Eval(v, "compressor", reg.types, FALSE, EmptyValue) :
       v \in {Parse(text)}})

\* select_algorithm: only what was compiled.
Selectable(reg, av) == av.static \in reg.registered

\* Builder::env of create_algo: the options, for a type fixed at compile time.
BuilderEnv(reg, m, options) ==
  The({IF types = None \/ v = None THEN None ELSE Eval(v, m.type, types, FALSE, m.static) :
       types \in {GatherTypes(reg.types, m)},
       v \in {Parse(<<<<"id", m.name>>, Punct("(")>> \o options \o <<Punct(")")>>)}})

RECURSIVE AllStatic(_, _, _)

\* all_algorithms_with_static_internal: every combination of fixed options; a
\* type that is open more than twice is not entered again.
AllStatic(types, seen, type) ==
  UNION {
    LET statics == SelectSeq(types[type][d].args, IsStatic)
        choices == [i \in DOMAIN statics |->
                      {[name |-> statics[i].name, alg |-> p] :
                         p \in AllStatic(types, Append(seen, type), statics[i].type)}]
        tuples == {t \in [DOMAIN statics -> UNION Range(choices)] :
                     \A i \in DOMAIN statics : t[i] \in choices[i]}
        open == Cardinality({i \in DOMAIN seen : seen[i] = type})
    IN  IF open > 2 THEN {} ELSE {[name |-> types[type][d].name, args |-> t] : t \in tuples} :
    d \in DOMAIN types[type]}
=============================================================================
