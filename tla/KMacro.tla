-------------------------------- MODULE KMacro --------------------------------
(***************************************************************************)
(* The macro language of the Kconfig files (config/preprocess.c) and the   *)
(* list of what the files depend on, auto.conf.cmd.                        *)
(*                                                                         *)
(* A text is a sequence of pieces: <<"lit", token>>, or <<"ref", name,     *)
(* arguments>> for $(name,arguments), with a text for the name and for     *)
(* each argument.  What a text expands to is a sequence of tokens.  An     *)
(* input is [files, main, env, shell]: the statements of every file, the   *)
(* file to start with, the environment and the output of the commands.     *)
(* A statement assigns a variable, uses a text, or includes a file.        *)
(*                                                                         *)
(* The state st of the parser has the variables, each with its value and   *)
(* flavor, exp_count of every variable in busy, the referenced environment *)
(* (env_list), the files opened (autoconf_cmd), the texts used, and err,   *)
(* which stands for exit(1).                                               *)
(***************************************************************************)
EXTENDS Integers, SequencesExt

CONSTANT MaxDepth      \* nested expansions of one variable: 1000 in the code

Lit(t)       == <<"lit", t>>
Ref(n, args) == <<"ref", n, args>>

StartMacros(file) ==
    [vars |-> [n \in {} |-> 0], busy |-> [n \in {} |-> 0], env |-> [n \in {} |-> 0], files |-> {},
     used |-> <<>>, file |-> file, line |-> 0, err |-> FALSE]

Stuck(st)  == [st |-> [st EXCEPT !.err = TRUE], v |-> <<>>]
Gives(st, v) == [st |-> st, v |-> v]

\* An argument of the function around, if the name is a number: $(1).
Position(n) == IF n = <<Lit("1")>> THEN 1 ELSE IF n = <<Lit("2")>> THEN 2 ELSE 0

\* The value that is copied from memory that was freed.
Freed == <<"?">>

Functions == {"error-if", "filename", "info", "lineno", "shell", "warning-if"}
Arity(f)  == CASE f \in {"error-if", "warning-if"} -> 2 [] f \in {"info", "shell"} -> 1 [] OTHER -> 0

function_expand(in, st, f, args) ==
    CASE Len(args) # Arity(f) -> Stuck(st)
      [] Len(args) = Arity(f) /\ f = "error-if" -> IF args[1] = <<"y">> THEN Stuck(st) ELSE Gives(st, <<>>)
      [] Len(args) = Arity(f) /\ f = "filename" -> Gives(st, <<st.file>>)
      [] Len(args) = Arity(f) /\ f = "lineno"   -> Gives(st, <<ToString(st.line)>>)
      [] Len(args) = Arity(f) /\ f = "shell"    -> Gives(st, in.shell[args[1]])
      [] OTHER -> Gives(st, <<>>)

\* A faulty variant of the next one: a variable with an empty value is taken for one that is not set.
RecordNonEmpty(in, st, name) ==
    IF name \notin DOMAIN in.env \/ in.env[name] = <<>> THEN Gives(st, <<>>)
    ELSE Gives([st EXCEPT !.env = (name :> in.env[name]) @@ @], in.env[name])

\* A variable that is set is remembered when it is first referenced.
env_expand(in, st, name) ==
    IF name \notin DOMAIN in.env THEN Gives(st, <<>>)
    ELSE Gives([st EXCEPT !.env = (name :> in.env[name]) @@ @], in.env[name])

RECURSIVE expand_string(_, _, _, _)

Left(r, name) == IF r.st.err THEN r ELSE [r EXCEPT !.st.busy[name] = @ - 1]

variable_expand(in, st, name, args) ==
    LET x       == st.vars[name]
        entered == [st EXCEPT !.busy[name] = @ + 1]
    IN  IF (args = <<>> /\ st.busy[name] # 0) \/ st.busy[name] > MaxDepth THEN Stuck(st)
        ELSE Left(IF x.flavor = "recursive" THEN expand_string(in, entered, x.value, args)
                  ELSE Gives(entered, x.value), name)

\* The values of the texts, one after the other.
AlsoValue(v, e) == Gives(e.st, Append(v, e.v))

ExpandEach(in, st, texts, args) ==
    FoldLeft(LAMBDA r, t : IF r.st.err THEN r ELSE AlsoValue(r.v, expand_string(in, r.st, t, args)),
             Gives(st, <<>>), texts)

\* A variable, a built-in function, the environment: the first that has the
\* name, with the arguments a.
Named(in, name, a) ==
    IF a.st.err THEN a
    ELSE IF name \in DOMAIN a.st.vars THEN variable_expand(in, a.st, name, a.v)
    ELSE IF Len(name) = 1 /\ name[1] \in Functions THEN function_expand(in, a.st, name[1], a.v)
    ELSE IF a.v = <<>> THEN env_expand(in, a.st, name)
    ELSE Gives(a.st, <<>>)

WithName(in, n, ref, args) == IF n.st.err THEN n ELSE Named(in, n.v, ExpandEach(in, n.st, ref[3], args))

\* An argument of the function around, or what the name stands for.
eval_clause(in, st, ref, args) ==
    LET i == Position(ref[2])
    IN  IF ref[3] = <<>> /\ i \in DOMAIN args THEN Gives(st, args[i])
        ELSE WithName(in, expand_string(in, st, ref[2], args), ref, args)

AlsoText(v, e) == Gives(e.st, v \o e.v)

expand_string(in, st, text, args) ==
    FoldLeft(LAMBDA r, p : IF r.st.err THEN r
                           ELSE IF p[1] = "lit" THEN Gives(r.st, Append(r.v, p[2]))
                           ELSE AlsoText(r.v, eval_clause(in, r.st, p, args)),
             Gives(st, <<>>), text)

\* The old value of a variable that is set again is freed before the new one is
\* expanded, which may refer to it.
SetVariable(name, before, new) ==
    IF new.st.err THEN new.st ELSE [new.st EXCEPT !.vars[name].value = before \o new.v]

variable_add(in, st, name, text, op) ==
    LET more   == op = "append" /\ name \in DOMAIN st.vars
        flavor == IF op # "append" THEN op ELSE IF more THEN st.vars[name].flavor ELSE "recursive"
        old    == IF more THEN st.vars[name].value ELSE Freed
        s      == [st EXCEPT !.vars = (name :> [value |-> old, flavor |-> flavor]) @@ @,
                             !.busy = @ @@ (name :> 0)]
        space  == IF flavor = "simple" THEN <<" ">> ELSE <<Lit(" ")>>
    IN  SetVariable(name, IF more THEN old \o space ELSE <<>>,
                    IF flavor = "simple" THEN expand_string(in, s, text, <<>>) ELSE Gives(s, text))

RECURSIVE NextFile(_, _, _, _)

\* A word that expands to nothing is no word: an assignment without a name is a
\* syntax error.  r is what the first word expands to.
Execute(in, x, r, stack) ==
    CASE r.st.err -> r.st
      [] ~r.st.err /\ x.k = "use"    -> [r.st EXCEPT !.used = Append(@, r.v)]
      [] ~r.st.err /\ x.k = "source" -> NextFile(in, r.st, r.v, stack)
      [] OTHER -> IF r.v = <<>> THEN Stuck(r.st).st ELSE variable_add(in, r.st, r.v, x.value, x.k)

MacroStatement(in, st, x, stack) ==
    IF st.err THEN st ELSE Execute(in, x, expand_string(in, [st EXCEPT !.line = @ + 1], x.text, <<>>), stack)

\* zconf_nextfile(), zconf_endfile() and file_lookup()
NextFile(in, st, f, stack) ==
    IF f \notin DOMAIN in.files \/ f \in stack THEN Stuck(st).st
    ELSE [FoldLeft(LAMBDA s, x : MacroStatement(in, s, x, stack \cup {f}),
                   [st EXCEPT !.files = @ \cup {f}, !.file = f, !.line = 0], in.files[f])
            EXCEPT !.file = st.file, !.line = st.line]

Preprocessed(in) == NextFile(in, StartMacros(in.main), in.main, {})

\* auto.conf.cmd: the files, and the environment with the values they were read for.
conf_write_autoconf_cmd(st) == [files |-> st.files, env |-> st.env]

\* make runs the program again if a file of the list is newer, or a variable of
\* the list has another value; a variable that is not set counts as empty.
UpToDate(cmd, in, was) ==
    /\ \A f \in cmd.files : f \in DOMAIN in.files /\ in.files[f] = was.files[f]
    /\ \A n \in DOMAIN cmd.env : cmd.env[n] = IF n \in DOMAIN in.env THEN in.env[n] ELSE <<>>
=============================================================================
