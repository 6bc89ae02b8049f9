----------------------------- MODULE MCHostTools -----------------------------
(***************************************************************************)
(* The programs that run on the host: the configuration program on small   *)
(* Kconfig trees, the firmware image tools on two small files, the         *)
(* rewriting of expressions and the macro language.  They share no state:  *)
(* part says which of them an execution is about.                          *)
(***************************************************************************)
EXTENDS MCConf, FwImage

CONSTANT MaxDepth

VARIABLES part, expr, input

MCBuilds == {[code |-> <<"c1", "c2">>, wol |-> FALSE, after |-> <<>>],
             [code |-> <<"c1", "c2">>, wol |-> TRUE, after |-> <<"c3">>]}
MCMini == <<"m1", "m2">>

Macro == INSTANCE KMacro

----------------------------------------------------------------------------
(* Expressions over two options that are y or n and one that may be m.  A  *)
(* bool compared with y by # is not rewritten to an expression at all and  *)
(* is left out.                                                            *)

ExprType == [s \in {"A", "B", "T"} \cup Constants |-> IF s \in {"A", "B"} THEN "bool" ELSE "tristate"]

ExprValues == {v \in [DOMAIN ExprType -> Tristate] :
                 v["y"] = yes /\ v["m"] = mod /\ v["n"] = no /\ v["A"] # mod /\ v["B"] # mod}

Leaves == {Sym(s) : s \in {"A", "B", "T", "y", "m"}}
          \cup {<<"eq", "A", c>> : c \in Constants} \cup {<<"ne", "A", "n">>}
          \cup {<<r, "T", c>> : r \in {"eq", "ne"}, c \in Constants}
Literals == Leaves \cup {Not(l) : l \in Leaves}
Pairs    == {<<j, a, b>> : j \in Junction, a \in Literals, b \in Literals}
Triples  == {<<j, a, l>> : j \in Junction, a \in {<<i, m, x>> : i \in Junction, m \in Leaves, x \in {Sym("B"), Not(Sym("T"))}},
                           l \in {Sym("A"), Sym("T"), <<"ne", "T", "m">>}}

ValueIn(v, e) == Value(ExprType, v, e)
Implies(a, b) == \A v \in ExprValues : ValueIn(v, a) <= ValueIn(v, b)
Simplified(e) == expr_eliminate_dups(ExprType, expr_transform(ExprType, e))

\* What menu_finalize() does to a dependency does not change its value, for any
\* values of the symbols; two expressions that are found equal are equal, and
\* where cancelling what they share leaves the second one y, the first implies it.
SameValue(a, b) == \A v \in ExprValues : ValueIn(v, a) = ValueIn(v, b)

Comparable(a, b) ==
    /\ expr_eq(a, b) => SameValue(a, b)
    /\ expr_is_yes(expr_eliminate_eq(a, b)[2]) => Implies(a, b)

RewritesKeepValue ==
    part = "expr" => SameValue(Simplified(expr), expr) /\ Comparable(Simplified(expr[2]), Simplified(expr[3]))

----------------------------------------------------------------------------

(* Three statements in Kconfig, and a file that may be included.  No        *)
(* variable is set with := to a text that refers to it.                     *)

Name(n)       == <<Macro!Lit(n)>>
Var(n)        == Macro!Ref(Name(n), <<>>)
Set(n, op, t) == [k |-> op, text |-> Name(n), value |-> t]
Use(p)        == [k |-> "use", text |-> <<p>>]

Statements ==
    {Set("A", "recursive", <<Var("CC")>>), Set("A", "simple", <<Var("CC")>>), Set("A", "append", <<Var("B")>>),
     Set("B", "recursive", <<Var("A"), Var("HOME")>>), Set("B", "recursive", <<Macro!Lit("b"), Var("1")>>),
     Set("B", "simple", <<Macro!Ref(<<Var("CC")>>, <<>>)>>),
     Use(Macro!Ref(Name("B"), <<<<Var("CC")>>>>)), Use(Macro!Ref(<<Var("A")>>, <<>>)), Use(Var("lineno")),
     Use(Macro!Ref(Name("error-if"), <<<<Var("HOME")>>, Name("no")>>)),
     [k |-> "source", text |-> <<Var("A")>>]}

Included2 == <<Use(Var("filename")), Set("A", "append", <<Var("HOME")>>),
               Use(Macro!Ref(Name("shell"), <<Name("uname")>>))>>

Environments == UNION {[S -> {<<"sub">>, <<"HOME">>, <<"y">>, <<>>}] : S \in SUBSET {<<"CC">>, <<"HOME">>}}

Inputs == {[files |-> (<<"Kconfig">> :> prog @@ <<"sub">> :> Included2), main |-> <<"Kconfig">>, env |-> e,
            shell |-> (<<"uname">> :> <<"Linux">>)] : prog \in [1 .. 3 -> Statements], e \in Environments}

\* While make finds nothing of auto.conf.cmd changed, another run of the program
\* would read the same texts and write the same list; no variable is left
\* half expanded.  A variable that was not set is not in the list, so that none
\* may be set in between.
SameRun(st, t) == ~t.err /\ t.used = st.used /\ t.files = st.files

Recorded(st) ==
    ~st.err =>
      /\ \A n \in DOMAIN st.busy : st.busy[n] = 0
      /\ \A e \in Environments, f \in {Included2, <<>>} :
           LET in == [input EXCEPT !.env = e, !.files[<<"sub">>] = f]
           IN  (DOMAIN e \subseteq DOMAIN input.env /\ Macro!UpToDate(Macro!conf_write_autoconf_cmd(st), in, input))
                 => SameRun(st, Macro!Preprocessed(in))

InputsRecorded == part = "macro" => Recorded(Macro!Preprocessed(input))

\* What the program makes of the Kconfig language before it knows any value.
LanguageSound == RewritesKeepValue /\ InputsRecorded

----------------------------------------------------------------------------

NoExpr == Sym("y")
NoInput == [main |-> <<>>]

InitAll ==
    /\ part \in {"conf", "image", "expr", "macro"}
    /\ input \in IF part = "macro" THEN Inputs ELSE {NoInput}
    /\ expr \in IF part = "expr" THEN Pairs \cup Triples ELSE {NoExpr}
    /\ Init /\ (part # "conf" => ver = 1)
    /\ ImageInit /\ (part # "image" => file = CHOOSE f \in Linked : TRUE)

NextAll ==
    \/ part = "conf" /\ Next /\ UNCHANGED <<part, expr, input, imageVars>>
    \/ part = "image" /\ ImageNext /\ UNCHANGED <<part, expr, input, ver, run, disk, touched, torn, runs>>

SpecAll == InitAll /\ [][NextAll]_<<part, expr, input, imageVars, vars>>

\* While a session lasts, what it shows is what the answers given so far mean, and
\* every prompt it shows can be answered and is a new one.
SessionSound == NothingStale /\ AsksForNews

\* The files a run leaves behind say the same, and can be made again from the
\* minimal configuration.
FilesAgree == Settled /\ MinimalSuffices

\* A run may be killed between any two writes.  auto.conf still stands for the
\* header, config.cmake is only behind after a run cut short among the generated
\* files, and what changes with auto.conf has been touched before.
KilledSafely == [](AutoConfLast /\ WholeUnlessTorn) /\ [][TouchedFirst]_vars
=============================================================================
