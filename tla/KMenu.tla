-------------------------------- MODULE KMenu --------------------------------
(***************************************************************************)
(* From the statements of the Kconfig files to symbols with dependencies:  *)
(* the include stack of config/lexer.l, the statements of config/parser.y, *)
(* menu_finalize() of config/menu.c and the dependency check of            *)
(* config/symbol.c.  Everything here happens once, before a configuration  *)
(* is read; the result is a record k that does not change any more.        *)
(*                                                                         *)
(* An input is [files, main, names, lit, quoted]: the statements of every  *)
(* file, the file to start with, all symbol names, the values of those     *)
(* that are literals, and the literals in quotes.  Texts, help and line    *)
(* numbers are left out.                                                   *)
(***************************************************************************)
EXTENDS KExpr, FiniteSets, SequencesExt

----------------------------------------------------------------------------
(* zconf_nextfile(), zconf_endfile(): the statements in the order the      *)
(* parser gets them, each with the file it stands in.                      *)

Failure == [k |-> "failure", file |-> ""]

RECURSIVE Included(_, _, _)
Included(in, f, stack) ==
    IF f \notin DOMAIN in.files \/ f \in stack THEN <<Failure>>
    ELSE FoldLeft(LAMBDA acc, st :
                    acc \o IF st.k = "source" THEN Included(in, st.f, stack \cup {f})
                           ELSE <<st @@ [file |-> f]>>,
                  <<>>, in.files[f])

----------------------------------------------------------------------------
(* The parser.  Node 1 is rootmenu; kids holds each node's entries in      *)
(* order, cur is current_entry, menu is current_menu.                      *)

Root == [kind |-> "root", sym |-> "", file |-> "", prompt |-> 0]

StartParse(in) ==
    [node |-> <<Root>>, par |-> <<0>>, kids |-> <<<<>>>>, dep |-> <<Null>>, vis |-> <<Null>>,
     prop |-> <<>>, cur |-> 1, menu |-> 1, choice |-> 0, modules |-> "", err |-> FALSE,
     type |-> [s \in in.names |-> IF s \in Constants THEN "tristate"
                                  ELSE IF s \in in.quoted THEN "const" ELSE "unknown"],
     members |-> [c \in {} |-> <<>>]]

menu_add_entry(p, kind, s, file) ==
    LET n == Len(p.node) + 1
    IN  [p EXCEPT !.node = Append(@, [kind |-> kind, sym |-> s, file |-> file, prompt |-> 0]),
                  !.par = Append(@, p.menu), !.kids = Append([@ EXCEPT ![p.menu] = Append(@, n)], <<>>),
                  !.dep = Append(@, Null), !.vis = Append(@, Null), !.cur = n]

menu_add_menu(p) == [p EXCEPT !.menu = p.cur]
menu_end_menu(p) == [p EXCEPT !.menu = p.par[p.menu]]

menu_add_dep(p, e)        == [p EXCEPT !.dep[p.cur] = expr_alloc_and(@, e)]
menu_add_visibility(p, e) == [p EXCEPT !.vis[p.cur] = expr_alloc_and(@, e)]

\* The first type of a symbol counts.
menu_set_type(p, t) ==
    LET s == p.node[p.cur].sym
    IN  IF p.type[s] = "unknown" THEN [p EXCEPT !.type[s] = t] ELSE p

menu_add_prop(p, t, e, cond) ==
    [p EXCEPT !.prop = Append(@, [type |-> t, menu |-> p.cur, sym |-> p.node[p.cur].sym,
                                  expr |-> e, vis |-> cond])]

\* The menus around an entry, inside out.
RECURSIVE Around(_, _)
Around(p, n) == IF p.par[n] = 0 THEN <<>> ELSE <<p.par[n]>> \o Around(p, p.par[n])

menu_add_prompt(p, t, cond) ==
    LET seen == IF t # "prompt" THEN cond
                ELSE FoldLeft(LAMBDA e, m : expr_alloc_and(e, p.vis[m]), cond, Around(p, p.cur))
        q    == menu_add_prop(p, t, Null, seen)
    IN  [q EXCEPT !.node[p.cur].prompt = Len(q.prop)]

\* config_option, choice_option, menu_option_list, comment_option_list
AddOption(p, o) ==
    CASE o.k = "type"    -> menu_set_type(p, o.t)
      [] o.k = "prompt"  -> menu_add_prompt(p, "prompt", o.cond)
      [] o.k = "default" -> menu_add_prop(p, "default", o.e, o.cond)
      [] o.k = "def"     -> menu_set_type(menu_add_prop(p, "default", o.e, o.cond), o.t)
      [] o.k = "select"  -> menu_add_prop(p, "select", Sym(o.s), o.cond)
      [] o.k = "imply"   -> menu_add_prop(p, "imply", Sym(o.s), o.cond)
      [] o.k = "range"   -> menu_add_prop(p, "range", <<"range", o.lo, o.hi>>, o.cond)
      [] o.k = "depends" -> menu_add_dep(p, o.e)
      [] o.k = "visible" -> menu_add_visibility(p, o.e)
      [] o.k = "modules" -> [p EXCEPT !.err = @ \/ p.modules # "", !.modules = p.node[p.cur].sym]

AddOptions(p, opts) == FoldLeft(AddOption, p, opts)

Fail(p) == [p EXCEPT !.err = TRUE]
FailUnless(p, cond) == IF cond THEN p ELSE Fail(p)

\* The end of a config entry: a member of a choice joins its list, once.
EndConfig(p) ==
    LET s == p.node[p.cur].sym
        c == p.node[p.choice].sym
    IN  IF p.choice = 0 THEN p
        ELSE FailUnless([p EXCEPT !.members[c] = IF s \in ToSet(@) THEN @ ELSE Append(@, s)],
                        p.node[p.cur].prompt # 0 /\ p.type[s] = "bool")

config_stmt(p, st) == EndConfig(AddOptions(menu_add_entry(p, "config", st.s, st.file), st.opts))

menuconfig_stmt(p, st) ==
    LET q == AddOptions(menu_add_entry(p, "config", st.s, st.file), st.opts)
        i == q.node[q.cur].prompt
    IN  IF i = 0 THEN Fail(q) ELSE [q EXCEPT !.prop[i].type = "menu"]

choice_entry(p, st) ==
    LET q == menu_set_type(menu_add_entry([p EXCEPT !.members = @ @@ (st.s :> <<>>)],
                                          "choice", st.s, st.file), "bool")
        r == AddOptions(q, st.opts)
    IN  [menu_add_menu(FailUnless(r, r.node[r.cur].prompt # 0)) EXCEPT !.choice = r.cur]

if_entry(p, st) == menu_add_menu(menu_add_dep(menu_add_entry(p, "if", "", st.file), st.e))

menu_entry(p, st) ==
    menu_add_menu(AddOptions(menu_add_prompt(menu_add_entry(p, "menu", "", st.file), "menu", Null), st.opts))

comment_stmt(p, st) ==
    AddOptions(menu_add_prompt(menu_add_entry(p, "comment", "", st.file), "comment", Null), st.opts)

\* zconf_endtoken(): a block ends with its own word and in its own file.
EndBlock(p, st) ==
    LET ends == p.node[p.menu].kind = st.of /\ p.node[p.menu].file = st.file
        q    == IF p.node[p.menu].kind = "choice" THEN [p EXCEPT !.choice = 0] ELSE p
    IN  IF p.menu = 1 \/ ~ends THEN Fail(q) ELSE menu_end_menu(q)

InChoice == {"config", "comment", "if", "end"}

Statement(p, st) ==
    CASE p.err -> p
      [] ~p.err /\ (st.k = "failure" \/ (p.choice # 0 /\ st.k \notin InChoice)) -> Fail(p)
      [] OTHER -> CASE st.k = "config"     -> config_stmt(p, st)
                    [] st.k = "menuconfig" -> menuconfig_stmt(p, st)
                    [] st.k = "choice"     -> choice_entry(p, st)
                    [] st.k = "if"         -> if_entry(p, st)
                    [] st.k = "menu"       -> menu_entry(p, st)
                    [] st.k = "comment"    -> comment_stmt(p, st)
                    [] st.k = "end"        -> EndBlock(p, st)

\* yyparse(); a block left open is an error, and without a modules symbol
\* tristates are bools: modules_sym is n.
Parsed(in) ==
    LET p == FoldLeft(Statement, StartParse(in), Included(in, in.main, {}))
        q == IF p.modules = "" THEN [p EXCEPT !.modules = "n"] ELSE p
    IN  FailUnless(IF q.err THEN q ELSE menu_add_prompt([q EXCEPT !.cur = 1], "menu", Null), q.menu = 1)

----------------------------------------------------------------------------
(* menu_finalize(): dependencies go down to the entries, select and imply  *)
(* to their targets, and entries that depend on the symbol before them     *)
(* move into a menu below it.                                              *)

RECURSIVE rewrite_m(_, _)
rewrite_m(e, modules) ==
    CASE e = Null -> e
      [] e # Null /\ e[1] = "not" -> Not(rewrite_m(e[2], modules))
      [] e # Null /\ e[1] \in Junction -> <<e[1], rewrite_m(e[2], modules), rewrite_m(e[3], modules)>>
      [] OTHER -> IF e = Sym("m") THEN <<"and", e, Sym(modules)>> ELSE e

Below(f, dep, e) ==
    expr_eliminate_dups(f.type, expr_alloc_and(dep, expr_transform(f.type, rewrite_m(e, f.modules))))

\* A select or imply of symbol s adds to the dependencies of its target.
AddReverse(f, i) ==
    LET x   == f.prop[i]
        why == expr_alloc_and(Sym(x.sym), x.vis)
        t   == x.expr[2]
    IN  CASE x.type = "select" -> [f EXCEPT !.rev[t] = expr_alloc_or(@, why)]
          [] x.type = "imply"  -> [f EXCEPT !.imp[t] = expr_alloc_or(@, why)]
          [] OTHER             -> f

InheritDeps(f, parent, n) ==
    LET base == Below(f, f.dep[parent], f.dep[n])
        g    == [f EXCEPT !.dep[n] = base,
                          !.prop = [i \in DOMAIN @ |-> IF @[i].menu = n
                                                       THEN [@[i] EXCEPT !.vis = Below(f, base, @)]
                                                       ELSE @[i]]]
    IN  FoldLeft(LAMBDA h, i : IF h.prop[i].menu = n THEN AddReverse(h, i) ELSE h,
                 g, [i \in DOMAIN f.prop |-> i])

PromptOrDep(f, n) == IF f.node[n].prompt = 0 THEN f.dep[n] ELSE f.prop[f.node[n].prompt].vis

AsCondition(f, e) ==
    expr_eliminate_dups(f.type, expr_transform(f.type, expr_trans_compare(e, "ne", "n")))

\* The entry depends on s, or its condition contains s and covers that of s.
BelongsBelow(f, n, s, base) ==
    LET dep == PromptOrDep(f, n)
    IN  /\ expr_contains_symbol(dep, s)
        /\ \/ expr_depends_symbol(dep, s)
           \/ expr_is_yes(expr_eliminate_eq(AsCondition(f, dep), base)[2])

RECURSIVE Finalize(_, _, _), FinalizeKids(_, _, _), Absorb(_, _, _, _)
\* Siblings from index j on move below n as long as they belong there.
Absorb(f, n, base, j) ==
    LET row == f.kids[f.par[n]]
    IN  IF j <= Len(row) /\ BelongsBelow(f, row[j], f.node[n].sym, base)
        THEN LET g == Finalize(f, row[j], FALSE)
             IN  Absorb([g EXCEPT !.par[row[j]] = n,
                                  !.kids[n] = Append(@, row[j]),
                                  !.kids[f.par[n]] = RemoveAt(@, j)], n, base, j)
        ELSE f

\* if-blocks and menus below symbols without a prompt are flattened.
RECURSIVE Flatten(_, _, _)
Flatten(f, parent, j) ==
    IF j > Len(f.kids[parent]) THEN f
    ELSE LET c == f.kids[parent][j]
         IN  IF f.kids[c] = <<>> \/ f.node[c].prompt # 0 THEN Flatten(f, parent, j + 1)
             ELSE Flatten([f EXCEPT !.par = [n \in DOMAIN @ |-> IF n \in ToSet(f.kids[c]) THEN parent ELSE @[n]],
                                    !.kids[parent] = SubSeq(@, 1, j) \o f.kids[c] \o SubSeq(@, j + 1, Len(@)),
                                    !.kids[c] = <<>>], parent, j + 1)

FinalizeKids(f, parent, j) ==
    IF j > Len(f.kids[parent]) THEN f
    ELSE FinalizeKids(Finalize(f, f.kids[parent][j], f.node[parent].kind = "choice"), parent, j + 1)

Finalize(f, n, insideChoice) ==
    LET s    == f.node[n].sym
        base == AsCondition(f, IF f.node[n].prompt = 0 THEN Null ELSE PromptOrDep(f, n))
        row  == f.kids[f.par[n]]
        i    == CHOOSE i \in DOMAIN row : row[i] = n
        g    == CASE f.kids[n] # <<>> ->
                       FinalizeKids(FoldLeft(LAMBDA h, c : InheritDeps(h, n, c), f, f.kids[n]), n, 1)
                  [] f.kids[n] = <<>> /\ ~insideChoice /\ s # "" ->
                       LET h == Absorb(f, n, base, i + 1)
                       IN  [h EXCEPT !.dir[s] = expr_alloc_or(@, f.dep[n])]
                  [] OTHER -> f
    IN  Flatten(g, n, 1)

Finalized(p) ==
    LET none == [s \in DOMAIN p.type |-> Null]
    IN  Finalize(p @@ [dir |-> none, rev |-> none, imp |-> none], 1, FALSE)

----------------------------------------------------------------------------
(* What the rest of the program sees of a symbol.                          *)

PropsOf(f, s) == SelectSeq(f.prop, LAMBDA x : x.sym = s)

\* sym_get_choice_menu(): the choice around the first entry with a prompt.
RECURSIVE ChoiceAround(_, _)
ChoiceAround(f, n) ==
    CASE n = 0 -> ""
      [] n # 0 /\ f.node[n].kind = "choice" -> f.node[n].sym
      [] n # 0 /\ f.node[n].kind = "config" -> ""
      [] OTHER -> ChoiceAround(f, f.par[n])

sym_get_choice_menu(f, s) ==
    LET at == {n \in DOMAIN f.node : s # "" /\ f.node[n].sym = s /\ f.node[n].prompt # 0}
    IN  IF at = {} THEN "" ELSE ChoiceAround(f, f.par[CHOOSE n \in at : \A o \in at : n <= o])

\* Depth first, the order of menu_next().
RECURSIVE Entries(_, _)
Entries(f, n) == FoldLeft(LAMBDA acc, c : acc \o <<c>> \o Entries(f, c), <<>>, f.kids[n])

\* The symbols that have an entry, each once.
Symbols(f) == FoldLeft(LAMBDA acc, x : IF x.sym = "" \/ x.sym \in ToSet(acc) THEN acc ELSE Append(acc, x.sym),
                       <<>>, f.node)

----------------------------------------------------------------------------
(* sym_check_deps(): symbols that need themselves are refused.  d.check    *)
(* are the symbols on the way down, d.checked those already looked at.     *)

RECURSIVE SymbolsIn(_)
SymbolsIn(e) ==
    CASE e = Null -> <<>>
      [] e # Null /\ e[1] = "sym" -> <<e[2]>>
      [] e # Null /\ e[1] = "not" -> SymbolsIn(e[2])
      [] e # Null /\ e[1] \in Junction -> SymbolsIn(e[2]) \o SymbolsIn(e[3])
      [] OTHER -> <<e[2], e[3]>>

\* The bounds of a range are not looked at.
Needs(f, s) ==
    LET ps == SelectSeq(PropsOf(f, s), LAMBDA x : x.type \notin {"select", "imply"})
        Of(x) == SymbolsIn(x.vis) \o
                 IF x.type = "default" /\ s \notin DOMAIN f.members THEN SymbolsIn(x.expr) ELSE <<>>
    IN  SymbolsIn(f.dir[s]) \o SymbolsIn(f.rev[s]) \o SymbolsIn(f.imp[s]) \o FlattenSeq([i \in DOMAIN ps |-> Of(ps[i])])

RECURSIVE sym_check_deps(_, _, _)
CheckNeeds(f, d, s) ==
    FoldLeft(LAMBDA e, t : IF e.bad THEN e ELSE sym_check_deps(f, e, t), d, Needs(f, s))

CheckChoice(f, d, c) ==
    LET ms == ToSet(f.members[c])
        e  == CheckNeeds(f, [d EXCEPT !.check = @ \cup ms \cup {c}, !.checked = @ \cup ms \cup {c}], c)
        g  == FoldLeft(LAMBDA h, m : IF h.bad THEN h ELSE CheckNeeds(f, h, m),
                       [e EXCEPT !.check = @ \ {c}], f.members[c])
    IN  [g EXCEPT !.check = @ \ ms]

sym_check_deps(f, d, s) ==
    LET c == sym_get_choice_menu(f, s)
    IN  CASE s \in d.check -> [d EXCEPT !.bad = TRUE]
          [] s \notin d.check /\ s \in d.checked -> d
          [] OTHER -> IF c # "" THEN sym_check_deps(f, d, c)
                      ELSE IF s \in DOMAIN f.members THEN CheckChoice(f, d, s)
                      ELSE LET e == CheckNeeds(f, [d EXCEPT !.check = @ \cup {s}, !.checked = @ \cup {s}], s)
                           IN  [e EXCEPT !.check = @ \ {s}]

DepsOk(f) ==
    ~FoldLeft(LAMBDA d, n : IF d.bad \/ f.node[n].sym = "" THEN d
                            ELSE sym_check_deps(f, d, f.node[n].sym),
              [check |-> {}, checked |-> {}, bad |-> FALSE], Entries(f, 1)).bad

\* choice_check_sanity(): a member has no default and no prompt elsewhere.
choice_check_sanity(f) ==
    \A n \in DOMAIN f.node : \A x \in ToSet(f.prop) :
       (f.node[n].kind = "config" /\ x.sym = f.node[n].sym /\ ChoiceAround(f, f.par[n]) # "")
         => x.type # "default" /\ (x.type = "prompt" => f.par[x.menu] = f.par[n])

\* conf_parse(): the finished tables, or ok = FALSE, on which the program exits.
conf_parse(in) ==
    LET p == Parsed(in)
        f == Finalized(p)
        k == f @@ [entries |-> Entries(f, 1), syms |-> Symbols(f), lit |-> in.lit,
                   choiceOf |-> [s \in in.names |-> sym_get_choice_menu(f, s)],
                   props |-> [s \in in.names |-> PropsOf(f, s)]]
    IN  IF p.err THEN [ok |-> FALSE]
        ELSE [ok |-> DepsOk(f) /\ choice_check_sanity(f)] @@ k
=============================================================================
