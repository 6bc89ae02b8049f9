------------------------------- MODULE KSymbol -------------------------------
(***************************************************************************)
(* The values of the symbols (config/symbol.c): computed on demand from    *)
(* what the user set, kept until sym_clear_all_valid(), and cached once    *)
(* more per expression (expr_calc_value() of config/expr.c).               *)
(*                                                                         *)
(* k are the finished tables of KMenu.  The state of the evaluation is a   *)
(* record st: val, vis, dir, rev and imp of every symbol (curr, visible    *)
(* and the tri fields of dir_dep, rev_dep and implied), shown of every     *)
(* menu entry (prompt->visible.tri), the sets valid and write              *)
(* (SYMBOL_VALID, SYMBOL_WRITE), user (def[S_DEF_USER], Unset if the flag  *)
(* SYMBOL_DEF_USER is not set), order (choice_members), cache (the         *)
(* expressions with val_is_valid), modv (modules_val) and changed          *)
(* (conf_changed).  Strings, numbers and hex numbers are numbers, 0 is     *)
(* also the empty string.  busy and again are history: the symbols being   *)
(* computed, and whether one of them was needed for its own value.         *)
(***************************************************************************)
EXTENDS KMenu

Unset == -1

EmptyCache == [e \in {} |-> no]

FreshProcess(k) ==
    LET names == DOMAIN k.type
        none  == [s \in names |-> no]
    IN  [val |-> [s \in names |-> CASE s = "y" -> yes [] s = "m" -> mod [] s = "n" -> no
                                    [] s \in DOMAIN k.lit -> k.lit[s] [] OTHER -> no],
         vis |-> none, dir |-> none, rev |-> none, imp |-> none,
         shown |-> [n \in DOMAIN k.node |-> no], valid |-> Constants, write |-> {}, user |-> [s \in names |-> Unset],
         order |-> k.members, cache |-> EmptyCache, modv |-> no, changed |-> TRUE,
         busy |-> {}, again |-> FALSE]

IsChoice(k, s) == s \in DOMAIN k.members
IsTri(k, s)    == k.type[s] \in {"bool", "tristate"}

\* sym_get_type() is S_BOOLEAN
ActsAsBool(k, st, s) == k.type[s] = "bool" \/ (k.type[s] = "tristate" /\ st.modv = no)
ToBool(k, st, s, v)  == IF v = mod /\ ActsAsBool(k, st, s) THEN yes ELSE v

PropsOfType(k, s, types) == SelectSeq(k.props[s], LAMBDA x : x.type \in types)

----------------------------------------------------------------------------
(* Every operator that may compute a value returns the new state; those    *)
(* with a result return a record [st, v].                                  *)

RECURSIVE expr_calc_value(_, _, _), sym_calc_value(_, _, _)

CalcAll(k, st, seq) == FoldLeft(LAMBDA t, s : sym_calc_value(k, t, s), st, seq)

\* What an expression makes of the values of its operands.
Negated(a)         == [a EXCEPT !.v = EXPR_NOT(@)]
Joined(type, v, b) == [b EXCEPT !.v = IF type = "and" THEN EXPR_AND(v, @) ELSE EXPR_OR(v, @)]
JoinedTo(k, e, a)  == Joined(e[1], a.v, expr_calc_value(k, a.st, e[3]))
OfSymbols(k, e, t) ==
    [st |-> t, v |-> IF e[1] = "sym" THEN TriOf(k.type, t.val, e[2])
                     ELSE IF Holds(e[1], t.val[e[2]], t.val[e[3]]) THEN yes ELSE no]

FreshValue(k, st, e) ==
    CASE e[1] = "not"      -> Negated(expr_calc_value(k, st, e[2]))
      [] e[1] \in Junction -> JoinedTo(k, e, expr_calc_value(k, st, e[2]))
      [] OTHER             -> OfSymbols(k, e, CalcAll(k, st, Tail(e)))

Cached(e, r) == [r EXCEPT !.st.cache = (e :> r.v) @@ @]

expr_calc_value(k, st, e) ==
    IF e = Null THEN [st |-> st, v |-> yes]
    ELSE IF e \in DOMAIN st.cache THEN [st |-> st, v |-> st.cache[e]]
    ELSE Cached(e, FreshValue(k, st, e))

----------------------------------------------------------------------------
(* Visibility and conditions.                                              *)

\* The visibility of a prompt, given the value q of its condition.
ShownAs(r, x, q) == [st |-> [q.st EXCEPT !.shown[x.menu] = q.v], v |-> EXPR_OR(r.v, q.v)]

PromptVisibility(k, st, s) ==
    FoldLeft(LAMBDA r, x : ShownAs(r, x, expr_calc_value(k, r.st, x.vis)),
             [st |-> st, v |-> no], PropsOfType(k, s, {"prompt", "menu"}))

SetVisible(k, s, r) ==
    [r.st EXCEPT !.vis[s] = IF r.v = mod /\ (k.type[s] # "tristate" \/ r.st.modv = no) THEN yes ELSE r.v]

\* dir_dep, rev_dep and implied, with the value of one that is missing.
SetCondition(k, s, field, r) == [r.st EXCEPT ![field][s] = ToBool(k, r.st, s, r.v)]

SetConditions(k, st, s) ==
    FoldLeft(LAMBDA t, c : IF c.e = Null THEN [t EXCEPT ![c.field][s] = c.missing]
                           ELSE SetCondition(k, s, c.field, expr_calc_value(k, t, c.e)),
             st, IF k.choiceOf[s] # "" THEN <<>> ELSE
                 <<[field |-> "dir", e |-> k.dir[s], missing |-> yes],
                   [field |-> "rev", e |-> k.rev[s], missing |-> no],
                   [field |-> "imp", e |-> k.imp[s], missing |-> no]>>)

\* A member of a choice has no conditions of its own.
sym_calc_visibility(k, st, s) ==
    SetConditions(k, SetVisible(k, s, PromptVisibility(k, st, s)), s)

\* sym_get_default_prop(), sym_get_range_prop(): the first property of the
\* type whose condition is not n, with the value of the condition.
FirstProp(k, st, s, type) ==
    FoldLeft(LAMBDA r, x : IF r.v # no THEN r ELSE expr_calc_value(k, r.st, x.vis) @@ [e |-> x.expr],
             [st |-> st, v |-> no, e |-> Null], PropsOfType(k, s, {type}))

----------------------------------------------------------------------------
(* Choices: the result is [st, s], s = "" if there is no such member.      *)

FirstWhere(seq, ok(_)) == LET i == SelectInSeq(seq, ok) IN IF i = 0 THEN "" ELSE seq[i]
LastWhere(seq, ok(_))  == LET i == SelectLastInSeq(seq, ok) IN IF i = 0 THEN "" ELSE seq[i]

IfVisible(m, q) == [st |-> q.st, s |-> IF q.v # no /\ q.st.vis[m] # no THEN m ELSE ""]

OrFirstVisible(k, c, d) ==
    IF d.s # "" THEN d ELSE [d EXCEPT !.s = FirstWhere(k.members[c], LAMBDA m : d.st.vis[m] # no)]

sym_choice_default(k, st, c) ==
    OrFirstVisible(k, c,
        FoldLeft(LAMBDA r, x : IF r.s # "" THEN r ELSE IfVisible(x.expr[2], expr_calc_value(k, r.st, x.vis)),
                 [st |-> st, s |-> ""], PropsOfType(k, c, {"default"})))

\* The members in their order of priority, up to the first that is visible and
\* set to y: the visibility of those after it is not computed again.
IfWanted(m, t) == [st |-> t, s |-> IF t.vis[m] # no /\ t.user[m] = yes THEN m ELSE ""]

WantedMember(k, st, c) ==
    FoldLeft(LAMBDA r, m : IF r.s # "" THEN r ELSE IfWanted(m, sym_calc_visibility(k, r.st, m)),
             [st |-> st, s |-> ""], st.order[c])

\* The default unless the user set it to n, or the first member not set, or the last one.
OrUnset(k, c, d) ==
    LET Visible(m) == d.st.vis[m] # no
        f == FirstWhere(k.members[c], LAMBDA m : Visible(m) /\ d.st.user[m] = Unset)
    IN  IF d.s # "" /\ d.st.user[d.s] # no THEN d
        ELSE [d EXCEPT !.s = IF f # "" THEN f ELSE LastWhere(d.st.order[c], Visible)]

ChosenMember(k, c, w) == IF w.s # "" THEN w ELSE OrUnset(k, c, sym_choice_default(k, w.st, c))

SetMembers(k, c, r) ==
    LET seen == {m \in ToSet(k.members[c]) : r.st.vis[m] # no}
    IN  [r EXCEPT !.st.val = [s \in DOMAIN @ |-> IF s \in seen THEN IF s = r.s THEN yes ELSE no ELSE @[s]],
                  !.st.valid = @ \cup seen, !.st.write = @ \cup seen]

sym_calc_choice(k, st, c) == SetMembers(k, c, ChosenMember(k, c, WantedMember(k, st, c)))

----------------------------------------------------------------------------
(* The value of a symbol.                                                  *)

Write(st, s, cond) == IF cond THEN [st EXCEPT !.write = @ \cup {s}] ELSE st

\* The default p of s, which cannot be more than its condition.
TriDefault(k, p) ==
    IF p.v = no THEN [st |-> p.st, v |-> no]
    ELSE [expr_calc_value(k, p.st, p.e) EXCEPT !.v = EXPR_AND(@, p.v)]

WriteIfSet(s, d) == [d EXCEPT !.st = Write(@, s, d.v # no)]

OrImplied(s, d) ==
    IF d.st.imp[s] = no THEN d
    ELSE [st |-> Write(d.st, s, TRUE), v |-> EXPR_AND(EXPR_OR(d.v, d.st.imp[s]), d.st.dir[s])]

\* Default and imply of a symbol the user did not set or cannot see.
DefaultTri(k, st, s) ==
    IF IsChoice(k, s) THEN [st |-> st, v |-> no]
    ELSE OrImplied(s, WriteIfSet(s, TriDefault(k, FirstProp(k, st, s, "default"))))

UserSet(st, s) == st.vis[s] # no /\ st.user[s] # Unset

OrSelected(s, d) == [d EXCEPT !.v = EXPR_OR(@, d.st.rev[s])]
CurrentOf(r, s)  == [st |-> r.st, v |-> r.st.val[s]]

\* sym_get_type() counts: without modules there is no m.
AsTyped(k, s, r) == [r EXCEPT !.v = ToBool(k, r.st, s, @)]

TriValue(k, st, s) ==
    AsTyped(k, s, IF k.choiceOf[s] # "" THEN CurrentOf(sym_calc_choice(k, st, k.choiceOf[s]), s)
                  ELSE OrSelected(s, IF UserSet(st, s) THEN [st |-> st, v |-> EXPR_AND(st.user[s], st.vis[s])]
                                     ELSE DefaultTri(k, Write(st, s, st.rev[s] # no), s)))

\* A default that is not a symbol is ignored (menu_finalize() warns).
SymDefault(k, s, p) ==
    IF p.v # no /\ p.e[1] = "sym" THEN CurrentOf([st |-> sym_calc_value(k, Write(p.st, s, TRUE), p.e[2])], p.e[2])
    ELSE [st |-> p.st, v |-> 0]

OtherValue(k, st, s) ==
    IF UserSet(st, s) THEN [st |-> st, v |-> st.user[s]]
    ELSE SymDefault(k, s, FirstProp(k, st, s, "default"))

\* sym_validate_range(): a number out of range becomes the nearer bound.
NotAbove(s, v, t)  == [st |-> t, v |-> IF v > t.val[s] THEN t.val[s] ELSE v]
Clamped(k, e, v, t) ==
    IF v < t.val[e[2]] THEN [st |-> t, v |-> t.val[e[2]]]
    ELSE NotAbove(e[3], v, sym_calc_value(k, t, e[3]))

InRange(k, p, v) ==
    IF p.v = no THEN [st |-> p.st, v |-> v] ELSE Clamped(k, p.e, v, sym_calc_value(k, p.st, p.e[2]))

sym_validate_range(k, s, r) ==
    IF k.type[s] \notin {"int", "hex"} THEN r
    ELSE InRange(k, FirstProp(k, [r.st EXCEPT !.val[s] = r.v], s, "range"), r.v)

SetValue(k, s, r) ==
    [r.st EXCEPT !.val[s] = r.v, !.busy = @ \ {s}, !.modv = IF s = k.modules THEN r.v ELSE @,
                 !.write = IF IsChoice(k, s) THEN @ \ {s} ELSE @]

\* The value of s before its range is looked at, its visibility computed.
NewValue(k, st, s) == IF IsTri(k, s) THEN TriValue(k, st, s) ELSE OtherValue(k, st, s)
Cleared(t, s)      == [Write(t, s, t.vis[s] # no) EXCEPT !.val[s] = no]

Started(st, s) == [st EXCEPT !.valid = @ \cup {s}, !.write = @ \ {s}, !.busy = @ \cup {s}]

sym_calc_value(k, st, s) ==
    IF s \in st.valid THEN [st EXCEPT !.again = @ \/ s \in st.busy]
    ELSE IF k.type[s] \in {"unknown", "const"} THEN [st EXCEPT !.valid = @ \cup {s}]
    ELSE SetValue(k, s, sym_validate_range(k, s, NewValue(k, Cleared(sym_calc_visibility(k, Started(st, s), s), s), s)))

----------------------------------------------------------------------------
(* What the user can do.                                                   *)

sym_clear_all_valid(k, st) ==
    sym_calc_value(k, [st EXCEPT !.valid = Constants, !.cache = EmptyCache, !.changed = TRUE], k.modules)

sym_tristate_within_range(k, st, s, v) ==
    /\ IsTri(k, s) /\ st.vis[s] # no /\ st.vis[s] > st.rev[s]
    /\ ~(ActsAsBool(k, st, s) /\ v = mod)
    /\ st.rev[s] <= v /\ v <= st.vis[s]

\* A faulty variant: the values that depend on it are kept.
SetAndKeep(k, st, s, v) == [st EXCEPT !.user[s] = v]

\* The caller has tested that v is within range.
sym_set_tristate_value(k, st, s, v) ==
    LET t == [st EXCEPT !.user[s] = v]
    IN  IF st.val[s] # v THEN sym_clear_all_valid(k, t) ELSE t

MoveToFront(seq, s) == <<s>> \o SelectSeq(seq, LAMBDA x : x # s)
MoveToTail(seq, s)  == Append(SelectSeq(seq, LAMBDA x : x # s), s)

choice_set_value(k, st, c, s) ==
    LET seen == SelectSeq(k.members[c], LAMBDA m : st.vis[m] # no)
        Want(m) == IF m = s THEN yes ELSE no
        t == [st EXCEPT !.user = [m \in DOMAIN @ |-> IF m \in ToSet(seen) THEN Want(m) ELSE @[m]],
                        !.order[c] = FoldLeft(MoveToFront, @, seen)]
    IN  IF \E m \in ToSet(seen) : st.val[m] # Want(m) THEN sym_clear_all_valid(k, t) ELSE t

\* sym_string_within_range() for a number: [st, v], v tells whether it is.
InBounds(e, v, t) == [st |-> t, v |-> t.val[e[2]] <= v /\ v <= t.val[e[3]]]

WithinRange(k, p, v) ==
    IF p.v = no THEN [st |-> p.st, v |-> TRUE]
    ELSE InBounds(p.e, v, sym_calc_value(k, sym_calc_value(k, p.st, p.e[2]), p.e[3]))

sym_string_within_range(k, st, s, v) ==
    IF k.type[s] = "string" THEN [st |-> st, v |-> TRUE]
    ELSE WithinRange(k, FirstProp(k, st, s, "range"), v)

\* The caller has tested that v is within range.
sym_set_string_value(k, st, s, v) ==
    IF st.user[s] = v /\ k.type[s] # "hex" THEN st
    ELSE sym_clear_all_valid(k, [st EXCEPT !.user[s] = v])

sym_is_changeable(k, st, s) == ~IsChoice(k, s) /\ st.vis[s] > st.rev[s]

\* The first default of s, its visibility computed first.
DefaultProp(k, st, s) ==
    FirstProp(k, sym_calc_value(k, sym_calc_visibility(k, st, s), k.modules), s, "default")

\* A faulty variant: what another symbol implies is forgotten.
DefaultAlone(k, st, s) == TriDefault(k, DefaultProp(k, st, s))

\* What other symbols select and imply is added to the default a.
WithReverse(k, s, a) ==
    LET b == EXPR_OR(a.v, a.st.rev[s])
        c == IF b = mod /\ (k.type[s] = "bool" \/ (k.choiceOf[s] = "" /\ a.st.val[k.modules] = no))
             THEN yes ELSE b
    IN  [a EXCEPT !.v = EXPR_OR(c, a.st.imp[s])]

DefaultOf(k, s, p) ==
    IF IsTri(k, s) THEN WithReverse(k, s, TriDefault(k, p))
    ELSE IF p.v # no /\ p.e[1] = "sym" THEN CurrentOf([st |-> sym_calc_value(k, p.st, p.e[2])], p.e[2])
    ELSE [st |-> p.st, v |-> 0]

\* sym_get_string_default()
sym_get_string_default(k, st, s) == DefaultOf(k, s, DefaultProp(k, st, s))
=============================================================================
