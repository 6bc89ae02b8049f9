-------------------------------- MODULE KExpr --------------------------------
(***************************************************************************)
(* Boolean expressions of the configuration language (config/expr.c): how  *)
(* they are built, compared and simplified.  An expression is the tuple    *)
(* <<type, operands>>; two nodes with the same type and operands are one   *)
(* node (expr_lookup), so equality of tuples is equality of pointers.  The *)
(* empty tuple is the NULL expression, which counts as yes.                *)
(*                                                                         *)
(* Parameter ty gives the type of every symbol; "const" is a quoted        *)
(* constant, "unknown" a name that was never defined.                      *)
(***************************************************************************)
EXTENDS Integers, Sequences

no  == 0
mod == 1
yes == 2
Tristate == {no, mod, yes}

EXPR_OR(a, b)  == IF a > b THEN a ELSE b
EXPR_AND(a, b) == IF a < b THEN a ELSE b
EXPR_NOT(a)    == 2 - a

Null      == <<>>
Junction  == {"and", "or"}
Relation  == {"eq", "ne", "lt", "le", "gt", "ge"}
Sym(s)    == <<"sym", s>>
Not(e)    == <<"not", e>>
Constants == {"y", "m", "n"}                \* symbol_yes, symbol_mod, symbol_no

expr_alloc_and(e1, e2) == IF e1 = Null THEN e2 ELSE IF e2 = Null THEN e1 ELSE <<"and", e1, e2>>
expr_alloc_or(e1, e2)  == IF e1 = Null THEN e2 ELSE IF e2 = Null THEN e1 ELSE <<"or", e1, e2>>

expr_is_yes(e) == e \in {Null, Sym("y")}

\* The operand that leaves a junction as it is, and the one that decides it.
Neutral(type)  == IF type = "and" THEN Sym("y") ELSE Sym("n")
Deciding(type) == IF type = "and" THEN Sym("n") ELSE Sym("y")

RECURSIVE expr_eliminate_yn(_)
expr_eliminate_yn(e) ==
    IF e = Null THEN e
    ELSE IF e[1] \notin Junction THEN e
    ELSE LET l == expr_eliminate_yn(e[2])
             r == expr_eliminate_yn(e[3])
         IN  CASE l = Deciding(e[1]) -> l
               [] l = Neutral(e[1])  -> r
               [] r = Deciding(e[1]) -> r
               [] r = Neutral(e[1])  -> l
               [] OTHER -> e                \* the simplified operands are dropped

\* Both expressions are taken apart down to operands that are not of the given
\* type; equal operands become neutral in both.
RECURSIVE EliminateEq(_, _, _), expr_eq(_, _), expr_eliminate_eq(_, _)

\* A junction is put together again after its second operand was compared, too.
AgainLeft(type, l, p)  == <<<<type, l, p[1]>>, p[2]>>
AgainRight(type, r, p) == <<p[1], <<type, r, p[2]>>>>

EliminateEq(type, e1, e2) ==
    CASE e1[1] = type ->
           LET a == EliminateEq(type, e1[2], e2)
           IN  AgainLeft(type, a[1], EliminateEq(type, e1[3], a[2]))
      [] e1[1] # type /\ e2[1] = type ->
           LET a == EliminateEq(type, e1, e2[2])
           IN  AgainRight(type, a[2], EliminateEq(type, a[1], e2[3]))
      [] OTHER ->
           IF ~(e1 = e2 /\ e1 \in {Sym("y"), Sym("n")}) /\ expr_eq(e1, e2)
           THEN <<Neutral(type), Neutral(type)>>
           ELSE <<e1, e2>>

EliminateBy(type, p)    == IF type \in Junction THEN EliminateEq(type, p[1], p[2]) ELSE p
EliminateBySecond(p)    == IF p[1][1] = p[2][1] THEN p ELSE EliminateBy(p[2][1], p)
BothWithoutConstants(p) == <<expr_eliminate_yn(p[1]), expr_eliminate_yn(p[2])>>

expr_eliminate_eq(e1, e2) ==
    IF e1 = Null \/ e2 = Null THEN <<e1, e2>>
    ELSE BothWithoutConstants(EliminateBySecond(EliminateBy(e1[1], <<e1, e2>>)))

\* Nothing is left of the two.
NothingLeft(p) == p[1] = p[2] /\ p[1][1] = "sym"

expr_eq(e1, e2) ==
    IF e1 = Null \/ e2 = Null THEN expr_is_yes(e1) /\ expr_is_yes(e2)
    ELSE /\ e1[1] = e2[1]
         /\ CASE e1[1] = "not"      -> expr_eq(e1[2], e2[2])
              [] e1[1] \in Junction -> NothingLeft(expr_eliminate_eq(e1, e2))
              [] OTHER              -> e1 = e2

----------------------------------------------------------------------------
(* Joining two operands of one junction into one: Null if that fails.      *)

IsConst(ty, s) == s \in Constants \/ ty[s] = "const"

\* The symbol an operand is about; the second operand may be a negated symbol only.
About(e, under) ==
    CASE e[1] \in {"eq", "ne", "sym"}               -> e[2]
      [] e[1] = "not" /\ e[2][1] \in under          -> e[2][2]
      [] OTHER                                      -> ""

SameSymbol(ty, e1, e2) ==
    LET s == About(e1, {"eq", "ne", "sym"})
    IN  IF s # "" /\ s = About(e2, {"sym"}) /\ ty[s] \in {"bool", "tristate"} THEN s ELSE ""

\* e1 is of type t1 with operand r1 and e2 of type t2 with operand r2, or the other way round.
Both(e1, e2, t1, r1, t2, r2) ==
    LET Is(e, t, r) == e[1] = t /\ (r # "" => e[3] = r)
    IN  (Is(e1, t1, r1) /\ Is(e2, t2, r2)) \/ (Is(e2, t1, r1) /\ Is(e1, t2, r2))

\* Two operands of an "or" about symbol s.
JoinOr(ty, s, e1, e2) ==
    IF s = "" THEN Null
    ELSE IF ty[s] = "tristate"
         THEN CASE Both(e1, e2, "eq", "y", "eq", "m") -> <<"ne", s, "n">>
                [] Both(e1, e2, "eq", "y", "eq", "n") -> <<"ne", s, "m">>
                [] Both(e1, e2, "eq", "m", "eq", "n") -> <<"ne", s, "y">>
                [] OTHER -> Null
    ELSE IF ty[s] = "bool" /\ {e1, e2} = {Sym(s), Not(Sym(s))} THEN Sym("y") ELSE Null

expr_join_or(ty, e1, e2) ==
    IF expr_eq(e1, e2) THEN e1 ELSE JoinOr(ty, SameSymbol(ty, e1, e2), e1, e2)

\* A faulty variant of the next one: the cases are swapped.
SwappedCases(ty, s, b, c) == IF b # c THEN Sym("n") ELSE <<"eq", s, b>>

\* a = b and a # c of a tristate: decided if b and c are constants.
EqualAndNot(ty, s, b, c) ==
    IF ~IsConst(ty, b) \/ ~IsConst(ty, c) THEN Null
    ELSE IF b # c THEN <<"eq", s, b>> ELSE Sym("n")

\* Two operands of an "and" about symbol s.
JoinAnd(ty, s, e1, e2) ==
    CASE s = "" -> Null
      [] s # "" /\ Both(e1, e2, "sym", "", "eq", "y") -> <<"eq", s, "y">>
      [] s # "" /\ Both(e1, e2, "sym", "", "ne", "n") -> Sym(s)
      [] s # "" /\ Both(e1, e2, "sym", "", "ne", "m") -> <<"eq", s, "y">>
      [] OTHER ->
           CASE ty[s] # "tristate" -> Null
             [] ty[s] = "tristate" /\ e1[1] = "eq" /\ e2[1] = "ne" -> EqualAndNot(ty, s, e1[3], e2[3])
             [] ty[s] = "tristate" /\ e1[1] = "ne" /\ e2[1] = "eq" -> EqualAndNot(ty, s, e2[3], e1[3])
             [] ty[s] = "tristate" /\ Both(e1, e2, "ne", "y", "ne", "n") -> <<"eq", s, "m">>
             [] ty[s] = "tristate" /\ Both(e1, e2, "ne", "y", "ne", "m") -> <<"eq", s, "n">>
             [] ty[s] = "tristate" /\ Both(e1, e2, "ne", "m", "ne", "n") -> <<"eq", s, "y">>
             [] OTHER -> Null

expr_join_and(ty, e1, e2) ==
    IF expr_eq(e1, e2) THEN e1 ELSE JoinAnd(ty, SameSymbol(ty, e1, e2), e1, e2)

Join(ty, type, e1, e2) == IF type = "or" THEN expr_join_or(ty, e1, e2) ELSE expr_join_and(ty, e1, e2)

\* <<e1, e2, something was joined>>
RECURSIVE EliminateDups(_, _, _, _), expr_eliminate_dups(_, _)

\* The joined operand takes the place of the second one.
InsteadOf(type, e1, e2, j) == IF j = Null THEN <<e1, e2, FALSE>> ELSE <<Neutral(type), j, TRUE>>

EliminateDups(ty, type, e1, e2) ==
    CASE e1[1] = type ->
           LET a == EliminateDups(ty, type, e1[2], e2)
               b == EliminateDups(ty, type, e1[3], a[2])
           IN  <<<<type, a[1], b[1]>>, b[2], a[3] \/ b[3]>>
      [] e1[1] # type /\ e2[1] = type ->
           LET a == EliminateDups(ty, type, e1, e2[2])
               b == EliminateDups(ty, type, a[1], e2[3])
           IN  <<b[1], <<type, a[2], b[2]>>, a[3] \/ b[3]>>
      [] OTHER -> InsteadOf(type, e1, e2, Join(ty, type, e1, e2))

\* d are the operands of e after that.
WithoutDups(ty, e, d) ==
    IF d[3] THEN expr_eliminate_dups(ty, expr_eliminate_yn(<<e[1], d[1], d[2]>>))
    ELSE expr_eliminate_yn(<<e[1], d[1], d[2]>>)

expr_eliminate_dups(ty, e) ==
    IF e = Null THEN e
    ELSE IF e[1] \notin Junction THEN e
    ELSE WithoutDups(ty, e, EliminateDups(ty, e[1], expr_eliminate_dups(ty, e[2]),
                                                    expr_eliminate_dups(ty, e[3])))

----------------------------------------------------------------------------
(* Normal forms.                                                           *)

Opposite(t) == CASE t = "eq" -> "ne" [] t = "ne" -> "eq" [] t = "le" -> "gt"
                 [] t = "ge" -> "lt" [] t = "lt" -> "ge" [] t = "gt" -> "le"

\* A bool compared with y: the symbol itself is taken for the expression to
\* negate, so what follows reads a symbol as if it were an expression.
Wild(s) == <<"wild", s>>

TransformCompare(ty, e) ==
    IF e[1] \notin {"eq", "ne"} \/ ty[e[2]] # "bool" \/ e[3] \notin Constants THEN e
    ELSE LET holds == e[1] = "eq"
         IN  CASE e[3] = "n" -> IF holds THEN Not(Sym(e[2])) ELSE Sym(e[2])
               [] e[3] = "m" -> IF holds THEN Sym("n") ELSE Sym("y")
               [] e[3] = "y" -> IF holds THEN Sym(e[2]) ELSE Not(Wild(e[2]))

RECURSIVE expr_transform(_, _)
TransformNot(ty, x) ==
    CASE x[1] = "not"        -> x[2]
      [] x[1] \in Relation   -> <<Opposite(x[1]), x[2], x[3]>>
      [] x[1] = "or"         -> expr_transform(ty, <<"and", Not(x[2]), Not(x[3])>>)
      [] x[1] = "and"        -> expr_transform(ty, <<"or", Not(x[2]), Not(x[3])>>)
      [] x = Sym("y")        -> Sym("n")
      [] x = Sym("m")        -> Sym("m")
      [] x = Sym("n")        -> Sym("y")
      [] OTHER               -> Not(x)

expr_transform(ty, e) ==
    CASE e = Null -> Null
      [] e # Null /\ e[1] \in Relation -> TransformCompare(ty, e)
      [] e # Null /\ e[1] \in Junction ->
           <<e[1], expr_transform(ty, e[2]), expr_transform(ty, e[3])>>
      [] e # Null /\ e[1] = "not" -> TransformNot(ty, expr_transform(ty, e[2]))
      [] OTHER -> e

RECURSIVE expr_contains_symbol(_, _), expr_depends_symbol(_, _)
expr_contains_symbol(e, s) ==
    CASE e = Null -> FALSE
      [] e # Null /\ e[1] \in Junction -> expr_contains_symbol(e[2], s) \/ expr_contains_symbol(e[3], s)
      [] e # Null /\ e[1] = "not"      -> expr_contains_symbol(e[2], s)
      [] e # Null /\ e[1] \in Relation -> s \in {e[2], e[3]}
      [] OTHER                         -> e = Sym(s)

expr_depends_symbol(e, s) ==
    CASE e = Null -> FALSE
      [] e # Null /\ e[1] = "and" -> expr_depends_symbol(e[2], s) \/ expr_depends_symbol(e[3], s)
      [] OTHER -> e \in {Sym(s), <<"eq", s, "y">>, <<"eq", s, "m">>, <<"ne", s, "n">>}

\* The expression that says "e is (type eq) or is not (type ne) the constant c".
RECURSIVE expr_trans_compare(_, _, _)
expr_trans_compare(e, type, c) ==
    LET Signed(x) == IF type = "ne" THEN Not(x) ELSE x
        Swapped   == IF e[1] = "and" THEN "or" ELSE "and"
    IN  CASE e = Null -> Signed(Sym(c))
          [] e # Null /\ e[1] \in Junction ->
               LET l == expr_trans_compare(e[2], "eq", c)
                   r == expr_trans_compare(e[3], "eq", c)
               IN  Signed(CASE c = "y" -> <<e[1], l, r>>
                            [] c = "n" -> <<Swapped, l, r>>
                            [] OTHER   -> e)
          [] e # Null /\ e[1] = "not" -> expr_trans_compare(e[2], Opposite(type), c)
          [] e # Null /\ e[1] \in Relation ->
               (CASE c = "y" -> Signed(e)
                  [] c = "m" -> IF type = "eq" THEN Sym("n") ELSE Sym("y")
                  [] c = "n" -> IF type = "eq" THEN Not(e) ELSE e)
          [] e # Null /\ e[1] = "sym" -> <<type, e[2], c>>
          [] OTHER -> Null

----------------------------------------------------------------------------
(* The value of an expression when the symbols have the values val: what   *)
(* __expr_calc_value() computes, without its cache.  Strings and numbers   *)
(* are numbers here; the tristate value of a symbol of another type is n.  *)

Holds(rel, a, b) == CASE rel = "eq" -> a = b  [] rel = "ne" -> a # b
                      [] rel = "lt" -> a < b  [] rel = "le" -> a <= b
                      [] rel = "gt" -> a > b  [] rel = "ge" -> a >= b

TriOf(ty, val, s) == IF ty[s] \in {"bool", "tristate"} THEN val[s] ELSE no

RECURSIVE Value(_, _, _)
Value(ty, val, e) ==
    CASE e = Null -> yes
      [] e # Null /\ e[1] = "sym" -> TriOf(ty, val, e[2])
      [] e # Null /\ e[1] = "not" -> EXPR_NOT(Value(ty, val, e[2]))
      [] e # Null /\ e[1] = "and" -> EXPR_AND(Value(ty, val, e[2]), Value(ty, val, e[3]))
      [] e # Null /\ e[1] = "or"  -> EXPR_OR(Value(ty, val, e[2]), Value(ty, val, e[3]))
      [] e # Null /\ e[1] \in Relation -> IF Holds(e[1], val[e[2]], val[e[3]]) THEN yes ELSE no
=============================================================================
