-------------------------------- MODULE KConf --------------------------------
(***************************************************************************)
(* The program conf (config/conf.c) and the files it works on              *)
(* (config/confdata.c): reading .config, asking the user, writing .config, *)
(* touching the dependency files and writing the generated files.          *)
(*                                                                         *)
(* A file of lines is a sequence of <<symbol, value>>, a generated file    *)
(* the function from the symbols in it to their values.  Between two runs  *)
(* the user may edit .config or change the Kconfig files; a run may be     *)
(* killed, or fail to write a file, between any two steps.  The            *)
(* environment variables that change the file names, KCONFIG_WERROR,       *)
(* KCONFIG_OVERWRITECONFIG and KCONFIG_DEFCONFIG_LIST are not set.         *)
(***************************************************************************)
EXTENDS KSymbol

CONSTANTS Trees,       \* sequence of Kconfig files, with the input modes that are used on each
                       \* (modes), the index of a changed version, or 0 (next), and a bound:
                       \* the runs of the program (maxRuns)
          Tables,      \* conf_parse() of each
          Edits,       \* what the user may write into .config
          Defconfigs,  \* files for --defconfig
          Seeds,       \* files for KCONFIG_ALLCONFIG
          Numbers,     \* what the user types at a string or number prompt
          NoFile

ASSUME TablesAssumption ==
    /\ Tables = [i \in DOMAIN Trees |-> conf_parse(Trees[i])]
    /\ \A i \in DOMAIN Tables : Tables[i].ok

VARIABLES ver,         \* index of the Kconfig files in use
          run,         \* the process, pc = "off" if there is none
          disk,        \* .config, .config.old and the generated files
          touched,     \* dependency files touched since auto.conf was last replaced
          torn,        \* history: a run was cut short among the generated files, and none
                       \* has ended well since
          runs

vars == <<ver, run, disk, touched, torn, runs>>

K == Tables[ver]
Modes == Trees[ver].modes

Off == [pc |-> "off"]

----------------------------------------------------------------------------
(* Reading .config.                                                        *)

\* conf_set_sym_val(): FALSE where the value is not one of the type.
Acceptable(k, s, v) ==
    CASE k.type[s] = "tristate" -> v \in Tristate
      [] k.type[s] = "bool"     -> v \in {no, yes}
      [] OTHER                  -> TRUE

\* A choice member that is read gets the highest priority.
Prefer(k, st, s) ==
    LET c == k.choiceOf[s] IN IF c = "" THEN st ELSE [st EXCEPT !.order[c] = MoveToFront(@, s)]

\* One line of .config; r.warned counts as conf_warnings # 0.
ReadLine(k, r, line) ==
    LET s == line[1]
        v == line[2]
    IN  CASE s \notin DOMAIN k.type -> [r EXCEPT !.st.changed = TRUE]
          [] s \in DOMAIN k.type /\ ~Acceptable(k, s, v) -> [r EXCEPT !.warned = TRUE]
          [] OTHER -> [warned |-> r.warned \/ r.st.user[s] # Unset,
                       st |-> Prefer(k, IF k.type[s] = "unknown" THEN r.st
                                        ELSE [r.st EXCEPT !.user[s] = v], s)]

conf_read_simple(k, st, lines) ==
    FoldLeft(LAMBDA r, l : ReadLine(k, r, l),
             [warned |-> FALSE,
              st |-> [st EXCEPT !.user = [s \in DOMAIN @ |-> Unset], !.valid = Constants, !.cache = EmptyCache]],
             lines)

\* The calculated value is not the saved one, or only one of them exists.
Disagrees(k, st, s) ==
    /\ ~IsChoice(k, s)
    /\ IF st.user[s] # Unset /\ s \in st.write THEN st.user[s] # st.val[s]
       ELSE st.user[s] # Unset \/ s \in st.write

Noted(k, st, s) == [st EXCEPT !.changed = @ \/ Disagrees(k, st, s)]

\* The values of what was read, r, compared with what was read.
ReadValues(k, r, syms) ==
    [FoldLeft(LAMBDA t, s : Noted(k, sym_calc_value(k, t, s), s), sym_calc_value(k, r.st, k.modules), syms)
       EXCEPT !.changed = @ \/ r.warned]

conf_read(k, st, file) ==
    IF file = NoFile THEN sym_calc_value(k, [st EXCEPT !.changed = TRUE], k.modules)
    ELSE ReadValues(k, conf_read_simple(k, [st EXCEPT !.changed = FALSE], file), k.syms)

----------------------------------------------------------------------------
(* The modes that answer for the user.                                     *)

\* randomize_choice_values(): members without a value get y in a random order.
randomize_choice_values(k, st, c) ==
    {FoldLeft(LAMBDA t, m : [t EXCEPT !.user[m] = yes, !.order[c] = MoveToTail(@, m)], st, order)
       : order \in SetToSeqs({m \in ToSet(k.members[c]) : st.user[m] = Unset})}

NewValues(k, mode, s) ==
    CASE mode = "allyesconfig" -> {yes}
      [] mode = "allmodconfig" -> {mod}
      [] mode = "allnoconfig"  -> {no}
      [] mode = "randconfig"   -> IF k.type[s] = "tristate" THEN Tristate ELSE {no, yes}
      [] OTHER                 -> {}

\* What conf_set_all_new_symbols() may make of the symbol of entry n.
SetNewSymbol(k, mode, st, n) ==
    LET s == k.node[n].sym
    IN  IF s = "" \/ k.node[n].prompt = 0 THEN {st}
        ELSE IF st.user[s] # Unset \/ ~IsTri(k, s) \/ k.choiceOf[s] # "" THEN {st}
        ELSE IF IsChoice(k, s)
             THEN IF mode = "randconfig" THEN randomize_choice_values(k, st, s) ELSE {st}
        ELSE IF NewValues(k, mode, s) = {} THEN {st}
        ELSE {[st EXCEPT !.user[s] = v] : v \in NewValues(k, mode, s)}

conf_set_all_new_symbols(k, mode, st) ==
    {sym_clear_all_valid(k, t) :
       t \in FoldLeft(LAMBDA S, n : UNION {SetNewSymbol(k, mode, t, n) : t \in S}, {st}, k.entries)}

conf_rewrite_tristates(k, st, old, new) ==
    sym_clear_all_valid(k, [st EXCEPT !.user = [s \in DOMAIN @ |->
        IF k.type[s] = "tristate" /\ st.modv # no /\ @[s] = old THEN new ELSE @[s]]])

----------------------------------------------------------------------------
(* Asking the user: conf() and check_conf() walk through the menus.  The   *)
(* walk w of a run has the calls still to make in w.todo, the first one at *)
(* the head; it stops at a prompt that waits for an answer.                *)

RECURSIVE menu_is_visible(_, _, _)

PromptOf(n, st) == [st |-> st, v |-> st.shown[n]]

OwnPrompt(k, st, n) ==
    IF k.node[n].sym = "" THEN expr_calc_value(k, st, k.prop[k.node[n].prompt].vis)
    ELSE PromptOf(n, sym_calc_value(k, st, k.node[n].sym))

\* Below a symbol that is set, an entry may be visible although its own prompt is not.
OrBelow(k, n, own) ==
    LET s == k.node[n].sym
    IN  IF own.v # no THEN [own EXCEPT !.v = TRUE]
        ELSE IF s = "" THEN [own EXCEPT !.v = FALSE]
        ELSE FoldLeft(LAMBDA r, c : IF r.v THEN r ELSE menu_is_visible(k, r.st, c), [own EXCEPT !.v = FALSE],
                      IF TriOf(k.type, own.st.val, s) = no THEN <<>> ELSE k.kids[n])

InMenu(k, n, g) == IF g.v = no THEN [g EXCEPT !.v = FALSE] ELSE OrBelow(k, n, OwnPrompt(k, g.st, n))

menu_is_visible(k, st, n) ==
    IF k.node[n].prompt = 0 THEN [st |-> st, v |-> FALSE] ELSE InMenu(k, n, expr_calc_value(k, st, k.vis[n]))

RECURSIVE menu_get_parent_menu(_, _)
menu_get_parent_menu(k, n) ==
    IF n = 1 THEN 1
    ELSE IF k.node[n].prompt # 0 /\ k.prop[k.node[n].prompt].type = "menu" THEN n
    ELSE menu_get_parent_menu(k, k.par[n])

Call(op, n)  == [op |-> op, n |-> n]
Kids(op, k, n) == [i \in DOMAIN k.kids[n] |-> Call(op, k.kids[n][i])]

\* The members a choice offers: [st, seen].
Offer(k, r, c, q) ==
    [st |-> q.st, seen |-> IF q.v /\ k.node[c].sym # "" THEN Append(r.seen, k.node[c].sym) ELSE r.seen]

Offered(k, st, n) ==
    FoldLeft(LAMBDA r, c : Offer(k, r, c, menu_is_visible(k, r.st, c)), [st |-> st, seen |-> <<>>], k.kids[n])

\* conf_choice(): the member that is taken without a question, or "".
Automatic(w, offer, default) ==
    IF Len(offer.seen) = 1 THEN offer.seen[1]
    ELSE IF w.mode # "oldaskconfig" /\ \A s \in ToSet(offer.seen) : offer.st.user[s] # Unset
            /\ default \in ToSet(offer.seen)
         THEN default
    ELSE ""

\* conf_askvalue(): the user is asked, not just shown the value.
Asked(k, w, s) ==
    sym_is_changeable(k, w.st, s) /\ (w.mode = "oldaskconfig" \/ w.st.user[s] = Unset)

Then(w, st, calls) == [w EXCEPT !.st = st, !.todo = calls \o Tail(@)]

\* conf() at entry n, r tells whether it is visible.
conf(k, w, n, r) ==
    LET s == k.node[n].sym
        p == k.node[n].prompt
    IN  IF ~r.v THEN Then(w, r.st, <<>>)
        ELSE IF k.prop[p].type = "menu" /\ w.mode # "oldaskconfig" /\ w.root # n
             THEN Then(w, r.st, <<Call("check_conf", n)>>)
        ELSE IF s = "" THEN Then(w, r.st, Kids("conf", k, n))
        ELSE IF IsChoice(k, s) THEN Then(w, r.st, <<Call("choice", n)>>)
        ELSE Then(w, r.st, <<Call("ask", n)>> \o Kids("conf", k, n))

check_conf(k, w, n, r) ==
    LET s   == k.node[n].sym
        new == s # "" /\ r.st.user[s] = Unset /\ sym_is_changeable(k, r.st, s)
        up  == menu_get_parent_menu(k, n)
    IN  IF ~r.v THEN Then(w, r.st, <<>>)
        ELSE IF new /\ w.mode \notin {"listnewconfig", "helpnewconfig"}
             THEN [Then(w, r.st, <<Call("conf", up)>> \o Kids("check_conf", k, n)) EXCEPT
                     !.cnt = @ + 1, !.root = up]
        ELSE Then(w, r.st, Kids("check_conf", k, n))

\* main() starts over while there are new symbols (conf_cnt).
StartOver(w) ==
    IF Head(w.todo).op = "changed" THEN Then(w, w.st, IF w.cnt = 0 THEN <<>> ELSE <<Call("update", 1)>>)
    ELSE [Then(w, w.st, <<Call("check_conf", 1), Call("changed", 1)>>) EXCEPT
            !.cnt = 0, !.mode = IF @ = "oldaskconfig" THEN "oldconfig" ELSE @]

\* Until a call of conf_sym(), conf_string() or conf_choice() waits for an answer.
RECURSIVE Walk(_, _)

Entry(k, w, op, n, r) == IF op = "conf" THEN conf(k, w, n, r) ELSE check_conf(k, w, n, r)

AtChoice(k, w, s, offer, default) ==
    LET auto == Automatic(w, offer, default)
    IN  IF auto = "" THEN w ELSE Walk(k, Then(w, choice_set_value(k, offer.st, s, auto), <<>>))

OfferChoice(k, w, n, c) == AtChoice(k, w, k.node[n].sym, Offered(k, c.st, n), c.s)

Walk(k, w) ==
    LET op == Head(w.todo).op
        n  == Head(w.todo).n
        s  == k.node[n].sym
    IN  IF w.todo = <<>> THEN w
        ELSE IF op \in {"conf", "check_conf"} THEN Walk(k, Entry(k, w, op, n, menu_is_visible(k, w.st, n)))
        ELSE IF op = "choice" THEN OfferChoice(k, w, n, sym_calc_choice(k, w.st, s))
        ELSE IF op = "ask" THEN IF Asked(k, w, s) THEN w ELSE Walk(k, Then(w, w.st, <<>>))
        ELSE Walk(k, StartOver(w))

\* The choice at the head of the walk: [st, seen].
OfferedAt(k, w) ==
    LET n == Head(w.todo).n IN Offered(k, sym_calc_choice(k, w.st, k.node[n].sym).st, n)

\* The symbols that the prompt at w sets.
Offers(k, w) ==
    LET s == k.node[Head(w.todo).n].sym IN IF IsChoice(k, s) THEN ToSet(OfferedAt(k, w).seen) ELSE {s}

\* The members of an offer, and the numbers that fit the range of s.
Choose(k, s, offer) == {choice_set_value(k, offer.st, s, m) : m \in ToSet(offer.seen)}

Fitting(k, st, s) ==
    {r \in {sym_string_within_range(k, st, s, v) @@ [text |-> v] : v \in Numbers \cup {st.val[s]}} : r.v}

\* What the prompt accepts at w: the states after each answer.  An empty line
\* stands for the value shown; anything else asks again.
Answers(k, w) ==
    LET s == k.node[Head(w.todo).n].sym
    IN  IF IsChoice(k, s) THEN Choose(k, s, OfferedAt(k, w))
        ELSE IF IsTri(k, s)
             THEN {sym_set_tristate_value(k, w.st, s, v) :
                     v \in {v \in Tristate : sym_tristate_within_range(k, w.st, s, v)}}
        ELSE {sym_set_string_value(k, r.st, s, r.text) : r \in Fitting(k, w.st, s)}

----------------------------------------------------------------------------
(* The generated files.                                                    *)

Written(k, st) == {s \in st.write : ~IsChoice(k, s) /\ k.type[s] # "unknown"}

\* auto.conf, autoconf.h and rustc_cfg leave symbols out that are n.
AutoConf(k, st)    == [s \in {s \in Written(k, st) : ~(IsTri(k, s) /\ st.val[s] = no)} |-> st.val[s]]
CmakeFile(k, st)   == [s \in Written(k, st) |-> st.val[s]]

\* .config has a line for every entry's symbol, in the order of the menus.
WriteLine(k, r, s, t) ==
    [st |-> t, lines |-> IF s \in t.write /\ k.type[s] # "unknown" THEN Append(r.lines, <<s, t.val[s]>>) ELSE r.lines]

DotConfig(k, st) ==
    FoldLeft(LAMBDA r, s : IF s = "" \/ IsChoice(k, s) \/ \E i \in DOMAIN r.lines : r.lines[i][1] = s THEN r
                           ELSE WriteLine(k, r, s, sym_calc_value(k, r.st, s)),
             [st |-> st, lines |-> <<>>], [i \in DOMAIN k.entries |-> k.node[k.entries[i]].sym])

\* conf_write_defconfig(): the changeable symbols that are not at their default d,
\* and are not the member that their choice has by default.
IsChosen(s, c) == [st |-> c.st, v |-> c.s = s /\ c.st.val[s] = yes]

Redundant(k, s, d) ==
    IF k.choiceOf[s] = "" \/ d.st.val[s] = d.v THEN [st |-> d.st, v |-> d.st.val[s] = d.v]
    ELSE IsChosen(s, sym_choice_default(k, d.st, k.choiceOf[s]))

LineUnless(r, s, d) == [st |-> d.st, lines |-> IF d.v THEN r.lines ELSE Append(r.lines, <<s, d.st.val[s]>>)]

MinimalLine(k, r, s, t) ==
    LET u == [t EXCEPT !.write = @ \ {s}]
    IN  IF s \notin t.write THEN [r EXCEPT !.st = t]
        ELSE IF ~sym_is_changeable(k, u, s) THEN [r EXCEPT !.st = u]
        ELSE LineUnless(r, s, Redundant(k, s, sym_get_string_default(k, u, s)))

conf_write_defconfig(k, st) ==
    FoldLeft(LAMBDA r, s : IF s = "" \/ IsChoice(k, s) THEN r ELSE MinimalLine(k, r, s, sym_calc_value(k, r.st, s)),
             [st |-> sym_clear_all_valid(k, st), lines |-> <<>>],
             [i \in DOMAIN k.entries |-> k.node[k.entries[i]].sym])

\* conf_touch_deps(): auto.conf is read as a second set of values, which moves
\* choice members to the front again; symbols that are not known any more, and
\* those with another value than there, are touched.
ReadAuto(k, st, auto) ==
    LET known == SelectSeq(k.syms, LAMBDA s : s \in DOMAIN auto /\ Acceptable(k, s, auto[s]))
    IN  IF auto = NoFile THEN st
        ELSE FoldLeft(LAMBDA t, s : Prefer(k, t, s),
                      [st EXCEPT !.valid = Constants, !.cache = EmptyCache], known)

\* A faulty variant of the next one: a symbol that is no longer written is missed.
OutdatedWritten(k, st, auto) ==
    {s \in st.write : ~IsChoice(k, s) /\ ~(auto # NoFile /\ s \in DOMAIN auto /\ auto[s] = st.val[s])}

Outdated(k, st, auto) ==
    LET old == IF auto = NoFile THEN {} ELSE {s \in DOMAIN auto \cap ToSet(k.syms) : Acceptable(k, s, auto[s])}
    IN  {s \in ToSet(k.syms) :
           /\ ~IsChoice(k, s)
           /\ IF s \in st.write
              THEN IF s \in old THEN auto[s] # st.val[s] ELSE ~(IsTri(k, s) /\ st.val[s] = no)
              ELSE s \in old}

Unknown(k, auto) == IF auto = NoFile THEN {} ELSE DOMAIN auto \ DOMAIN k.type

----------------------------------------------------------------------------
(* The process.                                                            *)

WalkModes == {"oldaskconfig", "oldconfig", "syncconfig", "listnewconfig", "helpnewconfig"}
AllModes  == {"allnoconfig", "allyesconfig", "allmodconfig", "alldefconfig", "randconfig"}

Init ==
    /\ ver \in DOMAIN Trees /\ run = Off /\ touched = {} /\ torn = FALSE /\ runs = 0
    /\ disk = [config |-> NoFile, old |-> NoFile, def |-> NoFile, auto |-> NoFile, header |-> NoFile,
               rustc |-> NoFile, cmake |-> NoFile, stale |-> TRUE]

\* The first call of the walk of main().
FirstCalls(mode) ==
    IF mode = "oldaskconfig" THEN <<Call("conf", 1), Call("update", 1)>> ELSE <<Call("update", 1)>>

Process(mode, st) ==
    [pc |-> "ask", mode |-> mode, st |-> st, todo |-> FirstCalls(mode), cnt |-> 0, root |-> 1,
     tmp |-> NoFile, silent |-> FALSE, asked |-> {}]

\* The walk is over: list modes end, the others write.
Asking(w) ==
    IF w.todo # <<>> THEN w
    ELSE IF w.mode \in {"listnewconfig", "helpnewconfig"} THEN Off
    ELSE [w EXCEPT !.pc = "write"]

Writing(mode, st) == [Process(mode, st) EXCEPT !.pc = "write", !.todo = <<>>]

Idle == run = Off /\ runs < Trees[ver].maxRuns

NewRun(r) == run' = r /\ runs' = runs + 1

Read == conf_read(K, FreshProcess(K), disk.config)

\* KCONFIG_NOSILENTUPDATE: syncconfig refuses to change .config, and writes the
\* generated files only.
StartWalk ==
    /\ Idle
    /\ \E mode \in Modes \cap WalkModes, silent \in BOOLEAN, st \in {Read} :
         /\ silent => mode = "syncconfig" /\ ~st.changed
         /\ NewRun(Asking(Walk(K, [Process(mode, st) EXCEPT !.silent = silent])))
    /\ UNCHANGED <<ver, disk, touched, torn>>

StartAll ==
    /\ Idle
    /\ \E mode \in Modes \cap AllModes, seed \in Seeds \cup {NoFile} :
         LET st == IF seed = NoFile THEN FreshProcess(K) ELSE conf_read_simple(K, FreshProcess(K), seed).st
         IN  \E t \in conf_set_all_new_symbols(K, mode, st) : NewRun(Writing(mode, t))
    /\ UNCHANGED <<ver, disk, touched, torn>>

\* Modes that replace a value of tristates by another one.
Replaces == [yes2modconfig |-> <<yes, mod>>, mod2yesconfig |-> <<mod, yes>>, mod2noconfig |-> <<mod, no>>]

StartRewrite ==
    /\ Idle
    /\ \E mode \in Modes \cap DOMAIN Replaces :
         NewRun(Writing(mode, conf_rewrite_tristates(K, Read, Replaces[mode][1], Replaces[mode][2])))
    /\ UNCHANGED <<ver, disk, touched, torn>>

StartOld ==
    /\ Idle /\ "olddefconfig" \in Modes
    /\ NewRun(Writing("olddefconfig", Read))
    /\ UNCHANGED <<ver, disk, touched, torn>>

\* --defconfig reads a file that is given, or one --savedefconfig wrote.
FromDefconfig(k, f) == conf_set_all_new_symbols(k, "defconfig", conf_read(k, FreshProcess(k), f))

StartDefconfig ==
    /\ Idle /\ "defconfig" \in Modes
    /\ \E f \in Defconfigs \cup ({disk.def} \ {NoFile}) :
         \E t \in FromDefconfig(K, f) : NewRun(Writing("defconfig", t))
    /\ UNCHANGED <<ver, disk, touched, torn>>

\* The minimal configuration is written in place.
SaveDefconfig ==
    /\ Idle /\ "savedefconfig" \in Modes /\ NewRun(Off)
    /\ disk' = [disk EXCEPT !.def = conf_write_defconfig(K, Read).lines]
    /\ UNCHANGED <<ver, touched, torn>>

Answer ==
    /\ run.pc = "ask"
    /\ \E st \in Answers(K, run) :
         run' = Asking(Walk(K, [Then(run, st, <<>>) EXCEPT !.asked = @ \cup Offers(K, run)]))
    /\ UNCHANGED <<ver, disk, touched, torn, runs>>

At(pc, next) == run.pc = pc /\ run' = [run EXCEPT !.pc = next] /\ UNCHANGED <<ver, torn, runs>>

\* conf_write(): the new text goes to a temporary file; if it is the same text,
\* .config keeps its time stamp.
WriteConfig ==
    /\ run.pc = "write"
    /\ \E d \in {DotConfig(K, IF run.st.changed THEN run.st ELSE sym_clear_all_valid(K, run.st))} :
           run' = IF run.silent THEN [run EXCEPT !.pc = "touch"]
                  ELSE [run EXCEPT !.st = [d.st EXCEPT !.changed = FALSE], !.tmp = d.lines,
                                   !.pc = IF d.lines = disk.config THEN "touch" ELSE "old"]
    /\ UNCHANGED <<ver, disk, touched, torn, runs>>

KeepOld ==
    /\ At("old", "new")
    /\ disk' = IF disk.config = NoFile THEN disk ELSE [disk EXCEPT !.old = disk.config, !.config = NoFile]
    /\ UNCHANGED touched

RenameNew ==
    /\ At("new", "touch")
    /\ disk' = [disk EXCEPT !.config = run.tmp, !.stale = TRUE]
    /\ UNCHANGED touched

TouchDeps ==
    /\ run.pc = "touch"
    /\ \E st \in {CalcAll(K, ReadAuto(K, run.st, disk.auto), <<K.modules>> \o K.syms)} :
         /\ run' = [run EXCEPT !.pc = "header", !.st = st]
         /\ touched' = touched \cup Outdated(K, st, disk.auto) \cup Unknown(K, disk.auto)
    /\ UNCHANGED <<ver, disk, torn, runs>>

WriteHeader == At("header", "rustc") /\ disk' = [disk EXCEPT !.header = AutoConf(K, run.st)] /\ UNCHANGED touched
WriteRustc  == At("rustc", "auto") /\ disk' = [disk EXCEPT !.rustc = AutoConf(K, run.st)] /\ UNCHANGED touched
WriteAuto   ==
    /\ At("auto", "cmake")
    /\ disk' = [disk EXCEPT !.auto = AutoConf(K, run.st), !.stale = FALSE]
    /\ touched' = {}

\* print_symbol_for_cmake() aborts at a symbol that is m.
HasModule == \E s \in Written(K, run.st) : IsTri(K, s) /\ run.st.val[s] = mod

WriteCmake ==
    /\ At("cmake", "done") /\ ~HasModule
    /\ disk' = [disk EXCEPT !.cmake = CmakeFile(K, run.st)]
    /\ UNCHANGED touched

Ends(damage) == run' = Off /\ torn' = damage /\ UNCHANGED <<ver, disk, touched, runs>>

Abort == run.pc = "cmake" /\ HasModule /\ Ends(TRUE)
Exit  == run.pc = "done" /\ Ends(FALSE)

\* The process is killed, or cannot write a file.
Stop == run.pc \notin {"off", "done"} /\ Ends(torn \/ run.pc \in {"rustc", "auto", "cmake"})

----------------------------------------------------------------------------
(* Between the runs.                                                       *)

EditConfig ==
    /\ Idle
    /\ \E lines \in Edits : lines # disk.config /\ disk' = [disk EXCEPT !.config = lines, !.stale = TRUE]
    /\ UNCHANGED <<ver, run, touched, torn, runs>>

ChangeKconfig ==
    /\ Idle /\ Trees[ver].next # 0
    /\ ver' = Trees[ver].next /\ disk' = [disk EXCEPT !.stale = TRUE]
    /\ UNCHANGED <<run, touched, torn, runs>>

Program == \/ Answer \/ WriteConfig \/ KeepOld \/ RenameNew \/ TouchDeps \/ WriteHeader \/ WriteRustc
           \/ WriteAuto \/ WriteCmake \/ Abort \/ Exit

Next == \/ StartWalk \/ StartAll \/ StartRewrite \/ StartOld \/ StartDefconfig \/ SaveDefconfig \/ Program \/ Stop
        \/ EditConfig \/ ChangeKconfig

Spec == Init /\ [][Next]_vars

----------------------------------------------------------------------------

\* While the user is asked, every value that counts as computed is the one a new
\* computation from the same answers gives, and no symbol needed itself.
FreshValues(k, st) == CalcAll(k, sym_clear_all_valid(k, st), k.syms)

SameValues(k, st, f) ==
    /\ ~f.again
    /\ \A s \in st.valid \cap ToSet(k.syms) :
         st.val[s] = f.val[s] /\ st.vis[s] = f.vis[s] /\ (s \in st.write <=> s \in f.write)

NothingStale == run.pc = "ask" => SameValues(K, run.st, FreshValues(K, run.st))

\* A run that ends well leaves generated files that say the same, and reading
\* the new .config gives their values and calls for no change.  A choice with two
\* members that are y when the run begins (randconfig, lines that conflict) is
\* the exception: .config keeps the one read last (the comment at
\* confdata.c:472), but conf_touch_deps() has moved the member of the previous
\* auto.conf to the front before the other files are written.  Then the files
\* differ in the members of that choice, and in nothing else.
FilesSay(k, st) ==
    /\ disk.header = AutoConf(k, st) /\ disk.rustc = disk.header /\ disk.auto = disk.header
    /\ disk.cmake = CmakeFile(k, st)
    /\ ~st.changed

Contested(k, st) == {c \in DOMAIN k.members : Cardinality({m \in ToSet(k.members[c]) : st.user[m] = yes}) > 1}

AsGenerated(s) == <<s, IF s \in DOMAIN disk.header THEN yes ELSE no>>

Agreed(k, contested) ==
    [i \in DOMAIN disk.config |-> LET s == disk.config[i][1]
                                  IN IF k.choiceOf[s] \in contested THEN AsGenerated(s) ELSE disk.config[i]]

Settled ==
    run.pc = "done" => FilesSay(K, conf_read(K, FreshProcess(K), Agreed(K, Contested(K, run.st))))

\* What a build makes of a generated file: a symbol that is not in it is n.
Defined(f)       == IF f = NoFile THEN {} ELSE DOMAIN f
BuildValue(f, s) == IF s \in Defined(f) THEN f[s] ELSE no
Differing(f, g)  == {s \in Defined(f) \cup Defined(g) : BuildValue(f, s) # BuildValue(g, s)}

\* While auto.conf is newer than .config the header and rustc_cfg belong to it,
\* also after a run that was killed, unless .config never gave its values (a
\* contested choice, see Settled).
AutoConfLast ==
    ~disk.stale => \/ disk.header = disk.auto /\ disk.rustc = disk.auto
                   \/ AutoConf(K, Read) # disk.auto

\* config.cmake, which the build of this firmware includes, comes after auto.conf:
\* it agrees with the header that the sources include unless a run was cut short
\* between the two and none has ended well since.
WholeUnlessTorn == run = Off /\ ~torn => Differing(disk.cmake, disk.header) = {}

\* A symbol that changes with auto.conf has had its dependency file touched since
\* auto.conf was replaced before, however many runs were killed in between.
TouchedFirst == Differing(disk.auto, disk'.auto) \subseteq touched

\* --savedefconfig leaves out what --defconfig finds again.
FoundAgain(k, st) ==
    \A t \in FromDefconfig(k, conf_write_defconfig(k, st).lines) :
      CmakeFile(k, CalcAll(k, t, k.syms)) = CmakeFile(k, CalcAll(k, st, k.syms))

MinimalSuffices == run = Off /\ disk.config # NoFile => FoundAgain(K, Read)

\* Every prompt accepts some answer, and is about a symbol the session has not
\* asked for before: the loop that starts over after each new symbol ends.
AsksForNews ==
    run.pc = "ask" => Answers(K, run) # {} /\ ~(Offers(K, run) \subseteq run.asked)
=============================================================================
