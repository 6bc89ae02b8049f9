------------------------------- MODULE MCConf -------------------------------
(* Instances of KConf for TLC, cut from carlfw/Kconfig. *)
EXTENDS KConf

Type(t)         == [k |-> "type", t |-> t]
Prompt          == [k |-> "prompt", cond |-> Null]
DefBool(e)      == [k |-> "def", t |-> "bool", e |-> e, cond |-> Null]
Default(e)      == [k |-> "default", e |-> e, cond |-> Null]
Depends(e)      == [k |-> "depends", e |-> e]
Select(s)       == [k |-> "select", s |-> s, cond |-> Null]
Imply(s)        == [k |-> "imply", s |-> s, cond |-> Null]
Between(lo, hi) == [k |-> "range", lo |-> lo, hi |-> hi, cond |-> Null]
Config(s, opts) == [k |-> "config", s |-> s, opts |-> opts]
MenuConfig(s, opts) == [k |-> "menuconfig", s |-> s, opts |-> opts]
Choice(s, opts) == [k |-> "choice", s |-> s, opts |-> opts]
If(e)           == [k |-> "if", e |-> e]
Menu            == [k |-> "menu", opts |-> <<>>]
Comment(e)      == [k |-> "comment", opts |-> <<Depends(e)>>]
End(of)         == [k |-> "end", of |-> of]
Source(f)       == [k |-> "source", f |-> f]

Or(a, b) == <<"or", a, b>>

Clock(members) ==
  <<Choice("clock", <<Prompt, Depends(Sym("UART")), Default(Sym("C40"))>>)>> \o members \o <<End("choice")>>

\* The debug options: a choice that depends on an option, an option that
\* depends on a name that is not defined, an option after them.
Uart(members) ==
  <<Menu,
    Config("BROKEN", <<DefBool(Sym("n")), Prompt>>),
    Config("UART", <<DefBool(Sym("n")), Depends(Sym("BROKEN")), Prompt>>),
    Config("PRINTF", <<DefBool(Sym("y")), Prompt, Depends(Or(Sym("UART"), Sym("USB")))>>)>>
  \o Clock(members) \o <<End("menu")>>

Member(s) == Config(s, <<Type("bool"), Prompt>>)

\* Wake on WLAN: one option selects another, a number in a range, and an implied one.
Wol ==
  <<Menu,
    MenuConfig("OPTION", <<DefBool(Sym("n")), Prompt>>),
    Config("WOL", <<DefBool(Sym("n")), Depends(Sym("OPTION"))>>),
    If(Sym("OPTION")),
    Config("TRIGGERS", <<DefBool(Sym("n")), Prompt, Select("WOL"), Imply("PROBE")>>),
    Config("PROBE", <<DefBool(Sym("n")), Prompt, Select("WOL")>>),
    End("if"),
    Config("VIFS", <<Default(Sym("1")), Type("int"), Prompt, Depends(Sym("PROBE")), Between("1", "3")>>),
    Comment(Sym("WOL")),
    End("menu")>>

\* Tristates, which this firmware does not use but the program supports.
Modular ==
  <<Config("MODULES", <<DefBool(Sym("y")), Prompt, [k |-> "modules"]>>),
    Config("CORE", <<Type("tristate"), Prompt, Default(Sym("m"))>>),
    Config("USER", <<Type("tristate"), Prompt, Depends(Sym("CORE"))>>),
    Config("LOG", <<Type("bool"), Prompt, Depends(<<"eq", "USER", "y">>)>>)>>

Every == WalkModes \cup AllModes \cup {"olddefconfig", "defconfig", "savedefconfig", "yes2modconfig", "mod2yesconfig",
                                       "mod2noconfig"}

Tree(names, files) ==
  [main |-> "Kconfig", files |-> files, names |-> names \cup Constants \cup {"1", "3"},
   lit |-> ("1" :> 1 @@ "3" :> 3), quoted |-> {}, next |-> 0, modes |-> Every,
   maxRuns |-> 2]

UartNames == {"BROKEN", "UART", "PRINTF", "USB", "clock", "C25", "C40"}

UartTrees == <<[next |-> 2] @@ Tree(UartNames, [Kconfig |-> Uart(<<Member("C25"), Member("C40")>>)]),
               Tree(UartNames \cup {"C80", "OPTION"}, [Kconfig |-> <<Config("OPTION", <<DefBool(Sym("y")), Prompt>>), Source("sub")>>,
                                 sub |-> Uart(<<Member("C25"), Member("C40"), Member("C80")>>)])>>
WolTrees == <<Tree({"OPTION", "WOL", "TRIGGERS", "PROBE", "VIFS"}, [Kconfig |-> Wol])>>
ModTrees == <<Tree({"MODULES", "CORE", "USER", "LOG"}, [Kconfig |-> Modular])>>

\* Three runs in a row, in the modes that a contested choice takes.
LongTrees == <<[modes |-> {"syncconfig", "randconfig"}, maxRuns |-> 3] @@
               Tree({"UART", "clock", "C25", "C40"},
                    [Kconfig |-> <<Config("UART", <<DefBool(Sym("n")), Prompt>>)>> \o Clock(<<Member("C25"), Member("C40")>>)])>>

AllTrees == UartTrees \o WolTrees \o ModTrees \o LongTrees

\* What reading each tree leaves. The value of a constant is computed once, and
\* the LET keeps the tables out of what TLC unfolds where the constant is used.
Parsings == [i \in DOMAIN AllTrees |-> conf_parse(AllTrees[i])]
ParsedTrees == LET t == Parsings IN t

\* Two members of the choice in one file, and symbols one of the trees does not have.
Uart25 == <<<<"BROKEN", yes>>, <<"UART", yes>>, <<"C25", yes>>>>
EditsA == {Uart25, Append(Uart25, <<"C40", yes>>), <<<<"OPTION", yes>>, <<"VIFS", 7>>, <<"CORE", mod>>>>}
DefsA == {<<<<"BROKEN", yes>>, <<"UART", yes>>>>}
=============================================================================
