----------------------------- MODULE MCKeyboard -----------------------------
(* Five keyboards with keys of every kind the handler tells apart: the     *)
(* modifiers with a key that has the prefix, the locks, and the keys that  *)
(* make requests together with Alt.                                         *)
EXTENDS Keyboard

Key(sym) == [sym |-> sym, ext |-> FALSE]
E0Key(sym) == [sym |-> sym, ext |-> TRUE]

SomeKeyboards ==
  { {Key("CTRL"), E0Key("CTRL"), Key("SHIFT"), E0Key("PGUP")},
    {Key("ALT"), E0Key("ALT"), Key("F1")},
    {Key("CAPS"), Key("NUMS")},
    {Key("CAPS"), Key("SCRL")},
    {Key("ALT"), Key("a"), Key("SYSRQ")} }
=============================================================================
