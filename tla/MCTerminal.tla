----------------------------- MODULE MCTerminal -----------------------------
(* An instance of Terminal for TLC. *)
EXTENDS Terminal

e == 101
f == 102

\* "f", "ef", "efe", a space, " e  f" with a tab in it, "e efe" and "e e f".
Lines == {<<f>>, <<e, f>>, <<e, f, e>>, <<Space>>, <<Space, e, Tab, Space, f>>,
          <<e, Space, e, f, e>>, <<e, Space, e, Space, f>>}
Names == {<<e, f>>, <<e, f, e>>}
Stack == {<<0, 0>>, <<1, 2>>, <<2, 5>>}
Characters == {32, e, f}
Typing == {e, f}
Shown == <<f>>
Asks == <<e>>
Notes == {<<e, NL, NL>>, <<e, e, NL>>}
=============================================================================
