------------------------------- MODULE MCVfs --------------------------------
EXTENDS Vfs

MCBytes == {"#", "!", "E", "L", "?", "e", "s", "q", "a", "x", "y", "z", " ", "'", "\"", "\\", "\n"}

MCMagics == {<<"#">>, <<"#", "!">>, <<"E">>}

Image(x, h) == [executable |-> x, head |-> h]

\* e is a program; s and t are scripts, with t run by s and s by e.
MCImages ==
  (<<"e">> :> Image(TRUE, <<"E", "L">>)) @@
  (<<"s">> :> Image(TRUE, <<"#", "!", "e", " ", "'", "a", " ", "\\", "'", "\n", "x">>)) @@
  (<<"t">> :> Image(TRUE, <<"#", "!", " ", "s", " ", "\"", "x", "'", "\\", "\"", "\"", "y", " ", "z", "\\", " ">>)) @@
  (<<"m">> :> Image(TRUE, <<"#", "!", "q">>)) @@
  (<<"g">> :> Image(TRUE, <<"?">>)) @@
  (<<"n">> :> Image(FALSE, <<"E">>))

MCLine ==
  (<<"s">> :> << <<"e">>, <<"a", " ", "\\">> >>) @@
  (<<"t">> :> << <<"s">>, <<"x", "'", "\"", "y">>, <<"z", " ">> >>)

MCStarts == {<<p, <<p, <<"1">>>>>> : p \in DOMAIN MCImages \cup {<<"q">>}}

MCTargets == [toA |-> [abs |-> TRUE, parts |-> <<"a">>]]

MCPaths == {<<"a">>, <<"b">>, <<"a", "b">>, <<"dev">>, <<"dev", "none">>}
             \cup {<<"dev", n>> : n \in {"null", "zero", "console", "vda"}}

MCSeeks == {<<"SET", 0>>, <<"CUR", -4>>, <<"END", 0>>}

=============================================================================
