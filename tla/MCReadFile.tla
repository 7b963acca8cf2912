----------------------------- MODULE MCReadFile ------------------------------
(* Instances of ReadFile for TLC: containers of one byte, of one and of two  *)
(* or three answers, and metadata with and without tag 20, of up to 50 bytes *)
(* and more.                                                                 *)
EXTENDS ReadFile

MCLayouts == {<<"other">>, <<"other", "length", "other">>, <<"long", "length">>}
WithLength == {<<"other", "length">>}
==============================================================================
