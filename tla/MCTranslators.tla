--------------------------- MODULE MCTranslators ---------------------------
(* Instances of Translators for TLC: tags of three and four characters,    *)
(* which share their first one as <think> and </think> do.                 *)
EXTENDS Translators

MCOpen == <<"<", "t", ">">>
MCClose == <<"<", "/", "t", ">">>
=============================================================================
