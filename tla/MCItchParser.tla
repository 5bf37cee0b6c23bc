---------------------------- MODULE MCItchParser ----------------------------
\* ItchParser on streams of three frames of two types.
EXTENDS ItchParser

MCTypeOf == <<"A", "S", "A">>
=============================================================================
