---------------------------- MODULE MCProfileSetup ----------------------------
EXTENDS ProfileSetup
MCNeeds == [text |-> <<"engine", "weights">>, image |-> <<"engine", "weights">>]
MCProfile == <<"text", "image">>
=============================================================================
