---------------------------- MODULE MCStatusTree ----------------------------
(* StatusTree for TLC.                                                     *)
EXTENDS StatusTree

\* A mapping in a mapping, with two values, and a value beside it.
MCNames == {<<"a">>, <<"b">>, <<"a", "a">>, <<"a", "a", "a">>, <<"a", "a", "b">>}

\* {"a": {"a": {"a": 1}}, "b": 2} and {"a": 1, "b": 2}
MCUpdates == {{<<"a", "a", "a">>, <<"b">>}, {<<"a">>, <<"b">>}}
=============================================================================
