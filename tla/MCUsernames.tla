---------------------------- MODULE MCUsernames ----------------------------
(***************************************************************************)
(* Usernames for TLC: every combination of short beginnings and ends, with *)
(* something between them or without.                                      *)
(***************************************************************************)
EXTENDS Usernames

MCForbiddenPrefixes == {<<"x", "x">>, <<"1", "1", "1">>}
MCForbiddenSuffixes == {<<"1", "x">>}
MCCharacters == {"x", "X", "1", "-", "@", "."}
MCSignedUp ==
    {s \o m \o t : s \in BoundedSeq(MCCharacters, 2),
                   m \in {<<>>, <<"x", "1", "1", "1">>, <<"1", "1", "1", "1">>},
                   t \in BoundedSeq(MCCharacters, 3)}
=============================================================================
