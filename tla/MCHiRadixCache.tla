---------------------------- MODULE MCHiRadixCache ----------------------------
(***************************************************************************)
(* Small instances of HiRadixCache.  A prefix is the sequence of its page  *)
(* labels.                                                                 *)
(***************************************************************************)
EXTENDS HiRadixCache, SequencesExt

CONSTANTS r1, r2

PrefixTree(keys) == [p \in UNION {Prefixes(k) : k \in keys} |->
                        Prefixes(p) \ {<<>>}]

MCRoot == <<>>
MCReqs == {r1, r2}
MCWork == {<< <<"a">>, <<"a", "b">> >>, << <<"a", "c">>, <<"a", "c">> >>}
MCAnc == PrefixTree({w[2] : w \in MCWork})
MCPaths == DOMAIN MCAnc \ {<<>>}
MCDevPages == 1..5
MCHostSize == 6

\* A prompt that extends another request's prompt and output.
MCWorkB == {<< <<"a">>, <<"a", "b">> >>, << <<"a", "b">>, <<"a", "b">> >>}
MCAncB == PrefixTree({w[2] : w \in MCWorkB})
MCPathsB == DOMAIN MCAncB \ {<<>>}

MCWorkH == {<<k, k>> : k \in {<<"a", "b">>, <<"a", "c">>, <<"d">>, <<"e", "f">>}}
MCAncH == PrefixTree({w[2] : w \in MCWorkH})
MCPathsH == DOMAIN MCAncH \ {<<>>}
MCReqsH == {r1}
MCDevPagesH == 1..4
MCHostSizeH == 5
=============================================================================
