------------------------- MODULE MCFixtureServices -------------------------
EXTENDS FixtureServices

\* A sandbox r with a file, a directory with a file, a link to a file and a
\* directory of its own, a directory with a file and a link to itself, links that
\* lead outside and one that leads nowhere; and beside it a directory o with a file.
MCRoot == <<"r">>

MCTree ==
    LET dirs0  == {<<"r">>, <<"r", "d">>, <<"r", "d", "n">>, <<"r", "e">>, <<"o">>}
        files0 == <<<<"r", "a">>, <<"r", "d", "b">>, <<"r", "d", "n", "b">>, <<"o", "s">>,
                    <<"r", "e", "b">>>>
        links0 == {<<<<"r", "d", "m">>, <<"r", "a">>>>, <<<<"r", "e", "up">>, <<"r", "e">>>>,
                   <<<<"r", "k">>, <<"o">>>>, <<<<"r", "s">>, <<"o", "s">>>>,
                   <<<<"r", "q">>, <<"r", "gone">>>>}
    IN  [p \in dirs0 \cup {files0[i] : i \in DOMAIN files0} \cup {l[1] : l \in links0} |->
            IF p \in dirs0 THEN Dir
            ELSE IF \E i \in DOMAIN files0 : files0[i] = p
                 THEN File(CHOOSE i \in DOMAIN files0 : files0[i] = p)
                 ELSE Link((CHOOSE l \in links0 : l[1] = p)[2])]

MCDisk == [i \in 1..5 |-> <<1>>]

MCTargets == {<<>>, <<"a">>, <<"d">>, <<"e">>, <<"k">>, <<"q">>, <<"new">>, <<"d", "m">>,
              <<"e", "up">>, <<"s">>, <<"k", "s">>, <<"k", "new">>, <<"a", "b">>}
MCEntries == <<"a", "b", "d", "e", "k", "m", "n", "new", "q", "s", "up">>
=============================================================================
