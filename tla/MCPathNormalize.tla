--------------------------- MODULE MCPathNormalize ---------------------------
EXTENDS PathNormalize

\* The components from which paths are built, each with a separator.
MCTexts == {<<>>, <<".">>, <<".", ".">>, <<"a">>, <<"b", "b">>, <<"c", ":">>}
MCPlain == {t \o <<"/">> : t \in MCTexts \ {<<"c", ":">>}}
MCPieces == {t \o <<"/">> : t \in MCTexts} \cup {<<"a", "\\">>, <<"\\">>}

MCFrom(pieces, n) == {FlattenSeq(q) : q \in [1..n -> pieces]}
MCFolders == UNION {MCFrom(MCPieces, n) : n \in 0..3} \cup MCFrom(MCPlain, 4)
MCPaths == {d \o t : d \in MCFolders, t \in {<<>>, <<".", ".">>, <<"a">>}}

MCChars == {".", "a", "b", "c", ":", "/", "\\"}
MCFlagSets ==
  {{}, {"simple"}, {"disk"}, {"simple", "disk"}, {"backslash", "disk"},
   {"backslash", "force_slash"}, {"backslash", "force_backslash", "simple"}}
MCCaps == {3, 100}
==============================================================================
