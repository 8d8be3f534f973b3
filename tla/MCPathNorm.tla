----------------------------- MODULE MCPathNorm -----------------------------
EXTENDS PathNorm

\* Paths of up to five components, below each kind of root.
MCTexts == {<<".", ".">>, <<"a">>, <<"b", "b">>}
MCPieces == {t \o <<"/">> : t \in MCTexts}
MCRoots == {<<>>, <<"/">>, <<"c", ":", "/">>}

MCFolders == UNION {{FlattenSeq(q) : q \in [1..n -> MCPieces]} : n \in 0..4}
MCPaths == {r \o d \o t : r \in MCRoots, d \in MCFolders, t \in {<<>>, <<"a">>}}
MCCaps == {100}
=============================================================================
