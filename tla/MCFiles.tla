------------------------------ MODULE MCFiles ------------------------------
EXTENDS Files

\* Every two calls that meet at a name are together in one of them
MCMixes == {Safe, {"put", "read", "remove"}, Changing}
MCSpelling ==
  [n \in {".", "..", "ab", "aB", "Ab", "b", "file", "tmp"} |->
    CASE n = "."  -> <<46>>     [] n = ".." -> <<46, 46>>
      [] n = "ab" -> <<97, 98>> [] n = "aB" -> <<97, 66>> [] n = "Ab" -> <<65, 98>>
      [] n = "b"  -> <<98>>
      [] n = "file" -> <<102, 105, 108, 101>> [] n = "tmp" -> <<116, 109, 112>>]
MCCollation == <<".", "..", "ab", "aB", "Ab", "b", "file", "tmp">>
MCScanFlags ==
  {{}, {"nosort", "dot"}, {"dot"}, {"wildcard"}, {"x"}, {"x", "dirs"}, {"x", "dirs", "wildcard"}}
MCPaths ==
  {<<>>, <<"/">>, <<"f">>, <<"f", "/", "a">>, <<"/", "a", "/", "b">>, <<"a", "/", "b", "/", "f", "/">>,
   <<"b", "/", "/", "a">>, <<"c:", "/", "/", "b">>, <<"c:", "/", "b", "/", "a">>, <<"/", "b", "/", "a", "/", "b">>}
MCTexts == UNION {[1..n -> {"$", "a", "b", "-"}] : n \in 0..4}
MCEnviron == <<<<"a", "b", "=", "x">>, <<"a", "=", "y", "$">>, <<"b", "=">>, <<"a", "=", "z">>>>
MCOutCaps == {NewBuffer, 0, 2, 3}
MCDirsNow == {<<"a">>}
MCFilesNow == {<<"f">>}
=============================================================================
