---------------------------- MODULE MCSourceTree ----------------------------
(* A root with a file, a directory with a file in it, a second spelling of  *)
(* the first file's name, and an excluded directory with a file in it.      *)
EXTENDS SourceTree

CONSTANTS Top0, F, G, D, DF, X, XF

MCPaths == {F, G, D, DF, X, XF}
MCParent == [p \in MCPaths |-> CASE p = DF -> D [] p = XF -> X [] OTHER -> Top0]
MCName == [p \in MCPaths |-> IF p = G THEN F ELSE p]
MCFirst ==
    [p \in MCPaths \cup {Top0} |->
        CASE p = Top0 -> 1 [] p = F -> 2 [] p = G -> 3 [] p = D -> 4
          [] p = DF -> 5 [] p = X -> 6 [] OTHER -> 7]

MCContents == {<<>>, <<1, 1>>, <<2, 2>>}

OfKind(kind) == [kind |-> kind, content |-> IF kind = "file" THEN <<1, 1>> ELSE <<>>]
Tree(files, directories, others) ==
    [p \in files \cup directories \cup others |->
        OfKind(IF p \in files THEN "file" ELSE IF p \in directories THEN "directory" ELSE "link")]

MCTrees ==
    { Tree({F, DF}, {Top0, D}, {}), Tree({F}, {Top0, D}, {}),
      Tree({F, XF}, {Top0, X}, {}), Tree({F, G}, {Top0}, {}),
      Tree({F}, {Top0}, {D}), Tree({Top0}, {}, {}) }
=============================================================================
