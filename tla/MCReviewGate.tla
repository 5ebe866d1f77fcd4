---------------------------- MODULE MCReviewGate ----------------------------
(***************************************************************************)
(* Three heads, h1 <- h2 <- h3.  h2 edits p1 inside f's hunk; h3 edits p2  *)
(* inside g's hunk.                                                        *)
(***************************************************************************)
EXTENDS ReviewGate, TLC
CONSTANTS h1, h2, h3, p1, p2, f, g

MCAncestors == (h1 :> {h1}) @@ (h2 :> {h1, h2}) @@ (h3 :> {h1, h2, h3})
MCBase == (p1 :> 0) @@ (p2 :> 0)
MCContent == (h1 :> ((p1 :> 1) @@ (p2 :> 1))) @@ (h2 :> ((p1 :> 2) @@ (p2 :> 1)))
          @@ (h3 :> ((p1 :> 2) @@ (p2 :> 2)))
MCPathOf == (f :> p1) @@ (g :> p2)
MCHunkOf == (f :> [path |-> p1, start |-> 2, end |-> 3]) @@ (g :> [path |-> p2, start |-> 5, end |-> 5])

Edit(path, removed, anchor, added) ==
    [path |-> path, removed |-> removed, anchor |-> anchor, added |-> added, plain |-> TRUE]
InP == Edit(p1, {2}, 0, 1)
InsertP == Edit(p1, {}, 1, 1)
InQ == Edit(p2, {5}, 0, 1)
MCInterdiff == [x \in Heads \X Heads |->
    CASE x = <<h1, h2>> -> {InP, InsertP}
      [] x = <<h1, h3>> -> {InP, InsertP, InQ}
      [] x = <<h2, h3>> -> {InQ}
      [] OTHER -> {}]
MCReports == <<{{f}}, {{}, {f, g}}, {{}}>>
MCPools == {{"claude", "codex"}, {"claude", "grok"}}
=============================================================================
