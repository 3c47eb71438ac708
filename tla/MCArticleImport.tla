-------------------------- MODULE MCArticleImport ---------------------------
(* Records for ArticleImport: two slugs, and tag lists that share tags in     *)
(* both orders, repeat one, or are empty.                                      *)
EXTENDS ArticleImport

CONSTANTS s1, s2, a, b, old

Call(kind, slug, list) == [kind |-> kind, slug |-> slug, tags |-> list]

MCCalls ==
  {Call("import", s1, <<a, b>>), Call("import", s1, <<a, a>>), Call("import", s1, <<>>),
   Call("import", s2, <<b, a>>),
   Call("create", s1, <<a, b>>), Call("create", s2, <<b, old>>)}
=============================================================================
