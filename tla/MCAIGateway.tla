---------------------------- MODULE MCAIGateway ----------------------------
(***************************************************************************)
(* Instances of AIGateway for TLC: a provider with one key, and another to *)
(* fall back on with one key too; a chat, and an upload that does not      *)
(* exclude the keys it has tried, whose budget can be read or not.         *)
(***************************************************************************)
EXTENDS AIGateway, TLC

CONSTANTS k1, k2, c1, c2

MCRank == (k1 :> 1) @@ (k2 :> 1)

TwoProviders == <<{k1}, {k2}>>

MCAsks ==
  (c1 :> {<<"chat", "all">>})
    @@ (c2 :> {<<"multipart", "all">>, <<"multipart", "none">>})

OneAsks == c1 :> {<<"json", "all">>}

OneProvider == <<{k1}>>
=============================================================================
