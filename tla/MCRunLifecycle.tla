--------------------------- MODULE MCRunLifecycle ---------------------------
(* RunLifecycle for TLC: one source, at most two vacancies, the listings    *)
(* its site may show and where the handlers run.                            *)
EXTENDS RunLifecycle, TLC

CONSTANTS s1, k1, k2, post, other, h1, h2, sv1, sv2

MCSources == {s1}
MCContents == {post, other}
MCTracked == [c \in MCContents |-> c]
MCCounts == 0..MaxCards
MCHandlers == {h1, h2}

Shows(k) == [key |-> k, content |-> post]

MCOneServer  == {sv1}
MCTwoServers == {sv1, sv2}
MCAllOnOne   == (h1 :> sv1) @@ (h2 :> sv1)
MCOneOnEach  == (h1 :> sv1) @@ (h2 :> sv2)

MCUnpaginated == {s1 :> NoPagination}
MCEither == {s1 :> NoPagination, s1 :> 1}

(* Nothing, both vacancies, one of them on two cards that differ, or one of *)
(* them before a card without an identity.                                  *)
MCListings ==
  {<<>>, <<Shows(k1), Shows(k2)>>, <<Shows(k1), [key |-> k1, content |-> other]>>,
   <<Shows(k1), [key |-> NoKey, content |-> post]>>}

MCTwoPosts == {<<>>, <<Shows(k1)>>, <<Shows(k1), Shows(k2)>>}

MCOnePost == {<<>>, <<Shows(k1)>>, <<Shows(k1), [key |-> NoKey, content |-> post]>>}

MCMatching == {k1}

OneServerSymmetry == Permutations(RunIds) \cup Permutations(Handlers)
=============================================================================
