------------------------------- MODULE MCPages -------------------------------
(***************************************************************************)
(* Values for model checking PageProperties.                               *)
(***************************************************************************)
EXTENDS PageProperties, TLC

ThreadSymmetry == Permutations(Threads)

PlainText(b) == [body |-> b, links |-> {}]

LinkingText(b, links) == [body |-> b, links |-> links]

SeedPage(p, title, tags, text) ==
    [page |-> [id |-> p, title |-> title, tags |-> tags, locked |-> FALSE,
               createdBy |-> "editor"],
     text |-> text]

NoSeed == <<>>

(* A home page, with no links. *)
HomeSeed == <<SeedPage(1, "A", <<"homepage">>, PlainText("x"))>>

(* A page of two tags. *)
TaggedSeed == <<SeedPage(1, "A", <<"t", "homepage">>, PlainText("x"))>>

(* Two pages that link to one another. *)
LinkedSeed == <<SeedPage(1, "A", <<"t">>, LinkingText("x", {"B"})),
                SeedPage(2, "B", <<>>, LinkingText("x", {"A"}))>>

(* A page that links to two others. *)
HubSeed == <<SeedPage(1, "A", <<>>, PlainText("x")),
             SeedPage(2, "B", <<>>, PlainText("x")),
             SeedPage(3, "C", <<>>, LinkingText("x", {"A", "B"}))>>

NoTags == {<<>>}
HomeOnly == {<<"homepage">>}
TagOnly == {<<"t">>}
NoLinks == {{}}
=============================================================================
